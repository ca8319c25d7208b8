--------------------------- MODULE PublishProofs ----------------------------
(***************************************************************************)
(* What `datapin publish` and `datapin pull <dataset>` keep, for any keys, *)
(* contents, records and bounds: proofs about Publish and DatasetPull.     *)
(*                                                                         *)
(* Every action is first shown to preserve the types and to be a step of   *)
(* one of a dozen forms (a run works on its draft, ends, opens, publishes, *)
(* pins, ...), with the fields it changes.  The invariants are then proved *)
(* of the forms:                                                           *)
(*   Sound      what a run's place says of its record and of the archive   *)
(*   Single     whose records have versions            (OneRecord)         *)
(*   Discards   whose drafts there are                 (FailureDiscards)   *)
(*   Numbered   how many versions the record has       (PinNamesVersion)   *)
(*   Filled     what the draft holds                   (PublishedIsLocal)  *)
(*   Served     which version the checksums fit        (PinsServed)        *)
(***************************************************************************)
EXTENDS DatasetPull, TLAPS

(* The labels at which a run imports an InvenioRDM draft's files, and      *)
(* those at which it works on the draft of its record.                     *)
Deep == {"import", "clear", "reimport"}
Drafting == {"apply", "upload", "commit", "preflight", "reserve", "publish", "discard"}
In(S) == run.pc \in S

PinType == [remote : Kinds, record : 0..MaxRecords, index : Nat, version : Nat, sums : Files]

ArchiveInv ==
    /\ versions \in [Records -> Seq(Files)]
    /\ draft \in [Records -> DraftFiles \union {NoDraft}]
    /\ finalizing \subseteq Records
UserInv == pin \in PinType /\ local \in Files /\ wish \in BOOLEAN
RunInv == run \in Run /\ (run.pc \notin {"idle", "observe", "open"} => run.rec # 0)
MarkInv ==
    /\ kept \subseteq Records /\ reserved \subseteq Records
    /\ swapped \subseteq Unverified /\ unheard \subseteq Records /\ orphans \subseteq Records
CountInv ==
    /\ crashes \in Nat /\ faults \in Nat /\ foreign \in Nat /\ edits \in Nat
    /\ reserves \in Nat
TypeInv == ArchiveInv /\ UserInv /\ RunInv /\ MarkInv /\ CountInv

(* What a run's place says of its record and of the archive. *)
Sound ==
    /\ pin.record # 0 => versions[pin.record] # <<>>
    /\ ~At("idle") /\ pin.record # 0 => run.rec = pin.record
    /\ At("observe") => run.latest = 0 /\ run.seen = NoFiles
    /\ At("observe") \/ At("open") => run.rec = pin.record
    /\ At("pin") => versions[run.rec] # <<>>
    /\ In(Deep) => pin.record # 0 /\ Kind = "invenio"
    /\ Kind = "dataverse" => \A r \in Records : draft[r] \in Files \union {NoDraft}
    /\ \A r \in finalizing : Kind = "dataverse" /\ draft[r] # NoDraft
    /\ At("poll") => Kind = "dataverse" /\ run.prior <= Len(versions[run.rec])
    /\ In(Drafting) /\ pin.record = 0 => run.rec \notin finalizing
    /\ At("reserve") => run.reserve

-----------------------------------------------------------------------------
(* The run's fields after each way it moves.                               *)

LEMMA IdleIs ==
    /\ Idle \in Run /\ Idle.pc = "idle" /\ Idle.rec = 0 /\ Idle.todo = {}
    /\ Idle.latest = 0 /\ Idle.seen = NoFiles /\ Idle.prior = 0 /\ Idle.index = 0
    /\ NoFiles \in Files
BY BoundsAssumption DEF Idle, Run, Files, NoFiles, Labels

LEMMA GotoIs ==
    ASSUME run \in Run, NEW l \in Labels, Goto(l)
    PROVE  /\ run' \in Run /\ run'.pc = l
           /\ UNCHANGED <<run.force, run.reserve, run.sums, run.rec, run.latest, run.seen,
                          run.todo, run.prior, run.index>>
BY DEF Goto, Run

LEMMA TreatIs ==
    ASSUME run \in Run, NEW l \in Labels, NEW T \in SUBSET Keys, Treat(l, T)
    PROVE  /\ run' \in Run /\ run'.pc = l /\ run'.todo = T
           /\ UNCHANGED <<run.force, run.reserve, run.sums, run.rec, run.latest, run.seen,
                          run.prior, run.index>>
BY DEF Treat, Run

LEMMA CountedIs ==
    ASSUME run \in Run, NEW l \in Labels, Counted(l), Len(versions[run.rec]) \in Nat
    PROVE  /\ run' \in Run /\ run'.pc = l /\ run'.prior = Len(versions[run.rec])
           /\ UNCHANGED <<run.force, run.reserve, run.sums, run.rec, run.latest, run.seen,
                          run.todo, run.index>>
BY DEF Counted, Run

LEMMA MadeIs ==
    ASSUME run \in Run, NEW n \in Nat, Made(n)
    PROVE  /\ run' \in Run /\ run'.pc = "pin" /\ run'.index = n
           /\ UNCHANGED <<run.force, run.reserve, run.sums, run.rec, run.latest, run.seen,
                          run.todo, run.prior>>
BY DEF Made, Run, Labels

LEMMA CreatedIs ==
    ASSUME run \in Run, NEW r \in Records, run' = [run EXCEPT !.pc = "apply", !.rec = r]
    PROVE  /\ run' \in Run /\ run'.pc = "apply" /\ run'.rec = r
           /\ UNCHANGED <<run.force, run.reserve, run.sums, run.latest, run.seen,
                          run.todo, run.prior, run.index>>
<1>1. "apply" \in Labels /\ r \in 0..MaxRecords
  BY BoundsAssumption DEF Labels, Records
<1> QED BY <1>1 DEF Run

LEMMA PlannedIs ==
    ASSUME run \in Run, NEW l \in Nat, NEW f \in Files, NEW T \in SUBSET Keys, 
           run' = [run EXCEPT !.pc = "open", !.latest = l, !.seen = f, !.todo = T]
    PROVE  /\ run' \in Run /\ run'.pc = "open" /\ run'.latest = l /\ run'.seen = f
           /\ run'.todo = T
           /\ UNCHANGED <<run.force, run.reserve, run.sums, run.rec, run.prior, run.index>>
<1>1. "open" \in Labels
  BY DEF Labels
<1> DEFINE r == [run EXCEPT !.pc = "open", !.latest = l, !.seen = f, !.todo = T]
<1>2. /\ r.pc = "open" /\ r.latest = l /\ r.seen = f /\ r.todo = T
      /\ r.force = run.force /\ r.reserve = run.reserve /\ r.sums = run.sums /\ r.rec = run.rec
      /\ r.prior = run.prior /\ r.index = run.index
  BY DEF Run
<1>3. r \in Run
  BY <1>1 DEF Run
<1> QED BY <1>2, <1>3

LEMMA QuitIs == ASSUME Quit PROVE run' \in Run /\ run'.pc = "idle" /\ run'.rec = 0 /\ run' = Idle
BY IdleIs DEF Quit

LEMMA StartIs ==
    ASSUME NEW force \in BOOLEAN, NEW reserve \in BOOLEAN, Start(force, reserve), local \in Files,
           pin.record \in 0..MaxRecords
    PROVE  /\ run' \in Run /\ run'.pc = "observe" /\ run'.rec = pin.record /\ run'.sums = local
           /\ run'.force = force /\ run'.reserve = reserve
           /\ run'.latest = 0 /\ run'.seen = NoFiles /\ run'.todo = {} /\ run'.prior = 0
           /\ run'.index = 0
BY IdleIs DEF Start, Run, Labels, Idle

LEMMA LabelsAre ==
    {"idle", "observe", "open", "import", "clear", "reimport", "apply", "upload",
     "commit", "preflight", "reserve", "publish", "poll", "pin", "discard"} \subseteq Labels
BY DEF Labels

LEMMA LatestIs ==
    ASSUME NEW r \in Records, ArchiveInv
    PROVE  /\ Len(versions[r]) \in Nat /\ Len(versions[r]) + 1 \in Nat
           /\ versions[r] # <<>> => Latest(r) \in Files /\ Len(versions[r]) \in 1..Len(versions[r])
           /\ versions[r] = <<>> => Len(versions[r]) = 0
           /\ draft[r] \in DraftFiles \union {NoDraft}
           /\ \A i \in 1..Len(versions[r]) : versions[r][i] \in Files
<1> DEFINE h == versions[r]
<1>1. h \in Seq(Files)
  BY DEF ArchiveInv
<1>2. h # <<>> => Latest(r) \in Files /\ Len(h) \in 1..Len(h)
  BY <1>1 DEF Latest
<1>3. draft[r] \in DraftFiles \union {NoDraft}
  BY DEF ArchiveInv
<1> QED BY <1>1, <1>2, <1>3

LEMMA ValuesAre ==
    ASSUME TypeInv, Sound
    PROVE  /\ \A r \in Records : Len(versions[r]) \in Nat /\ Len(versions[r]) + 1 \in Nat
                                 /\ (versions[r] # <<>> => Latest(r) \in Files)
           /\ run.rec # 0 => run.rec \in Records
           /\ pin.record # 0 => pin.record \in Records /\ Len(versions[pin.record]) \in Nat
                                /\ Latest(pin.record) \in Files
           /\ run.todo \subseteq Keys /\ run.prior \in Nat /\ run.prior + 1 \in Nat
           /\ In(Deep) \/ In(Drafting) \/ At("poll") \/ At("pin") => run.rec \in Records
           /\ run.sums \in Files /\ run.seen \in Files /\ run.reserve \in BOOLEAN
<1>2. /\ run.rec \in 0..MaxRecords /\ pin.record \in 0..MaxRecords
      /\ run.todo \subseteq Keys /\ run.prior \in Nat /\ run.prior + 1 \in Nat
      /\ run.sums \in Files /\ run.seen \in Files /\ run.reserve \in BOOLEAN
  BY DEF TypeInv, RunInv, UserInv, Run, PinType
<1>3. /\ run.rec # 0 => run.rec \in Records
      /\ pin.record # 0 => pin.record \in Records
  BY <1>2, BoundsAssumption DEF Records
<1>4. In(Deep) \/ In(Drafting) \/ At("poll") \/ At("pin") => run.rec # 0
  BY DEF TypeInv, RunInv, In, Deep, Drafting, At
<1>6. pin.record # 0 => versions[pin.record] # <<>>
  BY DEF Sound
<1>7. ArchiveInv
  BY DEF TypeInv
<1> QED BY <1>2, <1>3, <1>4, <1>6, <1>7, LatestIs

LEMMA PlansAre == \A f, g : Work(f, g) \subseteq Keys /\ Held(f) \subseteq Keys
BY DEF Work, Held

-----------------------------------------------------------------------------
(* What a write to a draft leaves.                                         *)
DraftIs(r, f) == draft'[r] = f /\ \A q \in Records \ {r} : draft'[q] = draft[q]

LEMMA FilesAre ==
    /\ Files \subseteq DraftFiles /\ NoFiles \in Files
    /\ NoDraft \notin DraftFiles /\ Pending \notin Contents \union {None}
    /\ \A f \in Files, k \in Keys : f[k] \in Contents \union {None} /\ f[k] # Pending
BY MarksAssumption DEF Files, DraftFiles, NoFiles

LEMMA DraftSet ==
    ASSUME ArchiveInv, NEW r \in Records, NEW f \in DraftFiles \union {NoDraft},
           draft' = [draft EXCEPT ![r] = f], UNCHANGED <<versions, finalizing>>
    PROVE  ArchiveInv' /\ DraftIs(r, f)
BY DEF ArchiveInv, DraftIs

LEMMA DraftKey ==
    ASSUME ArchiveInv, run.rec \in Records, draft[run.rec] # NoDraft, NEW k \in Keys,
           NEW x \in Contents \union {None, Pending},
           draft' = [draft EXCEPT ![run.rec][k] = x], UNCHANGED <<versions, finalizing>>
    PROVE  /\ ArchiveInv' /\ \A q \in Records \ {run.rec} : draft'[q] = draft[q]
           /\ draft[run.rec] \in DraftFiles /\ draft'[run.rec] \in DraftFiles
           /\ draft'[run.rec] # NoDraft /\ draft'[run.rec][k] = x
           /\ \A j \in Keys \ {k} : draft'[run.rec][j] = draft[run.rec][j]
           /\ draft[run.rec] \in Files /\ x # Pending => draft'[run.rec] \in Files
<1> DEFINE d == draft[run.rec]
           f == [d EXCEPT ![k] = x]
<1>1. d \in DraftFiles
  BY DEF ArchiveInv
<1>2. /\ f \in DraftFiles /\ f[k] = x /\ \A j \in Keys \ {k} : f[j] = d[j]
      /\ d \in Files /\ x # Pending => f \in Files
  BY <1>1 DEF DraftFiles, Files
<1>3. draft' = [draft EXCEPT ![run.rec] = f]
  OBVIOUS
<1> HIDE DEF f
<1>4. ArchiveInv' /\ DraftIs(run.rec, f)
  BY <1>2, <1>3, DraftSet
<1>5. NoDraft \notin DraftFiles
  BY FilesAre
<1> QED BY <1>1, <1>2, <1>4, <1>5 DEF DraftIs

(* Counters only grow. *)
Ticks == CountInv' /\ crashes <= crashes' /\ faults <= faults' /\ foreign <= foreign'

LEMMA CountersTick ==
    ASSUME CountInv
    PROVE  /\ UNCHANGED counters => Ticks
           /\ Fault => Ticks /\ faults' = faults + 1 /\ crashes' = crashes
BY DEF CountInv, Ticks, counters, Fault

(* The manifest's binding and the archive's versions stay. *)
Still ==
    /\ UNCHANGED <<versions, finalizing, pin.remote, pin.record>>
    /\ Ticks

-----------------------------------------------------------------------------
(* The forms of a step.  A run works on the draft of its record...         *)
Works ==
    /\ Still /\ UNCHANGED <<pin.index, pin.version>>
    /\ In(Deep \union Drafting) /\ run'.pc \in Deep \union Drafting
    /\ ~At("publish") /\ ~At("discard")
    /\ In(Drafting) => run'.pc \in Drafting
    /\ run'.pc # "import"
    /\ UNCHANGED <<run.force, run.reserve, run.sums, run.rec, run.latest, run.seen,
                   run.prior, run.index>>
    /\ run'.pc = "reserve" => run.reserve
    /\ kept \subseteq kept'
    /\ \A r \in Records \ {run.rec} : draft'[r] = draft[r]
    /\ draft'[run.rec] = NoDraft <=> draft[run.rec] = NoDraft
    /\ Kind = "dataverse" /\ draft[run.rec] \in Files \union {NoDraft}
          => draft'[run.rec] \in Files \union {NoDraft}

(* ...or ends without publishing, having dropped a draft or left it.       *)
Ends ==
    /\ Still /\ UNCHANGED <<pin.index, pin.version>>
    /\ ~At("idle") /\ Quit
    /\ \A r \in Records \ {run.rec} : draft'[r] = draft[r]
    /\ \A r \in Records : /\ draft'[r] # NoDraft => draft[r] # NoDraft
                          /\ draft'[r] # NoDraft /\ r \in kept => r \in kept'
                          /\ Kind = "dataverse" /\ draft[r] \in Files \union {NoDraft}
                                => draft'[r] \in Files \union {NoDraft}
    /\ \A r \in finalizing : draft[r] # NoDraft => draft'[r] # NoDraft
    /\ Kind = "invenio" /\ run.rec \in Records /\ draft'[run.rec] # NoDraft =>
          \/ run.rec \in kept' \union orphans'
          \/ At("observe") \/ At("open") \/ crashes' > crashes
    /\ At("pin") => crashes' > crashes
    /\ At("poll") \/ At("pin") =>
          run.rec \in unheard' \/ run.rec = pin.record
             \/ (versions[run.rec] = <<>> /\ run.rec \notin finalizing)
    /\ At("poll") =>
          \/ crashes' > crashes \/ faults' > faults
          \/ run.rec \notin finalizing /\ Len(versions[run.rec]) = run.prior

(* A run starts, looks at the archive, and opens the draft.                *)
Starts ==
    /\ Still /\ UNCHANGED <<pin, draft, kept, local>>
    /\ At("idle") /\ run'.pc = "observe" /\ run'.rec = pin.record
    /\ run'.latest = 0 /\ run'.seen = NoFiles /\ run'.sums = local /\ run'.prior = 0

Looks ==
    /\ Still /\ UNCHANGED <<pin, draft, kept, local>>
    /\ At("observe") /\ run'.pc = "open"
    /\ UNCHANGED <<run.force, run.reserve, run.sums, run.rec, run.prior, run.index>>
    /\ run.rec = 0 => run'.latest = 0 /\ run'.seen = NoFiles
    /\ run.rec # 0 => /\ run'.latest = Len(versions[run.rec]) /\ run'.seen = Latest(run.rec)
                      /\ Len(versions[run.rec]) <= pin.version \/ run.force
    /\ run'.todo = Work(run.sums, run'.seen)

OpensNew(r) ==
    /\ Still /\ UNCHANGED <<pin, kept, local>>
    /\ At("open") /\ run.rec = 0 /\ r \in Records /\ versions[r] = <<>> /\ draft[r] = NoDraft
    /\ DraftIs(r, NoFiles)
    /\ run'.pc = "apply" /\ run'.rec = r
    /\ UNCHANGED <<run.force, run.reserve, run.sums, run.latest, run.seen, run.todo,
                   run.prior, run.index>>

(* The answer to the call that opened the draft is lost.                   *)
Slips(r) ==
    /\ Still /\ UNCHANGED <<pin, kept, local>>
    /\ At("open") /\ Quit
    /\ \/ run.rec = 0 /\ versions[r] = <<>> /\ draft[r] = NoDraft
       \/ run.rec = r /\ Kind = "invenio"
    /\ DraftIs(r, IF draft[r] = NoDraft THEN NoFiles ELSE draft[r])
    /\ r \in orphans'

OpensNext ==
    /\ Still /\ UNCHANGED <<pin, kept, local>>
    /\ At("open") /\ run.rec \in Records
    /\ DraftIs(run.rec, IF Kind = "invenio" /\ draft[run.rec] = NoDraft THEN NoFiles
                                                                       ELSE draft[run.rec])
    /\ IF Kind = "invenio" THEN run'.pc = "import" /\ run'.prior = Len(versions[run.rec])
                           ELSE run'.pc = "apply" /\ run'.prior = run.prior
    /\ UNCHANGED <<run.force, run.reserve, run.sums, run.rec, run.latest, run.seen, run.todo,
                   run.index>>

(* The archive makes the version at once, or has made it by now.           *)
Publishes ==
    /\ Ticks /\ UNCHANGED <<finalizing, pin, local>>
    /\ At("publish") /\ run.rec \in Records \ finalizing /\ draft[run.rec] \in Files
    /\ Kind # "dataverse"
    /\ versions' = [versions EXCEPT ![run.rec] = Append(@, draft[run.rec])]
    /\ \A r \in Records \ {run.rec} : draft'[r] = draft[r] /\ (r \in kept => r \in kept')
    /\ Kind = "invenio" => draft'[run.rec] = NoDraft
    /\ run'.pc = "pin" /\ run'.index = Len(versions[run.rec]) + 1
    /\ UNCHANGED <<run.force, run.reserve, run.sums, run.rec, run.latest, run.seen, run.todo,
                   run.prior>>

(* ...and the run does not hear of it.                                     *)
Misses ==
    /\ Ticks /\ UNCHANGED <<finalizing, pin, local>>
    /\ At("publish") /\ run.rec \in Records \ finalizing /\ draft[run.rec] \in Files
    /\ Kind # "dataverse" /\ faults' > faults
    /\ versions' = [versions EXCEPT ![run.rec] = Append(@, draft[run.rec])]
    /\ \A r \in Records \ {run.rec} : draft'[r] = draft[r] /\ (r \in kept => r \in kept')
    /\ Kind = "invenio" => draft'[run.rec] = NoDraft
    /\ run.rec \in unheard' \/ run.rec = pin.record
    /\ Quit

Finds ==
    /\ Still /\ UNCHANGED <<pin, draft, kept, local>>
    /\ At("publish") \/ At("poll")
    /\ run.rec \in Records /\ versions[run.rec] # <<>>
    /\ run'.pc = "pin"
    /\ \/ At("poll") /\ run'.index = Len(versions[run.rec]) /\ Len(versions[run.rec]) > run.prior
       \/ /\ At("publish") /\ Kind = "figshare" /\ faults' > faults
          /\ run'.index = Len(versions[run.rec])
       \/ /\ At("publish") /\ Kind = "invenio" /\ draft[run.rec] = NoDraft
          /\ run'.index = run.prior + 1 /\ Len(versions[run.rec]) > run.prior
    /\ UNCHANGED <<run.force, run.reserve, run.sums, run.rec, run.latest, run.seen, run.todo,
                   run.prior>>

(* Dataverse is asked to release the draft, does so, and is asked whether. *)
Asks ==
    /\ Ticks /\ UNCHANGED <<versions, pin, draft, kept, local>>
    /\ At("publish") /\ run.rec \in Records \ finalizing /\ draft[run.rec] # NoDraft
    /\ Kind = "dataverse"
    /\ \/ finalizing' = finalizing \union {run.rec}
       \/ finalizing' = finalizing /\ faults' > faults
    /\ run'.pc = "poll" /\ run'.prior = Len(versions[run.rec])
    /\ UNCHANGED <<run.force, run.reserve, run.sums, run.rec, run.latest, run.seen, run.todo,
                   run.index>>

Releases(r) ==
    /\ Ticks /\ UNCHANGED <<pin, draft, kept, local, run>>
    /\ r \in finalizing /\ r \in Records /\ draft[r] \in DraftFiles
    /\ versions' = [versions EXCEPT ![r] = Append(@, draft[r])] /\ finalizing' = finalizing \ {r}

(* The pins are saved. *)
Repins ==
    /\ Still /\ UNCHANGED <<draft, kept, local>>
    /\ At("observe") /\ pin.record \in Records /\ Quit
    /\ Len(versions[pin.record]) <= pin.version \/ run.force
    /\ Work(run.sums, Latest(pin.record)) = {}
    /\ pin'.index = Len(versions[pin.record]) /\ pin'.sums = run.sums
    /\ pin'.version = IF pin.index = Len(versions[pin.record]) THEN pin.version
                                                              ELSE Len(versions[pin.record])

Pins ==
    /\ Ticks /\ UNCHANGED <<versions, finalizing, draft, kept, local>>
    /\ At("pin") /\ Quit
    /\ pin' = [remote |-> Kind, record |-> run.rec, index |-> run.index,
               version |-> run.latest + 1, sums |-> run.sums]

(* The user and a collaborator, beside the run. *)
Aside == Still /\ UNCHANGED <<draft, kept, run>>
Beside == Aside /\ UNCHANGED <<pin.index, pin.version>>

Intrudes(r, f) ==
    /\ Ticks /\ UNCHANGED <<pin, finalizing, local, run>>
    /\ Overlap \/ At("idle")
    /\ r \in Records \ finalizing /\ f \in Files /\ versions[r] # <<>>
    /\ versions' = [versions EXCEPT ![r] = Append(@, f)]
    /\ DraftIs(r, IF Kind = "invenio" THEN NoDraft ELSE f)
    /\ kept' = kept \ {r}

LEMMA StartIsStarts ==
    ASSUME TypeInv, NEW force \in BOOLEAN, NEW reserve \in BOOLEAN, Start(force, reserve),
           wish' \in BOOLEAN, reserves' \in Nat
    PROVE  TypeInv' /\ Starts
<1> USE DEF At, history
<1>0. ArchiveInv /\ UserInv /\ RunInv /\ MarkInv /\ CountInv /\ pin.record \in 0..MaxRecords
  BY DEF TypeInv, UserInv, PinType
<1>1. /\ run' \in Run /\ run'.pc = "observe" /\ run'.rec = pin.record /\ run'.sums = local
      /\ run'.latest = 0 /\ run'.seen = NoFiles /\ run'.prior = 0
  BY <1>0, StartIs DEF UserInv
<1>2. ArchiveInv' /\ UserInv' /\ RunInv' /\ MarkInv'
  BY <1>0, <1>1 DEF Start, archive, ArchiveInv, UserInv, RunInv, MarkInv
<1>3. Ticks
  BY <1>0 DEF Start, Ticks, CountInv
<1> QED BY <1>1, <1>2, <1>3 DEF TypeInv, Ticks, Starts, Still, Start, archive

LEMMA BeginIs == ASSUME TypeInv, Begin \/ Rerun PROVE TypeInv' /\ Starts
<1>1. wish \in BOOLEAN /\ reserves \in Nat
  BY DEF TypeInv, UserInv, CountInv
<1>2. ASSUME Begin PROVE TypeInv' /\ Starts
  <2>1. PICK force \in Forces, reserve \in Reserves :
          /\ Start(force, reserve) /\ wish' = ~reserve
          /\ reserves' = IF reserve THEN reserves + 1 ELSE reserves
    BY <1>2 DEF Begin
  <2>2. force \in BOOLEAN /\ reserve \in BOOLEAN
    BY FlagsAssumption
  <2>3. wish' \in BOOLEAN /\ reserves' \in Nat
    BY <1>1, <2>1
  <2> QED BY <2>1, <2>2, <2>3, StartIsStarts
<1>3. ASSUME Rerun PROVE TypeInv' /\ Starts
  <2>1. PICK force \in Forces : Start(force, FALSE)
    BY <1>3 DEF Rerun
  <2>2. force \in BOOLEAN /\ wish' \in BOOLEAN /\ reserves' \in Nat
    BY <1>1, <1>3, FlagsAssumption DEF Rerun
  <2> QED BY <2>1, <2>2, StartIsStarts
<1> QED BY <1>2, <1>3

-----------------------------------------------------------------------------
(* Each action: the types after it, and its form.                          *)
LEMMA AppliedIs == ASSUME TypeInv, Sound, Applied PROVE TypeInv' /\ Works
<1> USE DEF At, In, history
<1>0. ArchiveInv /\ UserInv /\ RunInv /\ MarkInv /\ CountInv /\ run \in Run
  BY DEF TypeInv, RunInv
<1>1. /\ run' \in Run /\ run'.pc = "preflight"
      /\ UNCHANGED <<run.force, run.reserve, run.sums, run.rec, run.latest,
                     run.seen, run.todo, run.prior, run.index>>
  BY <1>0, GotoIs, LabelsAre, ValuesAre DEF Applied, user, archive, Deep, Drafting
<1>2. RunInv'
  BY <1>0, <1>1 DEF RunInv, Applied
<1>3. ArchiveInv' /\ draft' = draft /\ UNCHANGED <<versions, finalizing>>
  BY <1>0 DEF Applied, archive, ArchiveInv
<1>4. UserInv' /\ UNCHANGED pin
  BY <1>0 DEF Applied, user, UserInv
<1>5. MarkInv'
  BY <1>0, ValuesAre DEF Applied, MarkInv, Records, Deep, Drafting
<1>6. Ticks
  BY <1>0, CountersTick DEF Applied
<1>7. Still /\ UNCHANGED <<pin.index, pin.version>>
  BY <1>3, <1>4, <1>6 DEF Still
<1>8. Works
  BY <1>0, <1>1, <1>3, <1>7, ValuesAre, FilesAre, CountersTick
     DEF Works, Applied, Still, Sound, Kind, user, archive, Deep, Drafting
<1> QED BY <1>2, <1>3, <1>4, <1>5, <1>6, <1>8 DEF TypeInv, Ticks

LEMMA ImportRefusedIs == ASSUME TypeInv, Sound, ImportRefused PROVE TypeInv' /\ Works
<1> USE DEF At, In, history
<1>0. ArchiveInv /\ UserInv /\ RunInv /\ MarkInv /\ CountInv /\ run \in Run
  BY DEF TypeInv, RunInv
<1>1. /\ run' \in Run /\ run'.pc = "clear" /\ run'.todo = Held(draft[run.rec])
      /\ UNCHANGED <<run.force, run.reserve, run.sums, run.rec, run.latest,
                     run.seen, run.prior, run.index>>
  BY <1>0, TreatIs, LabelsAre, ValuesAre, PlansAre
     DEF ImportRefused, user, archive, Deep, Drafting
<1>2. RunInv'
  BY <1>0, <1>1 DEF RunInv, ImportRefused
<1>3. ArchiveInv' /\ draft' = draft /\ UNCHANGED <<versions, finalizing>>
  BY <1>0 DEF ImportRefused, archive, ArchiveInv
<1>4. UserInv' /\ UNCHANGED pin
  BY <1>0 DEF ImportRefused, user, UserInv
<1>5. MarkInv'
  BY <1>0, ValuesAre DEF ImportRefused, MarkInv, Records, Deep, Drafting
<1>6. Ticks
  BY <1>0, CountersTick DEF ImportRefused
<1>7. Still /\ UNCHANGED <<pin.index, pin.version>>
  BY <1>3, <1>4, <1>6 DEF Still
<1>8. Works
  BY <1>0, <1>1, <1>3, <1>7, ValuesAre, FilesAre, CountersTick
     DEF Works, ImportRefused, Still, Sound, Kind, user, archive, Deep, Drafting
<1> QED BY <1>2, <1>3, <1>4, <1>5, <1>6, <1>8 DEF TypeInv, Ticks

LEMMA ImportFaultIs == ASSUME TypeInv, Sound, ImportFault PROVE TypeInv' /\ Works
<1> USE DEF At, In, history
<1>0. ArchiveInv /\ UserInv /\ RunInv /\ MarkInv /\ CountInv /\ run \in Run
  BY DEF TypeInv, RunInv
<1>1. /\ run' \in Run /\ run'.pc = "clear" /\ run'.todo = Held(draft[run.rec])
      /\ UNCHANGED <<run.force, run.reserve, run.sums, run.rec, run.latest,
                     run.seen, run.prior, run.index>>
  BY <1>0, TreatIs, LabelsAre, ValuesAre, PlansAre
     DEF ImportFault, user, archive, Deep, Drafting
<1>2. RunInv'
  BY <1>0, <1>1 DEF RunInv, ImportFault
<1>3. ArchiveInv' /\ draft' = draft /\ UNCHANGED <<versions, finalizing>>
  BY <1>0 DEF ImportFault, archive, ArchiveInv
<1>4. UserInv' /\ UNCHANGED pin
  BY <1>0 DEF ImportFault, user, UserInv
<1>5. MarkInv'
  BY <1>0, ValuesAre DEF ImportFault, MarkInv, Records, Deep, Drafting
<1>6. Ticks
  BY <1>0, CountersTick DEF ImportFault
<1>7. Still /\ UNCHANGED <<pin.index, pin.version>>
  BY <1>3, <1>4, <1>6 DEF Still
<1>8. Works
  BY <1>0, <1>1, <1>3, <1>7, ValuesAre, FilesAre, CountersTick
     DEF Works, ImportFault, Still, Sound, Kind, user, archive, Deep, Drafting
<1> QED BY <1>2, <1>3, <1>4, <1>5, <1>6, <1>8 DEF TypeInv, Ticks

LEMMA ClearedIs == ASSUME TypeInv, Sound, Cleared PROVE TypeInv' /\ Works
<1> USE DEF At, In, history
<1>0. ArchiveInv /\ UserInv /\ RunInv /\ MarkInv /\ CountInv /\ run \in Run
  BY DEF TypeInv, RunInv
<1>1. /\ run' \in Run /\ run'.pc = "reimport" /\ run'.todo = Work(run.sums, run.seen)
      /\ UNCHANGED <<run.force, run.reserve, run.sums, run.rec, run.latest,
                     run.seen, run.prior, run.index>>
  BY <1>0, TreatIs, LabelsAre, ValuesAre, PlansAre DEF Cleared, user, archive, Deep, Drafting
<1>2. RunInv'
  BY <1>0, <1>1 DEF RunInv, Cleared
<1>3. ArchiveInv' /\ draft' = draft /\ UNCHANGED <<versions, finalizing>>
  BY <1>0 DEF Cleared, archive, ArchiveInv
<1>4. UserInv' /\ UNCHANGED pin
  BY <1>0 DEF Cleared, user, UserInv
<1>5. MarkInv'
  BY <1>0, ValuesAre DEF Cleared, MarkInv, Records, Deep, Drafting
<1>6. Ticks
  BY <1>0, CountersTick DEF Cleared
<1>7. Still /\ UNCHANGED <<pin.index, pin.version>>
  BY <1>3, <1>4, <1>6 DEF Still
<1>8. Works
  BY <1>0, <1>1, <1>3, <1>7, ValuesAre, FilesAre, CountersTick
     DEF Works, Cleared, Still, Sound, Kind, user, archive, Deep, Drafting
<1> QED BY <1>2, <1>3, <1>4, <1>5, <1>6, <1>8 DEF TypeInv, Ticks

LEMMA ImportIs == ASSUME TypeInv, Sound, Import PROVE TypeInv' /\ Works
<1> USE DEF At, In, history
<1>0. ArchiveInv /\ UserInv /\ RunInv /\ MarkInv /\ CountInv /\ run \in Run
  BY DEF TypeInv, RunInv
<1>1. /\ run' \in Run /\ run'.pc = "apply"
      /\ UNCHANGED <<run.force, run.reserve, run.sums, run.rec, run.latest,
                     run.seen, run.todo, run.prior, run.index>>
  BY <1>0, GotoIs, LabelsAre, ValuesAre DEF Import, user, Deep, Drafting
<1>2. RunInv'
  BY <1>0, <1>1 DEF RunInv, Import
<1>3. ArchiveInv' /\ DraftIs(run.rec, Latest(run.rec)) /\ UNCHANGED <<versions, finalizing>>
  <2>1. /\ run.rec \in Records /\ Latest(run.rec) \in DraftFiles \union {NoDraft}
        /\ draft' = [draft EXCEPT ![run.rec] = Latest(run.rec)]
        /\ UNCHANGED <<versions, finalizing>>
    BY <1>0, ValuesAre, FilesAre, LatestIs DEF Import, Sound, Deep, Drafting
  <2> QED BY <1>0, <2>1, DraftSet
<1>4. UserInv' /\ UNCHANGED pin
  BY <1>0 DEF Import, user, UserInv
<1>5. MarkInv'
  BY <1>0, ValuesAre DEF Import, MarkInv, Records, Deep, Drafting
<1>6. Ticks
  BY <1>0, CountersTick DEF Import
<1>7. Still /\ UNCHANGED <<pin.index, pin.version>>
  BY <1>3, <1>4, <1>6 DEF Still
<1>8. Works
  BY <1>0, <1>1, <1>3, <1>7, ValuesAre, FilesAre, CountersTick
     DEF Works, DraftIs, Import, Still, Sound, Kind, user, Deep, Drafting
<1> QED BY <1>2, <1>3, <1>4, <1>5, <1>6, <1>8 DEF TypeInv, Ticks

LEMMA ClearFileIs == ASSUME TypeInv, Sound, ClearFile PROVE TypeInv' /\ Works
<1> USE DEF At, In, history
<1>0. ArchiveInv /\ UserInv /\ RunInv /\ MarkInv /\ CountInv /\ run \in Run
  BY DEF TypeInv, RunInv
<1>1. /\ run' \in Run
      /\ \E k \in run.todo :
            /\ run'.pc = "clear" /\ run'.todo = run.todo \ {k}
            /\ UNCHANGED <<run.force, run.reserve, run.sums, run.rec, run.latest, run.seen,
                           run.prior, run.index>>
  BY <1>0, TreatIs, LabelsAre, ValuesAre DEF ClearFile, user, Deep, Drafting
<1>2. RunInv'
  BY <1>0, <1>1 DEF RunInv, ClearFile
<1>3. /\ ArchiveInv' /\ UNCHANGED <<versions, finalizing>>
      /\ \A r \in Records \ {run.rec} : draft'[r] = draft[r]
      /\ draft[run.rec] # NoDraft /\ draft'[run.rec] \in DraftFiles /\ draft'[run.rec] # NoDraft
      /\ (Kind = "dataverse" => draft'[run.rec] \in Files)
  <2>1. PICK k \in Keys : draft' = [draft EXCEPT ![run.rec][k] = None]
    BY ValuesAre DEF ClearFile
  <2>2. /\ run.rec \in Records /\ draft[run.rec] # NoDraft
        /\ UNCHANGED <<versions, finalizing>> /\ None \in Contents \union {None, Pending}
    BY <1>0, ValuesAre DEF ClearFile, Deep, Drafting
  <2>3. ArchiveInv' /\ (\A r \in Records \ {run.rec} : draft'[r] = draft[r])
        /\ draft'[run.rec] \in DraftFiles /\ draft'[run.rec] # NoDraft
        /\ (draft[run.rec] \in Files /\ None # Pending => draft'[run.rec] \in Files)
    BY <1>0, <2>1, <2>2, DraftKey
  <2>4. Kind = "dataverse" => draft[run.rec] \in Files /\ None # Pending
    BY <2>2, MarksAssumption DEF Sound, Kind, ClearFile
  <2> QED BY <2>2, <2>3, <2>4
<1>4. UserInv' /\ UNCHANGED pin
  BY <1>0 DEF ClearFile, user, UserInv
<1>5. MarkInv'
  BY <1>0, ValuesAre DEF ClearFile, MarkInv, Records, Deep, Drafting
<1>6. Ticks
  BY <1>0, CountersTick DEF ClearFile
<1>7. Still /\ UNCHANGED <<pin.index, pin.version>>
  BY <1>3, <1>4, <1>6 DEF Still
<1>8. Works
  BY <1>0, <1>1, <1>3, <1>7, ValuesAre, FilesAre, CountersTick
     DEF Works, ClearFile, Still, Sound, Kind, user, Deep, Drafting
<1> QED BY <1>2, <1>3, <1>4, <1>5, <1>6, <1>8 DEF TypeInv, Ticks

LEMMA FigshareDropExistingIs ==
    ASSUME TypeInv, Sound, FigshareDropExisting
    PROVE  TypeInv' /\ Works
<1> USE DEF At, In, history
<1>0. ArchiveInv /\ UserInv /\ RunInv /\ MarkInv /\ CountInv /\ run \in Run
  BY DEF TypeInv, RunInv
<1>1. /\ run' \in Run /\ run'.pc = "upload"
      /\ UNCHANGED <<run.force, run.reserve, run.sums, run.rec, run.latest, run.seen, run.todo,
                     run.prior, run.index>>
      /\ (At("apply") \/ At("upload"))
  BY <1>0, GotoIs, LabelsAre, ValuesAre
     DEF FigshareDropExisting, user, Open, Deep, Drafting, Uploading, Now
<1>2. RunInv'
  BY <1>0, <1>1 DEF RunInv, FigshareDropExisting
<1>3. /\ ArchiveInv' /\ UNCHANGED <<versions, finalizing>>
      /\ \A r \in Records \ {run.rec} : draft'[r] = draft[r]
      /\ draft[run.rec] # NoDraft /\ draft'[run.rec] \in DraftFiles /\ draft'[run.rec] # NoDraft
      /\ (Kind = "dataverse" => draft'[run.rec] \in Files)
  <2>1. PICK k \in Keys : draft' = [draft EXCEPT ![run.rec][k] = None]
    BY ValuesAre DEF FigshareDropExisting
  <2>2. /\ run.rec \in Records /\ draft[run.rec] # NoDraft
        /\ UNCHANGED <<versions, finalizing>> /\ None \in Contents \union {None, Pending}
    BY <1>0, ValuesAre DEF FigshareDropExisting, Open, Uploading, Deep, Drafting
  <2>3. ArchiveInv' /\ (\A r \in Records \ {run.rec} : draft'[r] = draft[r])
        /\ draft'[run.rec] \in DraftFiles /\ draft'[run.rec] # NoDraft
        /\ (draft[run.rec] \in Files /\ None # Pending => draft'[run.rec] \in Files)
    BY <1>0, <2>1, <2>2, DraftKey
  <2>4. Kind = "dataverse" => draft[run.rec] \in Files /\ None # Pending
    BY <2>2, MarksAssumption DEF Sound, Kind, FigshareDropExisting
  <2> QED BY <2>2, <2>3, <2>4
<1>4. UserInv' /\ UNCHANGED pin
  BY <1>0 DEF FigshareDropExisting, user, UserInv
<1>5. MarkInv'
  BY <1>0, ValuesAre DEF FigshareDropExisting, MarkInv, Records, Deep, Drafting
<1>6. Ticks
  BY <1>0, CountersTick DEF FigshareDropExisting
<1>7. Still /\ UNCHANGED <<pin.index, pin.version>>
  BY <1>3, <1>4, <1>6 DEF Still
<1>8. Works
  BY <1>0, <1>1, <1>3, <1>7, ValuesAre, FilesAre, CountersTick
     DEF Works, FigshareDropExisting, Still, Sound, Kind, user, Deep, Drafting
<1> QED BY <1>2, <1>3, <1>4, <1>5, <1>6, <1>8 DEF TypeInv, Ticks

LEMMA DataverseDropExistingIs ==
    ASSUME TypeInv, Sound, DataverseDropExisting
    PROVE  TypeInv' /\ Works
<1> USE DEF At, In, history
<1>0. ArchiveInv /\ UserInv /\ RunInv /\ MarkInv /\ CountInv /\ run \in Run
  BY DEF TypeInv, RunInv
<1>1. /\ run' \in Run /\ run'.pc = "upload"
      /\ UNCHANGED <<run.force, run.reserve, run.sums, run.rec, run.latest, run.seen, run.todo,
                     run.prior, run.index>>
      /\ (At("apply") \/ At("upload"))
  BY <1>0, GotoIs, LabelsAre, ValuesAre
     DEF DataverseDropExisting, user, Open, Deep, Drafting, Uploading, Now
<1>2. RunInv'
  BY <1>0, <1>1 DEF RunInv, DataverseDropExisting
<1>3. /\ ArchiveInv' /\ UNCHANGED <<versions, finalizing>>
      /\ \A r \in Records \ {run.rec} : draft'[r] = draft[r]
      /\ draft[run.rec] # NoDraft /\ draft'[run.rec] \in DraftFiles /\ draft'[run.rec] # NoDraft
      /\ (Kind = "dataverse" => draft'[run.rec] \in Files)
  <2>1. PICK k \in Keys : draft' = [draft EXCEPT ![run.rec][k] = None]
    BY ValuesAre DEF DataverseDropExisting
  <2>2. /\ run.rec \in Records /\ draft[run.rec] # NoDraft
        /\ UNCHANGED <<versions, finalizing>> /\ None \in Contents \union {None, Pending}
    BY <1>0, ValuesAre DEF DataverseDropExisting, Open, Uploading, Deep, Drafting
  <2>3. ArchiveInv' /\ (\A r \in Records \ {run.rec} : draft'[r] = draft[r])
        /\ draft'[run.rec] \in DraftFiles /\ draft'[run.rec] # NoDraft
        /\ (draft[run.rec] \in Files /\ None # Pending => draft'[run.rec] \in Files)
    BY <1>0, <2>1, <2>2, DraftKey
  <2>4. Kind = "dataverse" => draft[run.rec] \in Files /\ None # Pending
    BY <2>2, MarksAssumption DEF Sound, Kind, DataverseDropExisting
  <2> QED BY <2>2, <2>3, <2>4
<1>4. UserInv' /\ UNCHANGED pin
  BY <1>0 DEF DataverseDropExisting, user, UserInv
<1>5. MarkInv'
  BY <1>0, ValuesAre DEF DataverseDropExisting, MarkInv, Records, Deep, Drafting
<1>6. Ticks
  BY <1>0, CountersTick DEF DataverseDropExisting
<1>7. Still /\ UNCHANGED <<pin.index, pin.version>>
  BY <1>3, <1>4, <1>6 DEF Still
<1>8. Works
  BY <1>0, <1>1, <1>3, <1>7, ValuesAre, FilesAre, CountersTick
     DEF Works, DataverseDropExisting, Still, Sound, Kind, user, Deep, Drafting
<1> QED BY <1>2, <1>3, <1>4, <1>5, <1>6, <1>8 DEF TypeInv, Ticks

LEMMA FigshareInitiateIs == ASSUME TypeInv, Sound, FigshareInitiate PROVE TypeInv' /\ Works
<1> USE DEF At, In, history
<1>0. ArchiveInv /\ UserInv /\ RunInv /\ MarkInv /\ CountInv /\ run \in Run
  BY DEF TypeInv, RunInv
<1>1. /\ run' \in Run /\ run'.pc = "commit"
      /\ UNCHANGED <<run.force, run.reserve, run.sums, run.rec, run.latest, run.seen, run.todo,
                     run.prior, run.index>>
      /\ (At("apply") \/ At("upload"))
  BY <1>0, GotoIs, LabelsAre, ValuesAre
     DEF FigshareInitiate, user, Open, Deep, Drafting, Uploading, Now
<1>2. RunInv'
  BY <1>0, <1>1 DEF RunInv, FigshareInitiate
<1>3. /\ ArchiveInv' /\ UNCHANGED <<versions, finalizing>>
      /\ \A r \in Records \ {run.rec} : draft'[r] = draft[r]
      /\ draft[run.rec] # NoDraft /\ draft'[run.rec] \in DraftFiles /\ draft'[run.rec] # NoDraft
      /\ (Kind = "dataverse" => draft'[run.rec] \in Files)
  <2>1. PICK k \in Keys : draft' = [draft EXCEPT ![run.rec][k] = Pending]
    BY ValuesAre DEF FigshareInitiate
  <2>2. /\ run.rec \in Records /\ draft[run.rec] # NoDraft
        /\ UNCHANGED <<versions, finalizing>> /\ Pending \in Contents \union {None, Pending}
    BY <1>0, ValuesAre DEF FigshareInitiate, Open, Uploading, Deep, Drafting
  <2>3. ArchiveInv' /\ (\A r \in Records \ {run.rec} : draft'[r] = draft[r])
        /\ draft'[run.rec] \in DraftFiles /\ draft'[run.rec] # NoDraft
        /\ (draft[run.rec] \in Files /\ Pending # Pending => draft'[run.rec] \in Files)
    BY <1>0, <2>1, <2>2, DraftKey
  <2>4. Kind = "dataverse" => draft[run.rec] \in Files /\ Pending # Pending
    BY <2>2, MarksAssumption DEF Sound, Kind, FigshareInitiate
  <2> QED BY <2>2, <2>3, <2>4
<1>4. UserInv' /\ UNCHANGED pin
  BY <1>0 DEF FigshareInitiate, user, UserInv
<1>5. MarkInv'
  BY <1>0, ValuesAre DEF FigshareInitiate, MarkInv, Records, Deep, Drafting
<1>6. Ticks
  BY <1>0, CountersTick DEF FigshareInitiate
<1>7. Still /\ UNCHANGED <<pin.index, pin.version>>
  BY <1>3, <1>4, <1>6 DEF Still
<1>8. Works
  BY <1>0, <1>1, <1>3, <1>7, ValuesAre, FilesAre, CountersTick
     DEF Works, FigshareInitiate, Still, Sound, Kind, user, Deep, Drafting
<1> QED BY <1>2, <1>3, <1>4, <1>5, <1>6, <1>8 DEF TypeInv, Ticks

LEMMA InvenioRegisterIs == ASSUME TypeInv, Sound, InvenioRegister PROVE TypeInv' /\ Works
<1> USE DEF At, In, history
<1>0. ArchiveInv /\ UserInv /\ RunInv /\ MarkInv /\ CountInv /\ run \in Run
  BY DEF TypeInv, RunInv
<1>1. /\ run' \in Run /\ run'.pc = "commit"
      /\ UNCHANGED <<run.force, run.reserve, run.sums, run.rec, run.latest, run.seen, run.todo,
                     run.prior, run.index>>
      /\ (At("apply") \/ At("upload"))
  BY <1>0, GotoIs, LabelsAre, ValuesAre
     DEF InvenioRegister, user, Open, Deep, Drafting, Uploading, Now
<1>2. RunInv'
  BY <1>0, <1>1 DEF RunInv, InvenioRegister
<1>3. /\ ArchiveInv' /\ UNCHANGED <<versions, finalizing>>
      /\ \A r \in Records \ {run.rec} : draft'[r] = draft[r]
      /\ draft[run.rec] # NoDraft /\ draft'[run.rec] \in DraftFiles /\ draft'[run.rec] # NoDraft
      /\ (Kind = "dataverse" => draft'[run.rec] \in Files)
  <2>1. PICK k \in Keys : draft' = [draft EXCEPT ![run.rec][k] = Pending]
    BY ValuesAre DEF InvenioRegister
  <2>2. /\ run.rec \in Records /\ draft[run.rec] # NoDraft
        /\ UNCHANGED <<versions, finalizing>> /\ Pending \in Contents \union {None, Pending}
    BY <1>0, ValuesAre DEF InvenioRegister, Open, Uploading, Deep, Drafting
  <2>3. ArchiveInv' /\ (\A r \in Records \ {run.rec} : draft'[r] = draft[r])
        /\ draft'[run.rec] \in DraftFiles /\ draft'[run.rec] # NoDraft
        /\ (draft[run.rec] \in Files /\ Pending # Pending => draft'[run.rec] \in Files)
    BY <1>0, <2>1, <2>2, DraftKey
  <2>4. Kind = "dataverse" => draft[run.rec] \in Files /\ Pending # Pending
    BY <2>2, MarksAssumption DEF Sound, Kind, InvenioRegister
  <2> QED BY <2>2, <2>3, <2>4
<1>4. UserInv' /\ UNCHANGED pin
  BY <1>0 DEF InvenioRegister, user, UserInv
<1>5. MarkInv'
  BY <1>0, ValuesAre DEF InvenioRegister, MarkInv, Records, Deep, Drafting
<1>6. Ticks
  BY <1>0, CountersTick DEF InvenioRegister
<1>7. Still /\ UNCHANGED <<pin.index, pin.version>>
  BY <1>3, <1>4, <1>6 DEF Still
<1>8. Works
  BY <1>0, <1>1, <1>3, <1>7, ValuesAre, FilesAre, CountersTick
     DEF Works, InvenioRegister, Still, Sound, Kind, user, Deep, Drafting
<1> QED BY <1>2, <1>3, <1>4, <1>5, <1>6, <1>8 DEF TypeInv, Ticks

LEMMA GateRefusesIs == ASSUME TypeInv, Sound, GateRefuses PROVE TypeInv' /\ Ends
<1> USE DEF At, In, history
<1>0. ArchiveInv /\ UserInv /\ RunInv /\ MarkInv /\ CountInv /\ run \in Run
  BY DEF TypeInv, RunInv
<1>1. run' \in Run /\ (run' = Idle /\ run'.pc = "idle" /\ run'.rec = 0)
  BY <1>0, QuitIs, ValuesAre DEF GateRefuses, user, archive, Deep, Drafting
<1>2. RunInv'
  BY <1>0, <1>1 DEF RunInv, GateRefuses
<1>3. ArchiveInv' /\ draft' = draft /\ UNCHANGED <<versions, finalizing>>
  BY <1>0 DEF GateRefuses, archive, ArchiveInv
<1>4. UserInv' /\ UNCHANGED pin
  BY <1>0 DEF GateRefuses, user, UserInv
<1>5. MarkInv'
  BY <1>0, ValuesAre DEF GateRefuses, MarkInv, Records, Deep, Drafting
<1>6. Ticks
  BY <1>0, CountersTick DEF GateRefuses
<1>7. Still /\ UNCHANGED <<pin.index, pin.version>>
  BY <1>3, <1>4, <1>6 DEF Still
<1>8. Ends
  BY <1>0, <1>1, <1>3, <1>7, ValuesAre, FilesAre, CountersTick
     DEF Ends, GateRefuses, Still, Sound, Kind, user, archive, Deep, Drafting
<1> QED BY <1>2, <1>3, <1>4, <1>5, <1>6, <1>8 DEF TypeInv, Ticks

LEMMA ReserveDOIIs == ASSUME TypeInv, Sound, ReserveDOI PROVE TypeInv' /\ Ends
<1> USE DEF At, In, history
<1>0. ArchiveInv /\ UserInv /\ RunInv /\ MarkInv /\ CountInv /\ run \in Run
  BY DEF TypeInv, RunInv
<1>1. run' \in Run /\ (run' = Idle /\ run'.pc = "idle" /\ run'.rec = 0)
  BY <1>0, QuitIs, ValuesAre DEF ReserveDOI, user, archive, Open, Deep, Drafting
<1>2. RunInv'
  BY <1>0, <1>1 DEF RunInv, ReserveDOI
<1>3. ArchiveInv' /\ draft' = draft /\ UNCHANGED <<versions, finalizing>>
  BY <1>0 DEF ReserveDOI, archive, ArchiveInv
<1>4. UserInv' /\ UNCHANGED pin
  BY <1>0 DEF ReserveDOI, user, UserInv
<1>5. MarkInv'
  BY <1>0, ValuesAre DEF ReserveDOI, MarkInv, Open, Records, Deep, Drafting
<1>6. Ticks
  BY <1>0, CountersTick DEF ReserveDOI
<1>7. Still /\ UNCHANGED <<pin.index, pin.version>>
  BY <1>3, <1>4, <1>6 DEF Still
<1>8. Ends
  BY <1>0, <1>1, <1>3, <1>7, ValuesAre, FilesAre, CountersTick
     DEF Ends, ReserveDOI, Still, Sound, Kind, user, archive, Open, Deep, Drafting
<1> QED BY <1>2, <1>3, <1>4, <1>5, <1>6, <1>8 DEF TypeInv, Ticks

LEMMA CallAbortsIs == ASSUME TypeInv, Sound, CallAborts PROVE TypeInv' /\ Ends
<1> USE DEF At, In, history
<1>0. ArchiveInv /\ UserInv /\ RunInv /\ MarkInv /\ CountInv /\ run \in Run
  BY DEF TypeInv, RunInv
<1>1. run' \in Run /\ (run' = Idle /\ run'.pc = "idle" /\ run'.rec = 0)
  BY <1>0, QuitIs, ValuesAre DEF CallAborts, user, archive, Deep, Drafting
<1>2. RunInv'
  BY <1>0, <1>1 DEF RunInv, CallAborts
<1>3. ArchiveInv' /\ draft' = draft /\ UNCHANGED <<versions, finalizing>>
  BY <1>0 DEF CallAborts, archive, ArchiveInv
<1>4. UserInv' /\ UNCHANGED pin
  BY <1>0 DEF CallAborts, user, UserInv
<1>5. MarkInv'
  BY <1>0, ValuesAre DEF CallAborts, MarkInv, KeptIfReserve, In, Records, Deep, Drafting
<1>6. Ticks
  BY <1>0, CountersTick DEF CallAborts
<1>7. Still /\ UNCHANGED <<pin.index, pin.version>>
  BY <1>3, <1>4, <1>6 DEF Still
<1>8. /\ run.pc \in {"observe", "open", "clear", "reimport", "reserve"} /\ Quit
      /\ kept \subseteq kept' /\ (At("clear") \/ At("reimport") => run.rec \in orphans')
  BY DEF CallAborts, KeptIfReserve
<1>9. At("reserve") => run.rec \in kept'
  BY <1>0 DEF CallAborts, KeptIfReserve, Sound, RunInv
<1>10. Ends
  BY <1>3, <1>7, <1>8, <1>9 DEF Ends
<1> QED BY <1>2, <1>3, <1>4, <1>5, <1>6, <1>10 DEF TypeInv, Ticks

LEMMA DraftGoneIs == ASSUME TypeInv, Sound, DraftGone PROVE TypeInv' /\ Ends
<1> USE DEF At, In, history
<1>0. ArchiveInv /\ UserInv /\ RunInv /\ MarkInv /\ CountInv /\ run \in Run
  BY DEF TypeInv, RunInv
<1>1. run' \in Run /\ (run' = Idle /\ run'.pc = "idle" /\ run'.rec = 0)
  BY <1>0, QuitIs, ValuesAre DEF DraftGone, user, archive, Open, Deep, Drafting
<1>2. RunInv'
  BY <1>0, <1>1 DEF RunInv, DraftGone
<1>3. ArchiveInv' /\ draft' = draft /\ UNCHANGED <<versions, finalizing>>
  BY <1>0 DEF DraftGone, archive, ArchiveInv
<1>4. UserInv' /\ UNCHANGED pin
  BY <1>0 DEF DraftGone, user, UserInv
<1>5. MarkInv'
  BY <1>0, ValuesAre DEF DraftGone, MarkInv, Open, Records, Deep, Drafting
<1>6. Ticks
  BY <1>0, CountersTick DEF DraftGone
<1>7. Still /\ UNCHANGED <<pin.index, pin.version>>
  BY <1>3, <1>4, <1>6 DEF Still
<1>8. Ends
  BY <1>0, <1>1, <1>3, <1>7, ValuesAre, FilesAre, CountersTick
     DEF Ends, DraftGone, Still, Sound, Kind, user, archive, Open, Deep, Drafting
<1> QED BY <1>2, <1>3, <1>4, <1>5, <1>6, <1>8 DEF TypeInv, Ticks

LEMMA DiscardFailsIs == ASSUME TypeInv, Sound, DiscardFails PROVE TypeInv' /\ Ends
<1> USE DEF At, In, history
<1>0. ArchiveInv /\ UserInv /\ RunInv /\ MarkInv /\ CountInv /\ run \in Run
  BY DEF TypeInv, RunInv
<1>1. run' \in Run /\ (run' = Idle /\ run'.pc = "idle" /\ run'.rec = 0)
  BY <1>0, QuitIs, ValuesAre DEF DiscardFails, user, archive, Deep, Drafting
<1>2. RunInv'
  BY <1>0, <1>1 DEF RunInv, DiscardFails
<1>3. ArchiveInv' /\ draft' = draft /\ UNCHANGED <<versions, finalizing>>
  BY <1>0 DEF DiscardFails, archive, ArchiveInv
<1>4. UserInv' /\ UNCHANGED pin
  BY <1>0 DEF DiscardFails, user, UserInv
<1>5. MarkInv'
  BY <1>0, ValuesAre DEF DiscardFails, MarkInv, Records, Deep, Drafting
<1>6. Ticks
  BY <1>0, CountersTick DEF DiscardFails
<1>7. Still /\ UNCHANGED <<pin.index, pin.version>>
  BY <1>3, <1>4, <1>6 DEF Still
<1>8. Ends
  BY <1>0, <1>1, <1>3, <1>7, ValuesAre, FilesAre, CountersTick
     DEF Ends, DiscardFails, Still, Sound, Kind, user, archive, Deep, Drafting
<1> QED BY <1>2, <1>3, <1>4, <1>5, <1>6, <1>8 DEF TypeInv, Ticks

LEMMA InvenioPublishFailsIs == ASSUME TypeInv, Sound, InvenioPublishFails PROVE TypeInv' /\ Ends
<1> USE DEF At, In, history
<1>0. ArchiveInv /\ UserInv /\ RunInv /\ MarkInv /\ CountInv /\ run \in Run
  BY DEF TypeInv, RunInv
<1>1. run' \in Run /\ (run' = Idle /\ run'.pc = "idle" /\ run'.rec = 0)
  BY <1>0, QuitIs, ValuesAre
     DEF InvenioPublishFails, user, archive, Publishable, Open, Deep, Drafting
<1>2. RunInv'
  BY <1>0, <1>1 DEF RunInv, InvenioPublishFails, Publishable
<1>3. ArchiveInv' /\ draft' = draft /\ UNCHANGED <<versions, finalizing>>
  BY <1>0 DEF InvenioPublishFails, archive, ArchiveInv
<1>4. UserInv' /\ UNCHANGED pin
  BY <1>0 DEF InvenioPublishFails, user, UserInv
<1>5. MarkInv'
  BY <1>0, ValuesAre
     DEF InvenioPublishFails, MarkInv, Open, Publishable, Records, Deep, Drafting
<1>6. Ticks
  BY <1>0, CountersTick DEF InvenioPublishFails
<1>7. Still /\ UNCHANGED <<pin.index, pin.version>>
  BY <1>3, <1>4, <1>6 DEF Still
<1>8. Ends
  BY <1>0, <1>1, <1>3, <1>7, ValuesAre, FilesAre, CountersTick
     DEF Ends, InvenioPublishFails, Still, Sound, Kind, user, archive, Publishable, Open, Deep,
         Drafting
<1> QED BY <1>2, <1>3, <1>4, <1>5, <1>6, <1>8 DEF TypeInv, Ticks

LEMMA DataversePollEndsIs == ASSUME TypeInv, Sound, DataversePollEnds PROVE TypeInv' /\ Ends
<1> USE DEF At, In, history
<1>0. ArchiveInv /\ UserInv /\ RunInv /\ MarkInv /\ CountInv /\ run \in Run
  BY DEF TypeInv, RunInv
<1>1. run' \in Run /\ (run' = Idle /\ run'.pc = "idle" /\ run'.rec = 0)
  BY <1>0, QuitIs, ValuesAre DEF DataversePollEnds, user, archive, Deep, Drafting
<1>2. RunInv'
  BY <1>0, <1>1 DEF RunInv, DataversePollEnds
<1>3. ArchiveInv' /\ draft' = draft /\ UNCHANGED <<versions, finalizing>>
  BY <1>0 DEF DataversePollEnds, archive, ArchiveInv
<1>4. UserInv' /\ UNCHANGED pin
  BY <1>0 DEF DataversePollEnds, user, UserInv
<1>5. MarkInv'
  BY <1>0, ValuesAre DEF DataversePollEnds, MarkInv, Unheard, Records, Deep, Drafting
<1>6. Ticks
  BY <1>0, CountersTick DEF DataversePollEnds
<1>7. Still /\ UNCHANGED <<pin.index, pin.version>>
  BY <1>3, <1>4, <1>6 DEF Still
<1>8. At("poll") /\ run.rec \in kept' /\ kept \subseteq kept' /\ Quit
      /\ (faults' > faults \/ (run.rec \notin finalizing /\ Len(versions[run.rec]) = run.prior))
  BY <1>0 DEF DataversePollEnds, Fault, CountInv
<1>9. At("poll") \/ At("pin") =>
         run.rec \in unheard' \/ run.rec = pin.record
            \/ (versions[run.rec] = <<>> /\ run.rec \notin finalizing)
  <2>1. ASSUME At("poll") \/ At("pin"), run.rec # pin.record,
               versions[run.rec] # <<>> \/ run.rec \in finalizing
        PROVE  run.rec \in unheard'
    <3>1. run.rec \in Records
      BY <2>1, ValuesAre
    <3>2. versions[run.rec] # <<>> => Len(versions'[run.rec]) > 0
      BY <1>0, <1>3, <3>1 DEF ArchiveInv
    <3> QED BY <2>1, <3>1, <3>2 DEF DataversePollEnds, Unheard
  <2> QED BY <2>1
<1>10. Ends
  BY <1>3, <1>7, <1>8, <1>9 DEF Ends
<1> QED BY <1>2, <1>3, <1>4, <1>5, <1>6, <1>10 DEF TypeInv, Ticks

LEMMA CrashIs == ASSUME TypeInv, Sound, Crash PROVE TypeInv' /\ Ends
<1> USE DEF At, In, history
<1>0. ArchiveInv /\ UserInv /\ RunInv /\ MarkInv /\ CountInv /\ run \in Run
  BY DEF TypeInv, RunInv
<1>1. run' \in Run /\ (run' = Idle /\ run'.pc = "idle" /\ run'.rec = 0)
  BY <1>0, QuitIs, ValuesAre DEF Crash, user, archive, Deep, Drafting
<1>2. RunInv'
  BY <1>0, <1>1 DEF RunInv, Crash
<1>3. ArchiveInv' /\ draft' = draft /\ UNCHANGED <<versions, finalizing>>
  BY <1>0 DEF Crash, archive, ArchiveInv
<1>4. UserInv' /\ UNCHANGED pin
  BY <1>0 DEF Crash, user, UserInv
<1>5. MarkInv'
  BY <1>0, ValuesAre DEF Crash, MarkInv, Unheard, Records, Deep, Drafting
<1>6. Ticks
  BY <1>0 DEF CountInv, Ticks, Crash
<1>7. Still /\ UNCHANGED <<pin.index, pin.version>>
  BY <1>3, <1>4, <1>6 DEF Still
<1>8. ~At("idle") /\ kept' = kept /\ Quit /\ crashes' > crashes
  BY <1>0 DEF Crash, CountInv
<1>9. At("poll") \/ At("pin") =>
         run.rec \in unheard' \/ run.rec = pin.record
            \/ (versions[run.rec] = <<>> /\ run.rec \notin finalizing)
  <2>1. ASSUME At("poll") \/ At("pin"), run.rec # pin.record,
               versions[run.rec] # <<>> \/ run.rec \in finalizing
        PROVE  run.rec \in unheard'
    <3>1. run.rec \in Records
      BY <2>1, ValuesAre
    <3>2. versions[run.rec] # <<>> => Len(versions'[run.rec]) > 0
      BY <1>0, <1>3, <3>1 DEF ArchiveInv
    <3> QED BY <2>1, <3>1, <3>2 DEF Crash, Unheard
  <2> QED BY <2>1
<1>10. Ends
  BY <1>3, <1>7, <1>8, <1>9 DEF Ends
<1> QED BY <1>2, <1>3, <1>4, <1>5, <1>6, <1>10 DEF TypeInv, Ticks

LEMMA InvenioDiscardIs == ASSUME TypeInv, Sound, InvenioDiscard PROVE TypeInv' /\ Ends
<1> USE DEF At, In, history
<1>0. ArchiveInv /\ UserInv /\ RunInv /\ MarkInv /\ CountInv /\ run \in Run
  BY DEF TypeInv, RunInv
<1>1. run' \in Run /\ (run' = Idle /\ run'.pc = "idle" /\ run'.rec = 0)
  BY <1>0, QuitIs, ValuesAre DEF InvenioDiscard, user, Deep, Drafting
<1>2. RunInv'
  BY <1>0, <1>1 DEF RunInv, InvenioDiscard
<1>3. ArchiveInv' /\ DraftIs(run.rec, NoDraft) /\ UNCHANGED <<versions, finalizing>>
  <2>1. /\ run.rec \in Records /\ NoDraft \in DraftFiles \union {NoDraft}
        /\ draft' = [draft EXCEPT ![run.rec] = NoDraft]
        /\ UNCHANGED <<versions, finalizing>>
    BY <1>0, ValuesAre, FilesAre, LatestIs DEF InvenioDiscard, Sound, Deep, Drafting
  <2> QED BY <1>0, <2>1, DraftSet
<1>4. UserInv' /\ UNCHANGED pin
  BY <1>0 DEF InvenioDiscard, user, UserInv
<1>5. MarkInv'
  BY <1>0, ValuesAre DEF InvenioDiscard, MarkInv, Records, Deep, Drafting
<1>6. Ticks
  BY <1>0, CountersTick DEF InvenioDiscard
<1>7. Still /\ UNCHANGED <<pin.index, pin.version>>
  BY <1>3, <1>4, <1>6 DEF Still
<1>8. Ends
  BY <1>0, <1>1, <1>3, <1>7, ValuesAre, FilesAre, CountersTick
     DEF Ends, DraftIs, InvenioDiscard, Still, Sound, Kind, user, Deep, Drafting
<1> QED BY <1>2, <1>3, <1>4, <1>5, <1>6, <1>8 DEF TypeInv, Ticks

LEMMA FigshareDiscardIs == ASSUME TypeInv, Sound, FigshareDiscard PROVE TypeInv' /\ Ends
<1> USE DEF At, In, history
<1>0. ArchiveInv /\ UserInv /\ RunInv /\ MarkInv /\ CountInv /\ run \in Run
  BY DEF TypeInv, RunInv
<1>1. run' \in Run /\ (run' = Idle /\ run'.pc = "idle" /\ run'.rec = 0)
  BY <1>0, QuitIs, ValuesAre DEF FigshareDiscard, user, Deep, Drafting
<1>2. RunInv'
  BY <1>0, <1>1 DEF RunInv, FigshareDiscard
<1>3. /\ ArchiveInv'
      /\ DraftIs(run.rec, IF versions[run.rec] = <<>> THEN NoDraft ELSE draft[run.rec])
      /\ UNCHANGED <<versions, finalizing>>
  <2>1. /\ run.rec \in Records
        /\ (IF versions[run.rec] = <<>> THEN NoDraft ELSE draft[run.rec]) \in DraftFiles \union {NoDraft}
        /\ draft' = [draft EXCEPT ![run.rec] =
                        IF versions[run.rec] = <<>> THEN NoDraft ELSE draft[run.rec]]
        /\ UNCHANGED <<versions, finalizing>>
    BY <1>0, ValuesAre, FilesAre, LatestIs DEF FigshareDiscard, Sound, Deep, Drafting
  <2> QED BY <1>0, <2>1, DraftSet
<1>4. UserInv' /\ UNCHANGED pin
  BY <1>0 DEF FigshareDiscard, user, UserInv
<1>5. MarkInv'
  BY <1>0, ValuesAre DEF FigshareDiscard, MarkInv, Records, Deep, Drafting
<1>6. Ticks
  BY <1>0, CountersTick DEF FigshareDiscard
<1>7. Still /\ UNCHANGED <<pin.index, pin.version>>
  BY <1>3, <1>4, <1>6 DEF Still
<1>8. Ends
  BY <1>0, <1>1, <1>3, <1>7, ValuesAre, FilesAre, CountersTick
     DEF Ends, DraftIs, FigshareDiscard, Still, Sound, Kind, user, Deep, Drafting
<1> QED BY <1>2, <1>3, <1>4, <1>5, <1>6, <1>8 DEF TypeInv, Ticks

LEMMA DataverseDiscardIs == ASSUME TypeInv, Sound, DataverseDiscard PROVE TypeInv' /\ Ends
<1> USE DEF At, In, history
<1>0. ArchiveInv /\ UserInv /\ RunInv /\ MarkInv /\ CountInv /\ run \in Run
  BY DEF TypeInv, RunInv
<1>1. run' \in Run /\ (run' = Idle /\ run'.pc = "idle" /\ run'.rec = 0)
  BY <1>0, QuitIs, ValuesAre DEF DataverseDiscard, user, Deep, Drafting
<1>2. RunInv'
  BY <1>0, <1>1 DEF RunInv, DataverseDiscard
<1>3. /\ ArchiveInv'
      /\ DraftIs(run.rec, IF versions[run.rec] = <<>> THEN NoDraft ELSE draft[run.rec])
      /\ UNCHANGED <<versions, finalizing>>
  <2>1. /\ run.rec \in Records
        /\ (IF versions[run.rec] = <<>> THEN NoDraft ELSE draft[run.rec]) \in DraftFiles \union {NoDraft}
        /\ draft' = [draft EXCEPT ![run.rec] =
                        IF versions[run.rec] = <<>> THEN NoDraft ELSE draft[run.rec]]
        /\ UNCHANGED <<versions, finalizing>>
    BY <1>0, ValuesAre, FilesAre, LatestIs DEF DataverseDiscard, Sound, Deep, Drafting
  <2> QED BY <1>0, <2>1, DraftSet
<1>4. UserInv' /\ UNCHANGED pin
  BY <1>0 DEF DataverseDiscard, user, UserInv
<1>5. MarkInv'
  BY <1>0, ValuesAre DEF DataverseDiscard, MarkInv, Records, Deep, Drafting
<1>6. Ticks
  BY <1>0, CountersTick DEF DataverseDiscard
<1>7. Still /\ UNCHANGED <<pin.index, pin.version>>
  BY <1>3, <1>4, <1>6 DEF Still
<1>8. Ends
  BY <1>0, <1>1, <1>3, <1>7, ValuesAre, FilesAre, CountersTick
     DEF Ends, DraftIs, DataverseDiscard, Still, Sound, Kind, user, Deep, Drafting
<1> QED BY <1>2, <1>3, <1>4, <1>5, <1>6, <1>8 DEF TypeInv, Ticks

LEMMA CallFailsIs == ASSUME TypeInv, Sound, CallFails PROVE TypeInv' /\ (Works \/ Ends)
<1> USE DEF At, In, history
<1>0. ArchiveInv /\ UserInv /\ RunInv /\ MarkInv /\ CountInv /\ run \in Run
  BY DEF TypeInv, RunInv
<1>1. /\ run' \in Run
      /\ \/ run.reserve /\ run' = Idle /\ run'.pc = "idle" /\ run'.rec = 0
         \/ /\ ~run.reserve /\ run'.pc = "discard"
            /\ UNCHANGED <<run.force, run.reserve, run.sums, run.rec, run.latest, run.seen,
                           run.todo, run.prior, run.index>>
  BY <1>0, GotoIs, QuitIs, LabelsAre, ValuesAre
     DEF CallFails, user, archive, Deep, Drafting, Fails, Editing
<1>2. RunInv'
  BY <1>0, <1>1 DEF RunInv, CallFails, Editing
<1>3. ArchiveInv' /\ draft' = draft /\ UNCHANGED <<versions, finalizing>>
  BY <1>0 DEF CallFails, archive, ArchiveInv
<1>4. UserInv' /\ UNCHANGED pin
  BY <1>0 DEF CallFails, user, UserInv
<1>5. MarkInv'
  BY <1>0, ValuesAre DEF CallFails, MarkInv, KeptIfReserve, Records, Deep, Drafting
<1>6. Ticks
  BY <1>0, CountersTick DEF CallFails
<1>7. Still /\ UNCHANGED <<pin.index, pin.version>>
  BY <1>3, <1>4, <1>6 DEF Still
<1>8. /\ In(Drafting) /\ ~At("publish") /\ ~At("discard") /\ ~At("pin") /\ ~At("poll")
      /\ ~At("idle") /\ run.rec \in Records
  BY ValuesAre DEF CallFails, Editing, Drafting
<1>9. ASSUME run.reserve PROVE Ends
  <2>1. run.rec \in kept' /\ kept \subseteq kept' /\ Quit
    BY <1>8, <1>9, ValuesAre, BoundsAssumption DEF CallFails, Fails, KeptIfReserve, Records
  <2> QED BY <1>3, <1>7, <1>8, <2>1 DEF Ends, Drafting
<1>10. ASSUME ~run.reserve PROVE Works
  <2>1. /\ run'.pc = "discard" /\ kept' = kept
        /\ UNCHANGED <<run.force, run.reserve, run.sums, run.rec, run.latest, run.seen,
                       run.todo, run.prior, run.index>>
    BY <1>0, <1>10, GotoIs, LabelsAre DEF CallFails, Fails, KeptIfReserve
  <2> QED BY <1>3, <1>7, <1>8, <2>1 DEF Works, Drafting
<1> QED BY <1>2, <1>3, <1>4, <1>5, <1>6, <1>9, <1>10 DEF TypeInv, Ticks

LEMMA DraftRefusesIs == ASSUME TypeInv, Sound, DraftRefuses PROVE TypeInv' /\ (Works \/ Ends)
<1> USE DEF At, In, history
<1>0. ArchiveInv /\ UserInv /\ RunInv /\ MarkInv /\ CountInv /\ run \in Run
  BY DEF TypeInv, RunInv
<1>1. /\ run' \in Run
      /\ \/ run.reserve /\ run' = Idle /\ run'.pc = "idle" /\ run'.rec = 0
         \/ /\ ~run.reserve /\ run'.pc = "discard"
            /\ UNCHANGED <<run.force, run.reserve, run.sums, run.rec, run.latest, run.seen,
                           run.todo, run.prior, run.index>>
  BY <1>0, GotoIs, QuitIs, LabelsAre, ValuesAre
     DEF DraftRefuses, user, archive, Open, Deep, Drafting, Fails, Editing
<1>2. RunInv'
  BY <1>0, <1>1 DEF RunInv, DraftRefuses, Editing
<1>3. ArchiveInv' /\ draft' = draft /\ UNCHANGED <<versions, finalizing>>
  BY <1>0 DEF DraftRefuses, archive, ArchiveInv
<1>4. UserInv' /\ UNCHANGED pin
  BY <1>0 DEF DraftRefuses, user, UserInv
<1>5. MarkInv'
  BY <1>0, ValuesAre DEF DraftRefuses, MarkInv, KeptIfReserve, Open, Records, Deep, Drafting
<1>6. Ticks
  BY <1>0, CountersTick DEF DraftRefuses
<1>7. Still /\ UNCHANGED <<pin.index, pin.version>>
  BY <1>3, <1>4, <1>6 DEF Still
<1>8. /\ In(Drafting) /\ ~At("publish") /\ ~At("discard") /\ ~At("pin") /\ ~At("poll")
      /\ ~At("idle") /\ run.rec \in Records
  BY ValuesAre DEF DraftRefuses, Editing, Drafting
<1>9. ASSUME run.reserve PROVE Ends
  <2>1. run.rec \in kept' /\ kept \subseteq kept' /\ Quit
    BY <1>8, <1>9, ValuesAre, BoundsAssumption DEF DraftRefuses, Fails, KeptIfReserve, Records
  <2> QED BY <1>3, <1>7, <1>8, <2>1 DEF Ends, Drafting
<1>10. ASSUME ~run.reserve PROVE Works
  <2>1. /\ run'.pc = "discard" /\ kept' = kept
        /\ UNCHANGED <<run.force, run.reserve, run.sums, run.rec, run.latest, run.seen,
                       run.todo, run.prior, run.index>>
    BY <1>0, <1>10, GotoIs, LabelsAre DEF DraftRefuses, Fails, KeptIfReserve
  <2> QED BY <1>3, <1>7, <1>8, <2>1 DEF Works, Drafting
<1> QED BY <1>2, <1>3, <1>4, <1>5, <1>6, <1>9, <1>10 DEF TypeInv, Ticks

LEMMA PreflightIs == ASSUME TypeInv, Sound, Preflight PROVE TypeInv' /\ Works
<1> USE DEF At, In, history
<1>0. ArchiveInv /\ UserInv /\ RunInv /\ MarkInv /\ CountInv /\ run \in Run
  BY DEF TypeInv, RunInv
<1>1. /\ run' \in Run /\ run'.pc = (IF run.reserve THEN "reserve" ELSE "publish")
      /\ UNCHANGED <<run.force, run.reserve, run.sums, run.rec, run.latest,
                     run.seen, run.todo, run.prior, run.index>>
  BY <1>0, GotoIs, LabelsAre, ValuesAre DEF Preflight, user, Open, Deep, Drafting
<1>2. RunInv'
  BY <1>0, <1>1 DEF RunInv, Preflight
<1>3. /\ ArchiveInv' /\ UNCHANGED <<versions, finalizing>>
      /\ \A r \in Records \ {run.rec} : draft'[r] = draft[r]
      /\ draft[run.rec] # NoDraft /\ draft'[run.rec] # NoDraft /\ draft'[run.rec] \in Files
  <2> DEFINE f == [k \in Keys |-> IF draft[run.rec][k] = Pending THEN None ELSE draft[run.rec][k]]
  <2>1. run.rec \in Records /\ draft[run.rec] # NoDraft /\ draft' = [draft EXCEPT ![run.rec] = f]
        /\ UNCHANGED <<versions, finalizing>>
    BY ValuesAre DEF Preflight, Open, Drafting
  <2>2. draft[run.rec] \in DraftFiles
    BY <1>0, <2>1, LatestIs
  <2>3. f \in Files
    BY <2>2 DEF DraftFiles, Files
  <2>4. f \in DraftFiles /\ f # NoDraft
    BY <2>3, FilesAre
  <2> HIDE DEF f
  <2>5. ArchiveInv' /\ DraftIs(run.rec, f)
    BY <1>0, <2>1, <2>4, DraftSet
  <2> QED BY <2>1, <2>3, <2>4, <2>5 DEF DraftIs
<1>4. UserInv' /\ UNCHANGED pin
  BY <1>0 DEF Preflight, user, UserInv
<1>5. MarkInv'
  BY <1>0, ValuesAre DEF Preflight, MarkInv, Open, Records, Deep, Drafting
<1>6. Ticks
  BY <1>0, CountersTick DEF Preflight
<1>7. Still /\ UNCHANGED <<pin.index, pin.version>>
  BY <1>3, <1>4, <1>6 DEF Still
<1>8. Works
  BY <1>0, <1>1, <1>3, <1>7, ValuesAre, FilesAre, CountersTick
     DEF Works, Preflight, Still, Sound, Kind, user, Open, Deep, Drafting
<1> QED BY <1>2, <1>3, <1>4, <1>5, <1>6, <1>8 DEF TypeInv, Ticks

LEMMA ObserveNothingIs == ASSUME TypeInv, Sound, ObserveNothing PROVE TypeInv' /\ Looks
<1> USE DEF At, In, history
<1>0. ArchiveInv /\ UserInv /\ RunInv /\ MarkInv /\ CountInv /\ run \in Run
  BY DEF TypeInv, RunInv
<1>1. /\ run' \in Run /\ run'.pc = "open" /\ run'.todo = Work(run.sums, NoFiles)
      /\ UNCHANGED <<run.force, run.reserve, run.sums, run.rec, run.latest,
                     run.seen, run.prior, run.index>>
  BY <1>0, TreatIs, LabelsAre, ValuesAre, PlansAre
     DEF ObserveNothing, user, archive, Deep, Drafting
<1>2. RunInv'
  BY <1>0, <1>1 DEF RunInv, ObserveNothing
<1>3. ArchiveInv' /\ draft' = draft /\ UNCHANGED <<versions, finalizing>>
  BY <1>0 DEF ObserveNothing, archive, ArchiveInv
<1>4. UserInv' /\ UNCHANGED pin
  BY <1>0 DEF ObserveNothing, user, UserInv
<1>5. MarkInv'
  BY <1>0, ValuesAre DEF ObserveNothing, MarkInv, Records, Deep, Drafting
<1>6. Ticks
  BY <1>0, CountersTick DEF ObserveNothing
<1>7. Still /\ UNCHANGED <<pin.index, pin.version>>
  BY <1>3, <1>4, <1>6 DEF Still
<1>8. Looks
  BY <1>0, <1>1, <1>3, <1>7, ValuesAre, FilesAre, CountersTick
     DEF Looks, ObserveNothing, Still, Sound, Kind, user, archive, Deep, Drafting
<1> QED BY <1>2, <1>3, <1>4, <1>5, <1>6, <1>8 DEF TypeInv, Ticks

LEMMA ObservePlanIs == ASSUME TypeInv, Sound, ObservePlan PROVE TypeInv' /\ Looks
<1> USE DEF At, In, history
<1>0. ArchiveInv /\ UserInv /\ RunInv /\ MarkInv /\ CountInv /\ run \in Run
  BY DEF TypeInv, RunInv
<1>1. /\ run' \in Run /\ run'.pc = "open" /\ run'.latest = Len(versions[pin.record])
      /\ run'.seen = Latest(pin.record) /\ run'.todo = Work(run.sums, Latest(pin.record))
      /\ UNCHANGED <<run.force, run.reserve, run.sums, run.rec, run.prior,
                     run.index>>
  <2>1. /\ Len(versions[pin.record]) \in Nat /\ Latest(pin.record) \in Files
        /\ Work(run.sums, Latest(pin.record)) \in SUBSET Keys
    BY ValuesAre, PlansAre DEF ObservePlan, PassesGate
  <2>2. run' = [run EXCEPT !.pc = "open", !.latest = Len(versions[pin.record]),
                           !.seen = Latest(pin.record),
                           !.todo = Work(run.sums, Latest(pin.record))]
    BY DEF ObservePlan
  <2> QED BY <1>0, <2>1, <2>2, PlannedIs
<1>2. RunInv'
  BY <1>0, <1>1 DEF RunInv, ObservePlan
<1>3. ArchiveInv' /\ draft' = draft /\ UNCHANGED <<versions, finalizing>>
  BY <1>0 DEF ObservePlan, archive, ArchiveInv
<1>4. UserInv' /\ UNCHANGED pin
  BY <1>0 DEF ObservePlan, user, UserInv
<1>5. MarkInv'
  BY <1>0, ValuesAre DEF ObservePlan, MarkInv, Records, Deep, Drafting
<1>6. Ticks
  BY <1>0, CountersTick DEF ObservePlan
<1>7. Still /\ UNCHANGED <<pin.index, pin.version>>
  BY <1>3, <1>4, <1>6 DEF Still
<1>8. Looks
  BY <1>0, <1>1, <1>3, <1>7, ValuesAre, FilesAre, CountersTick
     DEF Looks, ObservePlan, Still, Sound, Kind, user, archive, PassesGate, Deep, Drafting
<1> QED BY <1>2, <1>3, <1>4, <1>5, <1>6, <1>8 DEF TypeInv, Ticks

LEMMA FigshareNewVersionIs ==
    ASSUME TypeInv, Sound, FigshareNewVersion
    PROVE  TypeInv' /\ OpensNext
<1> USE DEF At, In, history
<1>0. ArchiveInv /\ UserInv /\ RunInv /\ MarkInv /\ CountInv /\ run \in Run
  BY DEF TypeInv, RunInv
<1>1. /\ run' \in Run /\ run'.pc = "apply"
      /\ UNCHANGED <<run.force, run.reserve, run.sums, run.rec, run.latest,
                     run.seen, run.todo, run.prior, run.index>>
  BY <1>0, GotoIs, LabelsAre, ValuesAre DEF FigshareNewVersion, user, archive, Deep, Drafting
<1>2. RunInv'
  BY <1>0, <1>1 DEF RunInv, FigshareNewVersion
<1>3. ArchiveInv' /\ draft' = draft /\ UNCHANGED <<versions, finalizing>>
  BY <1>0 DEF FigshareNewVersion, archive, ArchiveInv
<1>4. UserInv' /\ UNCHANGED pin
  BY <1>0 DEF FigshareNewVersion, user, UserInv
<1>5. MarkInv'
  BY <1>0, ValuesAre DEF FigshareNewVersion, MarkInv, Records, Deep, Drafting
<1>6. Ticks
  BY <1>0, CountersTick DEF FigshareNewVersion
<1>7. Still /\ UNCHANGED <<pin.index, pin.version>>
  BY <1>3, <1>4, <1>6 DEF Still
<1>8. OpensNext
  BY <1>0, <1>1, <1>3, <1>7, ValuesAre, FilesAre, CountersTick
     DEF OpensNext, DraftIs, FigshareNewVersion, Still, Sound, Kind, user, archive, Deep,
         Drafting
<1> QED BY <1>2, <1>3, <1>4, <1>5, <1>6, <1>8 DEF TypeInv, Ticks

LEMMA DataverseNewVersionIs ==
    ASSUME TypeInv, Sound, DataverseNewVersion
    PROVE  TypeInv' /\ OpensNext
<1> USE DEF At, In, history
<1>0. ArchiveInv /\ UserInv /\ RunInv /\ MarkInv /\ CountInv /\ run \in Run
  BY DEF TypeInv, RunInv
<1>1. /\ run' \in Run /\ run'.pc = "apply"
      /\ UNCHANGED <<run.force, run.reserve, run.sums, run.rec, run.latest,
                     run.seen, run.todo, run.prior, run.index>>
  BY <1>0, GotoIs, LabelsAre, ValuesAre DEF DataverseNewVersion, user, archive, Deep, Drafting
<1>2. RunInv'
  BY <1>0, <1>1 DEF RunInv, DataverseNewVersion
<1>3. ArchiveInv' /\ draft' = draft /\ UNCHANGED <<versions, finalizing>>
  BY <1>0 DEF DataverseNewVersion, archive, ArchiveInv
<1>4. UserInv' /\ UNCHANGED pin
  BY <1>0 DEF DataverseNewVersion, user, UserInv
<1>5. MarkInv'
  BY <1>0, ValuesAre DEF DataverseNewVersion, MarkInv, Records, Deep, Drafting
<1>6. Ticks
  BY <1>0, CountersTick DEF DataverseNewVersion
<1>7. Still /\ UNCHANGED <<pin.index, pin.version>>
  BY <1>3, <1>4, <1>6 DEF Still
<1>8. OpensNext
  BY <1>0, <1>1, <1>3, <1>7, ValuesAre, FilesAre, CountersTick
     DEF OpensNext, DraftIs, DataverseNewVersion, Still, Sound, Kind, user, archive, Deep,
         Drafting
<1> QED BY <1>2, <1>3, <1>4, <1>5, <1>6, <1>8 DEF TypeInv, Ticks

LEMMA InvenioNewVersionIs == ASSUME TypeInv, Sound, InvenioNewVersion PROVE TypeInv' /\ OpensNext
<1> USE DEF At, In, history
<1>0. ArchiveInv /\ UserInv /\ RunInv /\ MarkInv /\ CountInv /\ run \in Run
  BY DEF TypeInv, RunInv
<1>1. /\ run' \in Run /\ run'.pc = "import" /\ run'.prior = Len(versions[run.rec])
      /\ UNCHANGED <<run.force, run.reserve, run.sums, run.rec, run.latest,
                     run.seen, run.todo, run.index>>
  BY <1>0, CountedIs, LabelsAre, ValuesAre DEF InvenioNewVersion, user, Deep, Drafting
<1>2. RunInv'
  BY <1>0, <1>1 DEF RunInv, InvenioNewVersion
<1>3. /\ ArchiveInv'
      /\ DraftIs(run.rec, IF draft[run.rec] = NoDraft THEN NoFiles ELSE draft[run.rec])
      /\ UNCHANGED <<versions, finalizing>>
  <2>1. /\ run.rec \in Records
        /\ (IF draft[run.rec] = NoDraft THEN NoFiles ELSE draft[run.rec]) \in DraftFiles \union {NoDraft}
        /\ draft' = [draft EXCEPT ![run.rec] =
                        IF draft[run.rec] = NoDraft THEN NoFiles ELSE draft[run.rec]]
        /\ UNCHANGED <<versions, finalizing>>
    BY <1>0, ValuesAre, FilesAre, LatestIs DEF InvenioNewVersion, Sound, Deep, Drafting
  <2> QED BY <1>0, <2>1, DraftSet
<1>4. UserInv' /\ UNCHANGED pin
  BY <1>0 DEF InvenioNewVersion, user, UserInv
<1>5. MarkInv'
  BY <1>0, ValuesAre DEF InvenioNewVersion, MarkInv, Records, Deep, Drafting
<1>6. Ticks
  BY <1>0, CountersTick DEF InvenioNewVersion
<1>7. Still /\ UNCHANGED <<pin.index, pin.version>>
  BY <1>3, <1>4, <1>6 DEF Still
<1>8. OpensNext
  BY <1>0, <1>1, <1>3, <1>7, ValuesAre, FilesAre, CountersTick
     DEF OpensNext, DraftIs, InvenioNewVersion, Still, Sound, Kind, user, Deep, Drafting
<1> QED BY <1>2, <1>3, <1>4, <1>5, <1>6, <1>8 DEF TypeInv, Ticks

LEMMA InvenioPublishFoundIs == ASSUME TypeInv, Sound, InvenioPublishFound PROVE TypeInv' /\ Finds
<1> USE DEF At, In, history
<1>0. ArchiveInv /\ UserInv /\ RunInv /\ MarkInv /\ CountInv /\ run \in Run
  BY DEF TypeInv, RunInv
<1>1. /\ run' \in Run /\ run'.pc = "pin" /\ run'.index = run.prior + 1
      /\ UNCHANGED <<run.force, run.reserve, run.sums, run.rec, run.latest,
                     run.seen, run.todo, run.prior>>
  BY <1>0, MadeIs, ValuesAre DEF InvenioPublishFound, user, archive, Deep, Drafting
<1>2. RunInv'
  BY <1>0, <1>1 DEF RunInv, InvenioPublishFound
<1>3. ArchiveInv' /\ draft' = draft /\ UNCHANGED <<versions, finalizing>>
  BY <1>0 DEF InvenioPublishFound, archive, ArchiveInv
<1>4. UserInv' /\ UNCHANGED pin
  BY <1>0 DEF InvenioPublishFound, user, UserInv
<1>5. MarkInv'
  BY <1>0, ValuesAre DEF InvenioPublishFound, MarkInv, Records, Deep, Drafting
<1>6. Ticks
  BY <1>0, CountersTick DEF InvenioPublishFound
<1>7. Still /\ UNCHANGED <<pin.index, pin.version>>
  BY <1>3, <1>4, <1>6 DEF Still
<1>8. Finds
  BY <1>0, <1>1, <1>3, <1>7, ValuesAre, FilesAre, CountersTick
     DEF Finds, InvenioPublishFound, Still, Sound, Kind, user, archive, Deep, Drafting
<1> QED BY <1>2, <1>3, <1>4, <1>5, <1>6, <1>8 DEF TypeInv, Ticks

LEMMA DataversePollIs == ASSUME TypeInv, Sound, DataversePoll PROVE TypeInv' /\ Finds
<1> USE DEF At, In, history
<1>0. ArchiveInv /\ UserInv /\ RunInv /\ MarkInv /\ CountInv /\ run \in Run
  BY DEF TypeInv, RunInv
<1>1. /\ run' \in Run /\ run'.pc = "pin" /\ run'.index = Len(versions[run.rec])
      /\ UNCHANGED <<run.force, run.reserve, run.sums, run.rec, run.latest,
                     run.seen, run.todo, run.prior>>
  BY <1>0, MadeIs, ValuesAre DEF DataversePoll, user, archive, Deep, Drafting
<1>2. RunInv'
  BY <1>0, <1>1 DEF RunInv, DataversePoll
<1>3. ArchiveInv' /\ draft' = draft /\ UNCHANGED <<versions, finalizing>>
  BY <1>0 DEF DataversePoll, archive, ArchiveInv
<1>4. UserInv' /\ UNCHANGED pin
  BY <1>0 DEF DataversePoll, user, UserInv
<1>5. MarkInv'
  BY <1>0, ValuesAre DEF DataversePoll, MarkInv, Records, Deep, Drafting
<1>6. Ticks
  BY <1>0, CountersTick DEF DataversePoll
<1>7. Still /\ UNCHANGED <<pin.index, pin.version>>
  BY <1>3, <1>4, <1>6 DEF Still
<1>8. Finds
  BY <1>0, <1>1, <1>3, <1>7, ValuesAre, FilesAre, CountersTick
     DEF Finds, DataversePoll, Still, Sound, Kind, user, archive, Deep, Drafting
<1> QED BY <1>2, <1>3, <1>4, <1>5, <1>6, <1>8 DEF TypeInv, Ticks

LEMMA DataversePublishIs == ASSUME TypeInv, Sound, DataversePublish PROVE TypeInv' /\ Asks
<1> USE DEF At, In, history
<1>0. ArchiveInv /\ UserInv /\ RunInv /\ MarkInv /\ CountInv /\ run \in Run
  BY DEF TypeInv, RunInv
<1>1. /\ run' \in Run /\ run'.pc = "poll" /\ run'.prior = Len(versions[run.rec])
      /\ UNCHANGED <<run.force, run.reserve, run.sums, run.rec, run.latest,
                     run.seen, run.todo, run.index>>
  BY <1>0, CountedIs, LabelsAre, ValuesAre
     DEF DataversePublish, user, Publishable, Open, Deep, Drafting
<1>2. RunInv'
  BY <1>0, <1>1 DEF RunInv, DataversePublish, Publishable
<1>3. ArchiveInv' /\ draft' = draft /\ versions' = versions
  BY <1>0 DEF DataversePublish, Publishable, Open, ArchiveInv
<1>4. UserInv' /\ UNCHANGED pin
  BY <1>0 DEF DataversePublish, user, UserInv
<1>5. MarkInv'
  BY <1>0, ValuesAre DEF DataversePublish, MarkInv, Open, Publishable, Records, Deep, Drafting
<1>6. Ticks
  BY <1>0, CountersTick DEF DataversePublish
<1>7. /\ At("publish") /\ Kind = "dataverse"
      /\ run.rec \in Records \ finalizing /\ draft[run.rec] # NoDraft
      /\ finalizing' = finalizing \union {run.rec} /\ UNCHANGED <<kept, local>>
  BY <1>0 DEF DataversePublish, Publishable, Open, user
<1>8. Asks
  BY <1>1, <1>3, <1>4, <1>6, <1>7 DEF Asks
<1> QED BY <1>2, <1>3, <1>4, <1>5, <1>6, <1>8 DEF TypeInv, Ticks

LEMMA DataversePublishFailsIs ==
    ASSUME TypeInv, Sound, DataversePublishFails
    PROVE  TypeInv' /\ Asks
<1> USE DEF At, In, history
<1>0. ArchiveInv /\ UserInv /\ RunInv /\ MarkInv /\ CountInv /\ run \in Run
  BY DEF TypeInv, RunInv
<1>1. /\ run' \in Run /\ run'.pc = "poll" /\ run'.prior = Len(versions[run.rec])
      /\ UNCHANGED <<run.force, run.reserve, run.sums, run.rec, run.latest,
                     run.seen, run.todo, run.index>>
  BY <1>0, CountedIs, LabelsAre, ValuesAre
     DEF DataversePublishFails, user, archive, Publishable, Open, Deep, Drafting
<1>2. RunInv'
  BY <1>0, <1>1 DEF RunInv, DataversePublishFails, Publishable
<1>3. ArchiveInv' /\ draft' = draft /\ UNCHANGED <<versions, finalizing>>
  BY <1>0 DEF DataversePublishFails, archive, ArchiveInv
<1>4. UserInv' /\ UNCHANGED pin
  BY <1>0 DEF DataversePublishFails, user, UserInv
<1>5. MarkInv'
  BY <1>0, ValuesAre
     DEF DataversePublishFails, MarkInv, Open, Publishable, Records, Deep, Drafting
<1>6. Ticks
  BY <1>0, CountersTick DEF DataversePublishFails
<1>7. Still /\ UNCHANGED <<pin.index, pin.version>>
  BY <1>3, <1>4, <1>6 DEF Still
<1>8. /\ At("publish") /\ Kind = "dataverse"
      /\ run.rec \in Records \ finalizing /\ draft[run.rec] # NoDraft
      /\ faults' > faults /\ UNCHANGED <<kept, local>>
  BY <1>0 DEF DataversePublishFails, Publishable, Open, Fault, CountInv, user
<1>9. Asks
  BY <1>1, <1>3, <1>4, <1>6, <1>8 DEF Asks
<1> QED BY <1>2, <1>3, <1>4, <1>5, <1>6, <1>9 DEF TypeInv, Ticks

LEMMA RemoveIs == ASSUME TypeInv, Sound, Remove PROVE TypeInv' /\ Works
<1> USE DEF At, In, history
<1>0. ArchiveInv /\ UserInv /\ RunInv /\ MarkInv /\ CountInv /\ run \in Run
  BY DEF TypeInv, RunInv
<1>1. PICK k \in run.todo :
         /\ Now(k) /\ Act(k) \in {"remove", "replace"} /\ run.rec \notin finalizing
         /\ draft' = IF Open THEN [draft EXCEPT ![run.rec][k] = None] ELSE draft
         /\ IF Act(k) = "remove" THEN Done(k) ELSE Goto("upload")
  BY DEF Remove
<1>2. k \in Keys /\ run.rec \in Records /\ At("apply") /\ run.todo \ {k} \in SUBSET Keys
  BY <1>1, ValuesAre DEF Now, Drafting
<1>3. /\ run' \in Run /\ run'.pc \in {"apply", "upload"}
      /\ UNCHANGED <<run.force, run.reserve, run.sums, run.rec, run.latest, run.seen,
                     run.prior, run.index>>
  <2>1. CASE Act(k) = "remove"
    <3>1. Treat("apply", run.todo \ {k})
      BY <1>1, <2>1 DEF Done
    <3> QED BY <1>0, <1>2, <3>1, TreatIs, LabelsAre
  <2>2. CASE Act(k) # "remove"
    BY <1>0, <1>1, <2>2, GotoIs, LabelsAre
  <2> QED BY <2>1, <2>2
<1>4. /\ ArchiveInv' /\ UNCHANGED <<versions, finalizing>>
      /\ \A r \in Records \ {run.rec} : draft'[r] = draft[r]
      /\ draft'[run.rec] = NoDraft <=> draft[run.rec] = NoDraft
      /\ Kind = "dataverse" => draft'[run.rec] \in Files \union {NoDraft}
  <2>1. CASE Open
    <3>1. draft' = [draft EXCEPT ![run.rec][k] = None] /\ draft[run.rec] # NoDraft
          /\ UNCHANGED <<versions, finalizing>>
      BY <1>1, <2>1 DEF Open, Remove
    <3>2. Kind = "dataverse" => draft[run.rec] \in Files /\ None # Pending
      BY <1>2, <3>1, MarksAssumption DEF Sound
    <3> QED BY <1>0, <1>2, <3>1, <3>2, DraftKey
  <2>2. CASE ~Open
    <3>1. UNCHANGED archive
      BY <1>1, <2>2 DEF Remove, archive
    <3> QED BY <1>0, <1>2, <3>1 DEF archive, ArchiveInv, Sound
  <2> QED BY <2>1, <2>2
<1>5. UserInv' /\ UNCHANGED <<pin, kept>>
  BY <1>0 DEF Remove, user, UserInv
<1>6. MarkInv' /\ Ticks
  BY <1>0, CountersTick DEF Remove, MarkInv
<1>7. RunInv'
  BY <1>2, <1>3, BoundsAssumption DEF RunInv, Records
<1>8. Works
  BY <1>2, <1>3, <1>4, <1>5, <1>6 DEF Works, Still, Drafting
<1> QED BY <1>4, <1>5, <1>6, <1>7, <1>8 DEF TypeInv, Ticks

(* A failing call ends a run with --reserve, and takes any other to the discard. *)
LEMMA FailsIs ==
    ASSUME run \in Run, run.rec \in Records, Fails, KeptIfReserve
    PROVE  /\ run' \in Run /\ run'.pc \in {"idle", "discard"} /\ kept \subseteq kept'
           /\ kept' \subseteq kept \union Records
           /\ \/ Quit /\ run.rec \in kept'
              \/ /\ run'.pc = "discard" /\ kept' = kept
                 /\ UNCHANGED <<run.force, run.reserve, run.sums, run.rec, run.latest, run.seen,
                                run.todo, run.prior, run.index>>
<1>1. run.rec # 0
  BY BoundsAssumption DEF Records
<1>2. CASE run.reserve
  BY <1>1, <1>2, QuitIs DEF Fails, KeptIfReserve
<1>3. CASE ~run.reserve
  BY <1>3, GotoIs, LabelsAre DEF Fails, KeptIfReserve
<1> QED BY <1>2, <1>3

LEMMA CommitIs == ASSUME TypeInv, Sound, Commit PROVE TypeInv' /\ (Works \/ Ends)
<1> USE DEF At, In, history
<1>0. ArchiveInv /\ UserInv /\ RunInv /\ MarkInv /\ CountInv /\ run \in Run
  BY DEF TypeInv, RunInv
<1>1. PICK k \in run.todo :
         /\ draft' = [draft EXCEPT ![run.rec][k] =
                          IF Kind = "figshare" /\ local[k] # run.sums[k] THEN @ ELSE local[k]]
         /\ (Done(k) /\ UNCHANGED kept) \/ (Fails /\ KeptIfReserve)
         /\ \/ swapped' = swapped
            \/ k \in Unverified /\ swapped' = swapped \union {k}
  BY DEF Commit, Verified
<1>2. /\ k \in Keys /\ run.rec \in Records /\ At("commit") /\ run.todo \ {k} \in SUBSET Keys
      /\ draft[run.rec] # NoDraft /\ draft[run.rec] \in DraftFiles /\ local \in Files
      /\ UNCHANGED <<versions, finalizing>> /\ run.rec \notin finalizing
  BY <1>0, ValuesAre, LatestIs DEF Commit, Open, Drafting, UserInv
<1>3. /\ ArchiveInv' /\ \A r \in Records \ {run.rec} : draft'[r] = draft[r]
      /\ draft'[run.rec] # NoDraft
      /\ Kind = "dataverse" => draft'[run.rec] \in Files
  <2> DEFINE x == IF Kind = "figshare" /\ local[k] # run.sums[k] THEN draft[run.rec][k]
                                                                ELSE local[k]
  <2>1. draft' = [draft EXCEPT ![run.rec][k] = x]
    BY <1>1
  <2>2. local[k] \in Contents \union {None} /\ local[k] # Pending
    BY <1>2, FilesAre
  <2>3. x \in Contents \union {None, Pending}
    BY <1>2, <2>2 DEF DraftFiles
  <2>4. Kind = "dataverse" => x # Pending /\ draft[run.rec] \in Files
    BY <1>2, <2>2 DEF Sound
  <2> HIDE DEF x
  <2> QED BY <1>0, <1>2, <2>1, <2>3, <2>4, DraftKey
<1>4. UserInv' /\ UNCHANGED pin /\ UNCHANGED <<reserved, unheard, orphans>> /\ Ticks /\ Still
  BY <1>0, <1>2, CountersTick DEF Commit, user, UserInv, Still
<1>5. ASSUME Done(k), UNCHANGED kept
      PROVE  RunInv' /\ MarkInv' /\ Works
  <2>1. /\ run' \in Run /\ run'.pc = "apply"
        /\ UNCHANGED <<run.force, run.reserve, run.sums, run.rec, run.latest, run.seen,
                       run.prior, run.index>>
    <3>1. Treat("apply", run.todo \ {k})
      BY <1>5 DEF Done
    <3> QED BY <1>0, <1>2, <3>1, TreatIs, LabelsAre
  <2>2. RunInv' /\ MarkInv'
    BY <1>0, <1>1, <1>2, <1>4, <1>5, <2>1 DEF RunInv, MarkInv
  <2> QED BY <1>2, <1>3, <1>4, <1>5, <2>1, <2>2 DEF Works, Drafting
<1>6. ASSUME Fails, KeptIfReserve
      PROVE  RunInv' /\ MarkInv' /\ (Works \/ Ends)
  <2>1. /\ run' \in Run /\ run'.pc \in {"idle", "discard"} /\ kept \subseteq kept'
        /\ kept' \subseteq kept \union Records
        /\ \/ Quit /\ run.rec \in kept'
           \/ /\ run'.pc = "discard" /\ kept' = kept
              /\ UNCHANGED <<run.force, run.reserve, run.sums, run.rec, run.latest, run.seen,
                             run.todo, run.prior, run.index>>
    BY <1>0, <1>2, <1>6, FailsIs
  <2>2. RunInv' /\ MarkInv'
    <3>1. MarkInv'
      BY <1>0, <1>1, <1>4, <2>1 DEF MarkInv
    <3>2. run'.pc = "discard" => run'.rec # 0
      BY <1>0, <1>2, <2>1, QuitIs DEF RunInv
    <3> QED BY <2>1, <3>1, <3>2 DEF RunInv
  <2>3. ASSUME Quit, run.rec \in kept' PROVE Ends
    <3>1. \A r \in Records :
             /\ draft'[r] # NoDraft => draft[r] # NoDraft
             /\ draft'[r] # NoDraft /\ r \in kept => r \in kept'
             /\ Kind = "dataverse" /\ draft[r] \in Files \union {NoDraft}
                   => draft'[r] \in Files \union {NoDraft}
      BY <1>2, <1>3, <2>1
    <3>2. \A r \in finalizing : draft[r] # NoDraft => draft'[r] # NoDraft
      BY <1>0, <1>2, <1>3 DEF ArchiveInv
    <3>3. UNCHANGED <<pin.index, pin.version>>
      BY <1>4
    <3>4. ~At("idle") /\ ~At("pin") /\ ~At("poll")
      BY <1>2
    <3> QED BY <1>2, <1>3, <1>4, <2>3, <3>1, <3>2, <3>3, <3>4 DEF Ends
  <2>4. ASSUME run'.pc = "discard", kept' = kept,
               UNCHANGED <<run.force, run.reserve, run.sums, run.rec, run.latest, run.seen,
                           run.todo, run.prior, run.index>>
        PROVE  Works
    BY <1>2, <1>3, <1>4, <2>4 DEF Works, Drafting
  <2> QED BY <2>1, <2>2, <2>3, <2>4
<1> QED BY <1>1, <1>3, <1>4, <1>5, <1>6 DEF TypeInv, Ticks

LEMMA DataverseAddIs == ASSUME TypeInv, Sound, DataverseAdd PROVE TypeInv' /\ (Works \/ Ends)
<1> USE DEF At, In, history
<1>0. ArchiveInv /\ UserInv /\ RunInv /\ MarkInv /\ CountInv /\ run \in Run
  BY DEF TypeInv, RunInv
<1>1. PICK k \in run.todo :
         /\ Uploading(k)
         /\ IF local[k] = run.sums[k]
            THEN /\ draft' = [draft EXCEPT ![run.rec][k] = local[k]]
                 /\ Done(k) /\ UNCHANGED kept
            ELSE Fails /\ KeptIfReserve /\ UNCHANGED draft
  BY DEF DataverseAdd
<1>2. /\ k \in Keys /\ run.rec \in Records /\ (At("apply") \/ At("upload"))
      /\ run.todo \ {k} \in SUBSET Keys
      /\ draft[run.rec] # NoDraft /\ draft[run.rec] \in DraftFiles /\ local \in Files
      /\ UNCHANGED <<versions, finalizing>> /\ run.rec \notin finalizing
  BY <1>0, <1>1, ValuesAre, LatestIs DEF DataverseAdd, Open, Uploading, Now, Drafting, UserInv
<1>3. /\ ArchiveInv' /\ \A r \in Records \ {run.rec} : draft'[r] = draft[r]
      /\ draft'[run.rec] # NoDraft
      /\ Kind = "dataverse" => draft'[run.rec] \in Files
  <2>1. local[k] \in Contents \union {None, Pending} /\ local[k] # Pending
    BY <1>2, FilesAre
  <2>2. Kind = "dataverse" => draft[run.rec] \in Files
    BY <1>2 DEF Sound
  <2>3. CASE draft' = [draft EXCEPT ![run.rec][k] = local[k]]
    BY <1>0, <1>2, <2>1, <2>2, <2>3, DraftKey
  <2>4. CASE UNCHANGED draft
    BY <1>0, <1>2, <2>2, <2>4 DEF ArchiveInv
  <2> QED BY <1>1, <2>3, <2>4
<1>4. UserInv' /\ UNCHANGED pin /\ UNCHANGED history /\ Ticks /\ Still
  BY <1>0, <1>2, CountersTick DEF DataverseAdd, user, UserInv, Still
<1>5. ASSUME Done(k), UNCHANGED kept
      PROVE  RunInv' /\ MarkInv' /\ Works
  <2>1. /\ run' \in Run /\ run'.pc = "apply"
        /\ UNCHANGED <<run.force, run.reserve, run.sums, run.rec, run.latest, run.seen,
                       run.prior, run.index>>
    <3>1. Treat("apply", run.todo \ {k})
      BY <1>5 DEF Done
    <3> QED BY <1>0, <1>2, <3>1, TreatIs, LabelsAre
  <2>2. RunInv' /\ MarkInv'
    BY <1>0, <1>2, <1>4, <1>5, <2>1 DEF RunInv, MarkInv
  <2> QED BY <1>2, <1>3, <1>4, <1>5, <2>1, <2>2 DEF Works, Drafting
<1>6. ASSUME Fails, KeptIfReserve
      PROVE  RunInv' /\ MarkInv' /\ (Works \/ Ends)
  <2>1. /\ run' \in Run /\ run'.pc \in {"idle", "discard"} /\ kept \subseteq kept'
        /\ kept' \subseteq kept \union Records
        /\ \/ Quit /\ run.rec \in kept'
           \/ /\ run'.pc = "discard" /\ kept' = kept
              /\ UNCHANGED <<run.force, run.reserve, run.sums, run.rec, run.latest, run.seen,
                             run.todo, run.prior, run.index>>
    BY <1>0, <1>2, <1>6, FailsIs
  <2>2. RunInv' /\ MarkInv'
    <3>1. MarkInv'
      BY <1>0, <1>4, <2>1 DEF MarkInv
    <3>2. run'.pc = "discard" => run'.rec # 0
      BY <1>0, <1>2, <2>1, QuitIs DEF RunInv
    <3> QED BY <2>1, <3>1, <3>2 DEF RunInv
  <2>3. ASSUME Quit, run.rec \in kept' PROVE Ends
    <3>1. \A r \in Records :
             /\ draft'[r] # NoDraft => draft[r] # NoDraft
             /\ draft'[r] # NoDraft /\ r \in kept => r \in kept'
             /\ Kind = "dataverse" /\ draft[r] \in Files \union {NoDraft}
                   => draft'[r] \in Files \union {NoDraft}
      BY <1>2, <1>3, <2>1
    <3>2. \A r \in finalizing : draft[r] # NoDraft => draft'[r] # NoDraft
      BY <1>0, <1>2, <1>3 DEF ArchiveInv
    <3>3. UNCHANGED <<pin.index, pin.version>>
      BY <1>4
    <3>4. ~At("idle") /\ ~At("pin") /\ ~At("poll")
      BY <1>2
    <3> QED BY <1>2, <1>3, <1>4, <2>3, <3>1, <3>2, <3>3, <3>4 DEF Ends
  <2>4. ASSUME run'.pc = "discard", kept' = kept,
               UNCHANGED <<run.force, run.reserve, run.sums, run.rec, run.latest, run.seen,
                           run.todo, run.prior, run.index>>
        PROVE  Works
    BY <1>2, <1>3, <1>4, <2>4 DEF Works, Drafting
  <2> QED BY <2>1, <2>2, <2>3, <2>4
<1> QED BY <1>1, <1>3, <1>4, <1>5, <1>6 DEF TypeInv, Ticks

LEMMA CreateDraftIs ==
    ASSUME TypeInv, Sound, CreateDraft
    PROVE  TypeInv' /\ \E r \in Records : OpensNew(r)
<1> USE DEF At, In, history
<1>0. ArchiveInv /\ UserInv /\ RunInv /\ MarkInv /\ CountInv /\ run \in Run
  BY DEF TypeInv, RunInv
<1>1. PICK r \in Records :
          /\ versions[r] = <<>> /\ draft[r] = NoDraft
          /\ draft' = [draft EXCEPT ![r] = NoFiles]
          /\ run' = [run EXCEPT !.pc = "apply", !.rec = r]
  BY DEF CreateDraft, Fresh
<1>2. /\ run' \in Run /\ run'.pc = "apply" /\ run'.rec = r
      /\ UNCHANGED <<run.force, run.reserve, run.sums, run.latest, run.seen,
                     run.todo, run.prior, run.index>>
  BY <1>0, <1>1, CreatedIs
<1>3. /\ UNCHANGED <<versions, finalizing, pin, local, wish, kept, history, counters>>
      /\ At("open") /\ run.rec = 0
  BY DEF CreateDraft, user
<1>4. ArchiveInv' /\ DraftIs(r, NoFiles)
  <2>1. NoFiles \in DraftFiles \union {NoDraft}
    BY FilesAre
  <2> QED BY <1>0, <1>1, <1>3, <2>1, DraftSet
<1>5. UserInv' /\ MarkInv' /\ Ticks /\ Still
  BY <1>0, <1>3, CountersTick DEF UserInv, MarkInv, Still
<1>6. RunInv'
  BY <1>2, BoundsAssumption DEF RunInv, Records
<1>7. OpensNew(r)
  BY <1>1, <1>2, <1>3, <1>4, <1>5 DEF OpensNew
<1> QED BY <1>4, <1>5, <1>6, <1>7 DEF TypeInv, Ticks

(* A published draft becomes the record's last version.                    *)
LEMMA ReleasedIs ==
    ASSUME ArchiveInv, NEW r \in Records, NEW f \in Files,
           versions' = [versions EXCEPT ![r] = Append(@, f)]
    PROVE  /\ versions' \in [Records -> Seq(Files)]
           /\ Len(versions'[r]) = Len(versions[r]) + 1 /\ versions'[r] # <<>>
           /\ versions'[r][Len(versions[r]) + 1] = f
           /\ \A i \in 1..Len(versions[r]) : versions'[r][i] = versions[r][i]
           /\ \A q \in Records \ {r} : versions'[q] = versions[q]
<1> DEFINE h == versions[r]
<1>1. h \in Seq(Files) /\ versions'[r] = Append(h, f) /\ DOMAIN versions = Records
  BY DEF ArchiveInv
<1>2. Append(h, f) \in Seq(Files) /\ Len(Append(h, f)) = Len(h) + 1 /\ Append(h, f) # <<>>
      /\ Append(h, f)[Len(h) + 1] = f /\ \A i \in 1..Len(h) : Append(h, f)[i] = h[i]
  BY <1>1
<1>3. versions' \in [Records -> Seq(Files)]
  BY <1>1, <1>2 DEF ArchiveInv
<1> QED BY <1>1, <1>2, <1>3

(* A draft without pending entries can be published.                       *)
LEMMA PublishableIs ==
    ASSUME TypeInv, Sound, Publishable
    PROVE  /\ At("publish") /\ run.rec \in Records \ finalizing /\ draft[run.rec] \in Files
           /\ draft[run.rec] # NoDraft
<1>1. At("publish") /\ run.rec \in Records \ finalizing /\ draft[run.rec] # NoDraft
      /\ \A k \in Keys : draft[run.rec][k] # Pending
  BY DEF Publishable, Open
<1>2. draft[run.rec] \in DraftFiles
  BY <1>1, LatestIs DEF TypeInv
<1> QED BY <1>1, <1>2 DEF DraftFiles, Files

LEMMA PublishIs ==
    ASSUME TypeInv, Sound, InvenioPublish \/ FigsharePublish
    PROVE  TypeInv' /\ Publishes
<1> USE DEF At, history
<1>0. ArchiveInv /\ UserInv /\ RunInv /\ MarkInv /\ CountInv /\ run \in Run
  BY DEF TypeInv, RunInv
<1>1. /\ At("publish") /\ run.rec \in Records \ finalizing /\ draft[run.rec] \in Files
      /\ draft[run.rec] # NoDraft
  BY PublishableIs DEF InvenioPublish, FigsharePublish
<1>2. /\ versions' = [versions EXCEPT ![run.rec] = Append(@, draft[run.rec])]
      /\ Made(Len(versions[run.rec]) + 1)
      /\ UNCHANGED <<finalizing, pin, local, wish, history, counters>>
      /\ kept' = kept \/ kept' = kept \ {run.rec}
      /\ Kind \in {"invenio", "figshare"}
  BY DEF InvenioPublish, FigsharePublish, Released, user
<1>3. /\ draft' \in [Records -> DraftFiles \union {NoDraft}]
      /\ \A r \in Records \ {run.rec} : draft'[r] = draft[r]
      /\ Kind = "invenio" => draft'[run.rec] = NoDraft
  BY <1>0, <1>1 DEF InvenioPublish, FigsharePublish, ArchiveInv
<1>4. /\ run' \in Run /\ run'.pc = "pin" /\ run'.index = Len(versions[run.rec]) + 1
      /\ UNCHANGED <<run.force, run.reserve, run.sums, run.rec, run.latest, run.seen,
                     run.todo, run.prior>>
  BY <1>0, <1>1, <1>2, MadeIs, LatestIs
<1>5. ArchiveInv'
  BY <1>0, <1>1, <1>2, <1>3, ReleasedIs DEF ArchiveInv
<1>6. UserInv' /\ MarkInv' /\ Ticks
  BY <1>0, <1>2, CountersTick DEF UserInv, MarkInv
<1>7. RunInv'
  BY <1>0, <1>1, <1>4 DEF RunInv
<1>8. Publishes
  BY <1>1, <1>2, <1>3, <1>4, <1>6 DEF Publishes
<1> QED BY <1>5, <1>6, <1>7, <1>8 DEF TypeInv, Ticks

LEMMA FigsharePublishFailsIs ==
    ASSUME TypeInv, Sound, FigsharePublishFails
    PROVE  TypeInv' /\ (Ends \/ Finds)
<1> USE DEF At, history
<1>0. ArchiveInv /\ UserInv /\ RunInv /\ MarkInv /\ CountInv /\ run \in Run
  BY DEF TypeInv, RunInv
<1>1. /\ At("publish") /\ run.rec \in Records \ finalizing /\ draft[run.rec] \in Files
      /\ draft[run.rec] # NoDraft
  BY PublishableIs DEF FigsharePublishFails
<1>2. /\ UNCHANGED <<versions, draft, finalizing, pin, local, wish, history>>
      /\ Kind = "figshare"
      /\ Ticks /\ faults' > faults
  BY <1>0, CountersTick DEF FigsharePublishFails, archive, user, CountInv
<1>3. ArchiveInv' /\ UserInv' /\ Still
  BY <1>0, <1>2 DEF ArchiveInv, UserInv, Still
<1>4. ASSUME Quit, kept' = kept \union {run.rec}
      PROVE  RunInv' /\ MarkInv' /\ Ends
  <2>1. run' \in Run /\ run'.pc = "idle"
    BY <1>4, QuitIs
  <2> QED BY <1>0, <1>1, <1>2, <1>3, <1>4, <2>1 DEF RunInv, MarkInv, Ends
<1>5. ASSUME versions[run.rec] # <<>>, Made(Len(versions[run.rec])), kept' = kept
      PROVE  RunInv' /\ MarkInv' /\ Finds
  <2>2. /\ run' \in Run /\ run'.pc = "pin" /\ run'.index = Len(versions[run.rec])
        /\ UNCHANGED <<run.force, run.reserve, run.sums, run.rec, run.latest, run.seen,
                       run.todo, run.prior>>
    BY <1>0, <1>1, <1>5, MadeIs, LatestIs
  <2>3. RunInv' /\ MarkInv'
    BY <1>0, <1>1, <1>2, <1>5, <2>2 DEF RunInv, MarkInv
  <2> QED BY <1>1, <1>2, <1>3, <1>5, <2>2, <2>3 DEF Finds
<1>6. \/ Quit /\ kept' = kept \union {run.rec}
      \/ versions[run.rec] # <<>> /\ Made(Len(versions[run.rec])) /\ kept' = kept
  BY DEF FigsharePublishFails
<1> QED BY <1>2, <1>3, <1>4, <1>5, <1>6 DEF TypeInv, Ticks

(* The version is out and the run ends with an error all the same.         *)
LEMMA UnseenIs ==
    ASSUME TypeInv, Sound, InvenioPublishUnseen \/ FigsharePublishUnread
    PROVE  TypeInv' /\ Misses
<1> USE DEF At
<1>0. ArchiveInv /\ UserInv /\ RunInv /\ MarkInv /\ CountInv
  BY DEF TypeInv
<1>1. /\ At("publish") /\ run.rec \in Records \ finalizing /\ draft[run.rec] \in Files
      /\ draft[run.rec] # NoDraft
  BY PublishableIs DEF InvenioPublishUnseen, FigsharePublishUnread
<1>2. /\ versions' = [versions EXCEPT ![run.rec] = Append(@, draft[run.rec])]
      /\ Quit /\ Fault /\ Unheard(run.rec)
      /\ UNCHANGED <<finalizing, pin, local, wish, reserved, swapped, orphans>>
      /\ kept' = kept \/ kept' = kept \ {run.rec}
      /\ Kind \in {"invenio", "figshare"}
  BY DEF InvenioPublishUnseen, FigsharePublishUnread, Released, user
<1>3. /\ draft' \in [Records -> DraftFiles \union {NoDraft}]
      /\ \A r \in Records \ {run.rec} : draft'[r] = draft[r]
      /\ Kind = "invenio" => draft'[run.rec] = NoDraft
  BY <1>0, <1>1 DEF InvenioPublishUnseen, FigsharePublishUnread, ArchiveInv
<1>4. run' \in Run /\ run'.pc = "idle"
  BY <1>2, QuitIs
<1>5. ArchiveInv' /\ Len(versions'[run.rec]) > 0
  <2>1. ArchiveInv'
    BY <1>0, <1>1, <1>2, <1>3, ReleasedIs DEF ArchiveInv
  <2>2. Len(versions'[run.rec]) = Len(versions[run.rec]) + 1 /\ Len(versions[run.rec]) \in Nat
    BY <1>0, <1>1, <1>2, ReleasedIs, LatestIs
  <2> QED BY <2>1, <2>2
<1>6. UserInv' /\ MarkInv' /\ Ticks /\ RunInv' /\ faults' > faults
  <2>1. Ticks /\ faults' = faults + 1
    BY <1>0, <1>2, CountersTick
  <2>2. MarkInv'
    BY <1>0, <1>1, <1>2 DEF MarkInv, Unheard
  <2> QED BY <1>0, <1>2, <1>4, <2>1, <2>2 DEF UserInv, RunInv, CountInv
<1>7. run.rec \in unheard' \/ run.rec = pin.record
  BY <1>1, <1>2, <1>5 DEF Unheard
<1>8. \A r \in Records \ {run.rec} : r \in kept => r \in kept'
  BY <1>2
<1>9. Misses
  BY <1>1, <1>2, <1>3, <1>6, <1>7, <1>8 DEF Misses
<1> QED BY <1>5, <1>6, <1>9 DEF TypeInv, Ticks

(* The draft is there and the run ends without it.                         *)
LEMMA DraftUnheardIs ==
    ASSUME TypeInv, Sound, DraftUnheard
    PROVE  TypeInv' /\ \E r \in Records : Slips(r)
<1> USE DEF At
<1>0. ArchiveInv /\ UserInv /\ RunInv /\ MarkInv /\ CountInv
  BY DEF TypeInv
<1>1. PICK r \in Records :
          /\ IF run.rec = 0 THEN Fresh(r) ELSE r = run.rec /\ Kind = "invenio"
          /\ draft' = [draft EXCEPT ![r] = IF @ = NoDraft THEN NoFiles ELSE @]
          /\ orphans' = orphans \union {r}
  BY DEF DraftUnheard
<1>2. /\ UNCHANGED <<versions, finalizing, pin, local, wish, kept, reserved, swapped, unheard>>
      /\ At("open") /\ Quit /\ Fault
  BY DEF DraftUnheard, user
<1> DEFINE f == IF draft[r] = NoDraft THEN NoFiles ELSE draft[r]
<1>3. f \in DraftFiles \union {NoDraft} /\ draft' = [draft EXCEPT ![r] = f]
  BY <1>0, <1>1, FilesAre, LatestIs
<1> HIDE DEF f
<1>4. ArchiveInv' /\ DraftIs(r, f)
  BY <1>0, <1>2, <1>3, DraftSet
<1>5. Ticks /\ UserInv' /\ MarkInv' /\ RunInv'
  <2>1. run' \in Run /\ run'.pc = "idle"
    BY <1>2, QuitIs
  <2>2. Ticks
    BY <1>0, <1>2, CountersTick
  <2> QED BY <1>0, <1>1, <1>2, <2>1, <2>2 DEF UserInv, MarkInv, RunInv
<1>6. \/ run.rec = 0 /\ versions[r] = <<>> /\ draft[r] = NoDraft
      \/ run.rec = r /\ Kind = "invenio"
  BY <1>1 DEF Fresh
<1>7. Slips(r)
  BY <1>1, <1>2, <1>4, <1>5, <1>6 DEF Slips, Still, f
<1> QED BY <1>4, <1>5, <1>7 DEF TypeInv, Ticks

LEMMA ReleaseIs ==
    ASSUME TypeInv, Sound, DataverseRelease
    PROVE  TypeInv' /\ \E r \in Records : Releases(r)
<1> USE DEF history
<1>0. ArchiveInv /\ UserInv /\ RunInv /\ MarkInv /\ CountInv
  BY DEF TypeInv
<1>1. PICK r \in finalizing : /\ versions' = [versions EXCEPT ![r] = Append(@, draft[r])]
                              /\ finalizing' = finalizing \ {r}
  BY DEF DataverseRelease, Released
<1>2. r \in Records /\ draft[r] \in Files
  BY <1>0, <1>1 DEF ArchiveInv, Sound
<1>3. UNCHANGED <<draft, pin, local, wish, run, kept, history, counters>>
  BY DEF DataverseRelease, user
<1>4. ArchiveInv'
  BY <1>0, <1>1, <1>2, <1>3, ReleasedIs DEF ArchiveInv
<1>5. UserInv' /\ RunInv' /\ MarkInv' /\ Ticks
  BY <1>0, <1>3, CountersTick DEF UserInv, RunInv, MarkInv
<1>6. Releases(r)
  BY <1>1, <1>2, <1>3, <1>5, FilesAre DEF Releases
<1> QED BY <1>2, <1>4, <1>5, <1>6 DEF TypeInv, Ticks

LEMMA PinIs ==
    ASSUME TypeInv, Sound, Pin
    PROVE  TypeInv' /\ Pins
<1> USE DEF At, history
<1>0. ArchiveInv /\ UserInv /\ RunInv /\ MarkInv /\ CountInv /\ run \in Run /\ pin \in PinType
  BY DEF TypeInv, RunInv, UserInv
<1>1. /\ At("pin") /\ Quit /\ wish' = FALSE
      /\ pin' = [remote |-> Kind, record |-> run.rec, index |-> run.index,
                 version |-> run.latest + 1, sums |-> run.sums]
      /\ UNCHANGED <<versions, draft, finalizing, local, kept, history, counters>>
  BY DEF Pin, archive
<1>2. pin' \in PinType
  <2>1. /\ Kind \in Kinds /\ run.rec \in 0..MaxRecords /\ run.index \in Nat
        /\ run.latest + 1 \in Nat /\ run.sums \in Files
    BY <1>0 DEF Kind, PinType, Run
  <2> QED BY <1>1, <2>1 DEF PinType
<1>3. ArchiveInv' /\ UserInv' /\ RunInv' /\ MarkInv' /\ Ticks
  BY <1>0, <1>1, <1>2, QuitIs, CountersTick DEF ArchiveInv, UserInv, RunInv, MarkInv
<1> QED BY <1>1, <1>3 DEF TypeInv, Ticks, Pins

LEMMA RepinIs ==
    ASSUME TypeInv, Sound, Repin
    PROVE  TypeInv' /\ Repins
<1> USE DEF At, history
<1>0. ArchiveInv /\ UserInv /\ RunInv /\ MarkInv /\ CountInv /\ run \in Run /\ pin \in PinType
  BY DEF TypeInv, RunInv, UserInv
<1> DEFINE n == Len(versions[pin.record])
<1>1. /\ At("observe") /\ pin.record \in Records /\ Quit /\ wish' = FALSE
      /\ n <= pin.version \/ run.force
      /\ Work(run.sums, Latest(pin.record)) = {}
      /\ pin' = [pin EXCEPT !.index = n,
                            !.version = IF pin.index = n THEN @ ELSE n,
                            !.sums = run.sums]
      /\ UNCHANGED <<versions, draft, finalizing, local, kept, history, counters>>
  BY ValuesAre DEF Repin, PassesGate, archive
<1>2. n \in Nat /\ run.sums \in Files
  BY <1>1, ValuesAre
<1> HIDE DEF n
<1>3. /\ pin' \in PinType /\ pin'.index = n /\ pin'.sums = run.sums
      /\ pin'.version = IF pin.index = n THEN pin.version ELSE n
      /\ UNCHANGED <<pin.remote, pin.record>>
  BY <1>0, <1>1, <1>2 DEF PinType
<1>4. ArchiveInv' /\ UserInv' /\ RunInv' /\ MarkInv' /\ Ticks
  BY <1>0, <1>1, <1>3, QuitIs, CountersTick DEF ArchiveInv, UserInv, RunInv, MarkInv
<1> QED BY <1>1, <1>3, <1>4 DEF TypeInv, Ticks, Repins, Still, n

LEMMA EditIs ==
    ASSUME TypeInv, Edit
    PROVE  TypeInv' /\ Beside
<1> USE DEF history
<1>0. ArchiveInv /\ UserInv /\ RunInv /\ MarkInv /\ CountInv
  BY DEF TypeInv
<1>1. Edited /\ UNCHANGED <<versions, draft, finalizing, wish, run, kept, history>>
  BY DEF Edit, archive
<1>2. PICK k \in Keys, m \in Contents \union {None} :
        /\ local' = [local EXCEPT ![k] = m]
        /\ pin' = [pin EXCEPT !.sums[k] = None] \/ pin' = pin
  BY DEF Edit
<1>3. local' \in Files
  BY <1>0, <1>2 DEF UserInv, Files
<1>4. pin' \in PinType /\ UNCHANGED <<pin.remote, pin.record, pin.index, pin.version>>
  <2>1. pin \in PinType
    BY <1>0 DEF UserInv
  <2>2. [pin.sums EXCEPT ![k] = None] \in Files
    BY <2>1 DEF PinType, Files
  <2>3. CASE pin' = [pin EXCEPT !.sums[k] = None]
    <3> DEFINE s == [pin.sums EXCEPT ![k] = None]
    <3>1. pin' = [pin EXCEPT !.sums = s]
      BY <2>3
    <3>2. s \in Files
      BY <2>2
    <3> HIDE DEF s
    <3> QED BY <2>1, <3>1, <3>2 DEF PinType
  <2> QED BY <1>2, <2>1, <2>3
<1>5. Ticks
  BY <1>0, <1>1 DEF Edited, CountInv, Ticks
<1>6. ArchiveInv' /\ UserInv' /\ RunInv' /\ MarkInv'
  BY <1>0, <1>1, <1>3, <1>4 DEF ArchiveInv, UserInv, RunInv, MarkInv
<1> QED BY <1>1, <1>4, <1>5, <1>6 DEF TypeInv, Ticks, Beside, Aside, Still

LEMMA ForeignIs ==
    ASSUME TypeInv, Sound, ForeignPublish
    PROVE  TypeInv' /\ \E r \in Records, f \in Files : Intrudes(r, f)
<1> USE DEF history
<1>0. ArchiveInv /\ UserInv /\ RunInv /\ MarkInv /\ CountInv
  BY DEF TypeInv
<1>1. PICK r \in Records, f \in Files \ {NoFiles} :
          /\ versions[r] # <<>> /\ r \notin finalizing
          /\ versions' = [versions EXCEPT ![r] = Append(@, f)]
          /\ draft' = [draft EXCEPT ![r] = IF Kind = "invenio" THEN NoDraft ELSE f]
          /\ kept' = kept \ {r}
  BY DEF ForeignPublish
<1>2. /\ UNCHANGED <<finalizing, pin, local, wish, run, reserved, swapped, unheard,
                    reserves, edits, crashes, faults>>
      /\ orphans' \subseteq orphans
      /\ foreign' = foreign + 1
      /\ Overlap \/ At("idle")
  BY DEF ForeignPublish, user
<1>3. /\ draft' \in [Records -> DraftFiles \union {NoDraft}]
      /\ DraftIs(r, IF Kind = "invenio" THEN NoDraft ELSE f)
  BY <1>0, <1>1, FilesAre DEF ArchiveInv, DraftIs
<1>4. ArchiveInv'
  BY <1>0, <1>1, <1>2, <1>3, ReleasedIs DEF ArchiveInv
<1>5. UserInv' /\ RunInv' /\ MarkInv' /\ Ticks
  BY <1>0, <1>1, <1>2 DEF UserInv, RunInv, MarkInv, CountInv, Ticks
<1>6. Intrudes(r, f)
  BY <1>1, <1>2, <1>3, <1>5 DEF Intrudes
<1> QED BY <1>4, <1>5, <1>6 DEF TypeInv, Ticks

-----------------------------------------------------------------------------
(* Every step of a publish run is of one of the forms.                     *)
DraftStep ==
    \/ Import \/ ImportRefused \/ ImportFault \/ ClearFile \/ Cleared
    \/ Remove \/ InvenioRegister \/ FigshareDropExisting \/ FigshareInitiate \/ Commit
    \/ DataverseDropExisting \/ DataverseAdd \/ Applied \/ Preflight
    \/ CallFails \/ DraftRefuses
Turns ==
    \/ Starts \/ Looks \/ (Works /\ DraftStep) \/ Ends \/ OpensNext \/ Publishes \/ Finds \/ Asks
    \/ Misses \/ Repins \/ Pins \/ Beside
    \/ \E r \in Records : OpensNew(r)
    \/ \E r \in Records : Slips(r)
    \/ \E r \in Records : Releases(r)
    \/ \E r \in Records, f \in Files : Intrudes(r, f)

LEMMA TurnsAre ==
    ASSUME TypeInv, Sound, Next
    PROVE  TypeInv' /\ Turns
<1>1. ASSUME Step PROVE TypeInv' /\ Turns
  BY <1>1, ObserveNothingIs, GateRefusesIs, RepinIs, ObservePlanIs, CreateDraftIs,
     InvenioNewVersionIs, FigshareNewVersionIs, DataverseNewVersionIs, ImportIs,
     ImportRefusedIs, ClearFileIs, ClearedIs, RemoveIs, InvenioRegisterIs,
     FigshareDropExistingIs, FigshareInitiateIs, CommitIs, DataverseDropExistingIs,
     DataverseAddIs, AppliedIs, PreflightIs, ReserveDOIIs, PublishIs, InvenioPublishFoundIs,
     DataversePublishIs, DataversePollIs, PinIs, DraftRefusesIs, DraftGoneIs, InvenioDiscardIs,
     FigshareDiscardIs, DataverseDiscardIs
     DEF Step, Turns, DraftStep
<1>2. ASSUME Failure PROVE TypeInv' /\ Turns
  BY <1>2, ImportFaultIs, CallFailsIs, CallAbortsIs, DiscardFailsIs, InvenioPublishFailsIs,
     FigsharePublishFailsIs, DataversePublishFailsIs, DataversePollEndsIs, CrashIs, UnseenIs,
     DraftUnheardIs
     DEF Failure, Turns, DraftStep
<1>3. ASSUME Rest PROVE TypeInv' /\ Turns
  <2>1. UNCHANGED vars
    BY <1>3 DEF Rest
  <2> QED BY <2>1, CountersTick
             DEF vars, archive, user, history, counters, TypeInv, ArchiveInv, UserInv, RunInv,
                 MarkInv, CountInv, Ticks, Turns, Beside, Aside, Still
<1> QED BY <1>1, <1>2, <1>3, BeginIs, ReleaseIs, EditIs, ForeignIs DEF Next, Turns

(* What was noted stays noted; an orphaned draft is one until a run works  *)
(* on it or it is gone.                                                    *)
Remembers ==
    /\ swapped \subseteq swapped' /\ unheard \subseteq unheard'
    /\ \A r \in orphans :
          \/ r \in orphans' \/ (run'.rec = r /\ run'.pc = "import")
          \/ Kind = "invenio" => draft'[r] = NoDraft

LEMMA RemembersAll ==
    ASSUME TypeInv, Sound, Next
    PROVE  Remembers
<1> USE DEF history, Remembers
<1>0. orphans \subseteq Records /\ run \in Run /\ ArchiveInv
  BY DEF TypeInv, MarkInv, RunInv
<1>1. CASE InvenioNewVersion
  <2>1. run'.rec = run.rec /\ run'.pc = "import"
    BY <1>0, <1>1 DEF InvenioNewVersion, Counted, Run
  <2> QED BY <1>1, <2>1 DEF InvenioNewVersion
<1>2. CASE ForeignPublish
  <2>1. PICK r \in Records, f \in Files \ {NoFiles} :
          /\ draft' = [draft EXCEPT ![r] = IF Kind = "invenio" THEN NoDraft ELSE f]
          /\ orphans' = orphans \ {r}
    BY <1>2 DEF ForeignPublish
  <2>2. Kind = "invenio" => draft'[r] = NoDraft
    BY <1>0, <2>1 DEF ArchiveInv
  <2>3. \A q \in orphans : q \in orphans' \/ q = r
    BY <2>1
  <2>4. swapped \subseteq swapped' /\ unheard \subseteq unheard'
    BY <1>2 DEF ForeignPublish
  <2> QED BY <2>2, <2>3, <2>4
<1>3. ASSUME Commit \/ ReserveDOI \/ DraftUnheard \/ CallAborts \/ InvenioPublishUnseen
               \/ FigsharePublishUnread \/ DataversePollEnds \/ Crash
      PROVE  Remembers
  BY <1>3 DEF Commit, ReserveDOI, DraftUnheard, CallAborts, InvenioPublishUnseen,
              FigsharePublishUnread, DataversePollEnds, Crash, Unheard
<1>4. ASSUME Begin \/ Rerun \/ Rest \/ DataverseRelease \/ Edit
      PROVE  Remembers
  BY <1>4 DEF Begin, Rerun, Start, Rest, vars, DataverseRelease, Edit
<1>5. ASSUME Step PROVE Remembers \/ InvenioNewVersion \/ Commit \/ ReserveDOI
  BY <1>5 DEF Step, ObserveNothing, GateRefuses, Repin, ObservePlan, CreateDraft,
              FigshareNewVersion, DataverseNewVersion, Import, ImportRefused, ClearFile,
              Cleared, Remove, InvenioRegister, FigshareDropExisting, FigshareInitiate,
              DataverseDropExisting, DataverseAdd, Applied, Preflight, InvenioPublish,
              InvenioPublishFound, FigsharePublish, DataversePublish, DataversePoll, Pin,
              DraftRefuses, DraftGone, InvenioDiscard, FigshareDiscard, DataverseDiscard
<1>6. ASSUME Failure
      PROVE  \/ Remembers \/ DraftUnheard \/ CallAborts \/ InvenioPublishUnseen
             \/ FigsharePublishUnread \/ DataversePollEnds \/ Crash
  BY <1>6 DEF Failure, ImportFault, CallFails, DiscardFails, InvenioPublishFails,
              FigsharePublishFails, DataversePublishFails
<1> QED BY <1>1, <1>2, <1>3, <1>4, <1>5, <1>6 DEF Next

-----------------------------------------------------------------------------
(* What a run's place says of its record stays true, form by form.         *)
LEMMA SoundStep ==
    ASSUME TypeInv, Sound, TypeInv', Turns \/ Aside
    PROVE  Sound'
<1> USE DEF At, In, history
<1>0. /\ ArchiveInv /\ UserInv /\ RunInv /\ MarkInv /\ CountInv /\ run \in Run
      /\ run.rec \in Records \union {0} /\ pin.record \in Records \union {0}
  <2>1. run.rec \in 0..MaxRecords /\ pin.record \in 0..MaxRecords
    BY DEF TypeInv, RunInv, Run, UserInv, PinType
  <2> QED BY <2>1, BoundsAssumption DEF TypeInv, RunInv, Records
<1>1. CASE Starts
  BY <1>0, <1>1 DEF Sound, Starts, Still, Kind, Deep, Drafting
<1>2. CASE Looks
  BY <1>0, <1>2 DEF Sound, Looks, Still, Kind, Deep, Drafting
<1>3. CASE Works
  BY <1>0, <1>3 DEF Sound, Works, Still, Kind, Deep, Drafting, ArchiveInv
<1>4. CASE Ends
  BY <1>0, <1>4, QuitIs DEF Sound, Ends, Still, Kind, Deep, Drafting, ArchiveInv
<1>5. CASE OpensNext
  <2>1. /\ \A r \in Records : draft'[r] = draft[r] \/ Kind = "invenio"
        /\ \A r \in Records : draft[r] # NoDraft => draft'[r] # NoDraft
    BY <1>5, FilesAre DEF OpensNext, DraftIs
  <2>2. run.rec # 0
    BY <1>5 DEF OpensNext, Records
  <2> QED BY <1>0, <1>5, <2>1, <2>2
             DEF Sound, OpensNext, Still, Kind, Deep, Drafting, ArchiveInv
<1>6. CASE Publishes
  BY <1>0, <1>6, ReleasedIs DEF Sound, Publishes, Kind, Deep, Drafting, ArchiveInv
<1>7. CASE Finds
  BY <1>0, <1>7 DEF Sound, Finds, Still, Kind, Deep, Drafting
<1>8. CASE Asks
  BY <1>0, <1>8, LatestIs DEF Sound, Asks, Kind, Deep, Drafting, ArchiveInv
<1>9. CASE Repins
  BY <1>0, <1>9, QuitIs DEF Sound, Repins, Still, Kind, Deep, Drafting
<1>10. CASE Pins
  BY <1>0, <1>10, QuitIs DEF Sound, Pins, Kind, Deep, Drafting
<1>11. CASE Aside
  BY <1>0, <1>11 DEF Sound, Aside, Still, Kind, Deep, Drafting
<1>12. ASSUME NEW r \in Records, OpensNew(r) PROVE Sound'
  BY <1>0, <1>12, FilesAre
     DEF Sound, OpensNew, Still, Kind, Deep, Drafting, DraftIs, ArchiveInv
<1>13. ASSUME NEW r \in Records, Releases(r) PROVE Sound'
  <2>1. /\ \A q \in Records : versions[q] # <<>> => versions'[q] # <<>>
        /\ \A q \in Records : Len(versions[q]) <= Len(versions'[q])
    <3>1. /\ r \in Records /\ draft[r] \in Files
          /\ versions' = [versions EXCEPT ![r] = Append(@, draft[r])]
      BY <1>0, <1>13 DEF Releases, Sound
    <3> QED BY <1>0, <3>1, ReleasedIs, LatestIs
  <2>2. At("poll") => run.prior <= Len(versions'[run.rec])
    BY <1>0, <2>1, LatestIs, ValuesAre DEF Sound
  <2> QED BY <1>0, <1>13, <2>1, <2>2 DEF Sound, Releases, Kind, Deep, Drafting, ArchiveInv
<1>14. ASSUME NEW r \in Records, NEW f \in Files, Intrudes(r, f) PROVE Sound'
  <2>1. /\ \A q \in Records : versions[q] # <<>> => versions'[q] # <<>>
        /\ \A q \in Records : Len(versions[q]) <= Len(versions'[q])
    <3>1. versions' = [versions EXCEPT ![r] = Append(@, f)]
      BY <1>14 DEF Intrudes
    <3> QED BY <1>0, <3>1, ReleasedIs, LatestIs
  <2>2. At("poll") => run.prior <= Len(versions'[run.rec])
    <3>1. At("poll") => /\ run.prior <= Len(versions[run.rec]) /\ run.rec \in Records
                        /\ run.prior \in Nat
      BY <1>0, ValuesAre DEF Sound
    <3>2. \A q \in Records : Len(versions[q]) \in Nat /\ Len(versions'[q]) \in Nat
      <4>1. ArchiveInv'
        BY DEF TypeInv
      <4> QED BY <1>0, <4>1, LatestIs DEF ArchiveInv
    <3> QED BY <2>1, <3>1, <3>2
  <2>3. \A q \in Records : /\ q # r => draft'[q] = draft[q]
                           /\ Kind = "dataverse" => draft'[r] \in Files /\ draft'[r] # NoDraft
    BY <1>14, FilesAre DEF Intrudes, DraftIs
  <2>4. At("pin") => run.rec \in Records
    BY ValuesAre
  <2> QED BY <1>0, <1>14, <2>1, <2>2, <2>3, <2>4
             DEF Sound, Intrudes, Kind, Deep, Drafting, ArchiveInv
<1>15. ASSUME NEW r \in Records, Slips(r) PROVE Sound'
  <2>1. \A q \in Records : /\ draft'[q] = draft[q] \/ draft'[q] = NoFiles
                           /\ draft[q] # NoDraft => draft'[q] # NoDraft
    BY <1>15, FilesAre DEF Slips, DraftIs
  <2>2. run'.pc = "idle" /\ UNCHANGED <<versions, finalizing, pin>>
    BY <1>15, QuitIs DEF Slips, Still
  <2> QED BY <1>0, <2>1, <2>2, FilesAre
             DEF Sound, Kind, Deep, Drafting, ArchiveInv
<1>16. CASE Misses
  <2>1. run'.pc = "idle" /\ UNCHANGED <<finalizing, pin>>
    BY <1>16, QuitIs DEF Misses
  <2>2. \A q \in Records : versions[q] # <<>> => versions'[q] # <<>>
    BY <1>0, <1>16, ReleasedIs DEF Misses
  <2> QED BY <1>0, <1>16, <2>1, <2>2 DEF Sound, Misses, Kind, Deep, Drafting, ArchiveInv
<1> QED BY <1>1, <1>2, <1>3, <1>4, <1>5, <1>6, <1>7, <1>8, <1>9, <1>10, <1>11, <1>12, <1>13,
           <1>14, <1>15, <1>16
           DEF Turns, Beside

-----------------------------------------------------------------------------
(* A record that is published, or about to be, is the pinned one, the      *)
(* run's own, which the run is going to pin, or one that went live unheard.*)
Single ==
    \A r \in Records : versions[r] # <<>> \/ r \in finalizing =>
        r = pin.record \/ r \in unheard \/ (run.rec = r /\ (At("poll") \/ At("pin")))

LEMMA TurnsTick ==
    ASSUME Turns \/ Aside
    PROVE  Ticks /\ Kind' = Kind
BY DEF Turns, Starts, Looks, Works, Ends, OpensNext, Publishes, Finds, Asks, Repins, Pins,
       Misses, Slips, Beside, Aside, OpensNew, Releases, Intrudes, Still, Kind

LEMMA SingleStep ==
    ASSUME TypeInv, Sound, Single, Turns \/ Aside, Remembers
    PROVE  Single'
<1> USE DEF At, In
<1> SUFFICES ASSUME NEW q \in Records, versions'[q] # <<>> \/ q \in finalizing'
             PROVE  \/ q = pin'.record \/ q \in unheard'
                    \/ run'.rec = q /\ run'.pc \in {"poll", "pin"}
  BY DEF Single
<1>0. ArchiveInv /\ \A r \in Records : r # 0
  BY DEF TypeInv, Records
<1>1. unheard \subseteq unheard'
  BY DEF Remembers
<1>2. versions[q] # <<>> \/ q \in finalizing =>
         q = pin.record \/ q \in unheard \/ (run.rec = q /\ run.pc \in {"poll", "pin"})
  BY DEF Single
<1>3. /\ ~At("idle") /\ pin.record # 0 => run.rec = pin.record
      /\ At("pin") => run.rec \in Records /\ versions[run.rec] # <<>>
  BY ValuesAre DEF Sound
<1>4. CASE Starts
  BY <1>1, <1>2, <1>4 DEF Starts, Still
<1>5. CASE Looks
  BY <1>1, <1>2, <1>5 DEF Looks, Still
<1>6. CASE Works
  BY <1>1, <1>2, <1>6 DEF Works, Still, Deep, Drafting
<1>7. CASE Ends
  BY <1>1, <1>2, <1>7 DEF Ends, Still
<1>8. CASE OpensNext
  BY <1>1, <1>2, <1>8 DEF OpensNext, Still
<1>9. CASE Publishes
  BY <1>0, <1>1, <1>2, <1>9, ReleasedIs DEF Publishes
<1>10. CASE Finds
  BY <1>1, <1>2, <1>10 DEF Finds, Still
<1>11. CASE Asks
  BY <1>1, <1>2, <1>11 DEF Asks
<1>12. CASE Repins
  BY <1>1, <1>2, <1>12 DEF Repins, Still
<1>13. CASE Pins
  BY <1>0, <1>1, <1>2, <1>3, <1>13 DEF Pins
<1>14. CASE Aside
  BY <1>1, <1>2, <1>14 DEF Aside, Still
<1>15. ASSUME NEW r \in Records, OpensNew(r)
       PROVE  q = pin'.record \/ q \in unheard'
  BY <1>1, <1>2, <1>15 DEF OpensNew, Still
<1>16. ASSUME NEW r \in Records, Releases(r)
       PROVE  \/ q = pin'.record \/ q \in unheard'
              \/ run'.rec = q /\ run'.pc \in {"poll", "pin"}
  <2>1. draft[r] \in Files /\ versions' = [versions EXCEPT ![r] = Append(@, draft[r])]
    BY <1>0, <1>16 DEF Releases, Sound
  <2>2. \A p \in Records \ {r} : versions'[p] = versions[p]
    BY <1>0, <2>1, ReleasedIs
  <2> QED BY <1>1, <1>2, <1>16, <2>2 DEF Releases
<1>17. ASSUME NEW r \in Records, NEW f \in Files, Intrudes(r, f)
       PROVE  \/ q = pin'.record \/ q \in unheard'
              \/ run'.rec = q /\ run'.pc \in {"poll", "pin"}
  <2>1. versions' = [versions EXCEPT ![r] = Append(@, f)] /\ versions[r] # <<>>
    BY <1>17 DEF Intrudes
  <2>2. \A p \in Records \ {r} : versions'[p] = versions[p]
    BY <1>0, <2>1, ReleasedIs
  <2> QED BY <1>1, <1>2, <1>17, <2>1, <2>2 DEF Intrudes
<1>18. ASSUME NEW r \in Records, Slips(r)
       PROVE  q = pin'.record \/ q \in unheard'
  BY <1>1, <1>2, <1>18 DEF Slips, Still
<1>19. CASE Misses
  <2>1. \A p \in Records \ {run.rec} : versions'[p] = versions[p]
    BY <1>0, <1>19, ReleasedIs DEF Misses
  <2> QED BY <1>1, <1>2, <1>19, <2>1 DEF Misses
<1> QED BY <1>4, <1>5, <1>6, <1>7, <1>8, <1>9, <1>10, <1>11, <1>12, <1>13, <1>14, <1>15, <1>16,
           <1>17, <1>18, <1>19
           DEF Turns, Beside

-----------------------------------------------------------------------------
(* An InvenioRDM draft is kept on purpose, an orphan of a failing call, or *)
(* a run is at work on it.                                                 *)
Calm == crashes = 0 /\ Kind = "invenio"

Discards == Calm =>
    \A r \in Records : draft[r] # NoDraft =>
        r \in kept \/ r \in orphans \/ (run.rec = r /\ In(Deep \union Drafting))

LEMMA DiscardsStep ==
    ASSUME TypeInv, Sound, Discards, Turns \/ Aside, Remembers
    PROVE  Discards'
<1> USE DEF At, In, Deep, Drafting
<1> SUFFICES ASSUME Calm', NEW q \in Records, draft'[q] # NoDraft
             PROVE  \/ q \in kept' \/ q \in orphans'
                    \/ run'.rec = q /\ In(Deep \union Drafting)'
  BY DEF Discards
<1>0. ArchiveInv /\ CountInv /\ \A r \in Records : r # 0
  BY DEF TypeInv, Records
<1>1. Calm /\ crashes' = crashes /\ crashes = 0 /\ Kind = "invenio" /\ Kind' = "invenio"
  BY <1>0, TurnsTick DEF CountInv, Ticks, Calm
<1>2. draft[q] # NoDraft =>
          q \in kept \/ q \in orphans \/ (run.rec = q /\ In(Deep \union Drafting))
  BY <1>1 DEF Discards
<1>3. q \in orphans => q \in orphans' \/ (run'.rec = q /\ In(Deep \union Drafting)')
  BY <1>1 DEF Remembers
<1>4. CASE Starts
  BY <1>2, <1>3, <1>4 DEF Starts, Still
<1>5. CASE Looks
  BY <1>2, <1>3, <1>5 DEF Looks, Still
<1>6. CASE Works
  <2>1. draft[q] # NoDraft
    BY <1>6 DEF Works
  <2> QED BY <1>2, <1>3, <1>6, <2>1 DEF Works
<1>7. CASE Ends
  <2>1. draft[q] # NoDraft /\ (q \in kept => q \in kept')
    BY <1>7 DEF Ends
  <2>2. run.rec = q /\ In(Deep \union Drafting) => q \in kept' \/ q \in orphans'
    <3>1. run.rec = q => \/ q \in kept' \/ q \in orphans'
                         \/ At("observe") \/ At("open") \/ crashes' > crashes
      BY <1>1, <1>7 DEF Ends
    <3>2. ~(crashes' > crashes)
      BY <1>1
    <3> QED BY <3>1, <3>2
  <2> QED BY <1>2, <1>3, <2>1, <2>2
<1>8. CASE OpensNext
  BY <1>1, <1>2, <1>3, <1>8 DEF OpensNext, Still, DraftIs
<1>9. CASE Publishes
  BY <1>1, <1>2, <1>3, <1>9 DEF Publishes
<1>10. CASE Finds
  <2>1. At("poll") => Kind = "dataverse"
    BY DEF Sound
  <2> QED BY <1>1, <1>2, <1>3, <1>10, <2>1 DEF Finds, Still
<1>11. CASE Asks
  BY <1>1, <1>11 DEF Asks
<1>12. CASE Repins
  BY <1>2, <1>3, <1>12 DEF Repins, Still
<1>13. CASE Pins
  BY <1>2, <1>3, <1>13 DEF Pins
<1>14. CASE Aside
  BY <1>2, <1>3, <1>14 DEF Aside, Still
<1>15. ASSUME NEW r \in Records, OpensNew(r)
       PROVE  \/ q \in kept' \/ q \in orphans'
              \/ run'.rec = q /\ In(Deep \union Drafting)'
  BY <1>2, <1>3, <1>15 DEF OpensNew, Still, DraftIs
<1>16. ASSUME NEW r \in Records, Releases(r)
       PROVE  FALSE
  BY <1>1, <1>16 DEF Releases, Sound
<1>17. ASSUME NEW r \in Records, NEW f \in Files, Intrudes(r, f)
       PROVE  \/ q \in kept' \/ q \in orphans'
              \/ run'.rec = q /\ In(Deep \union Drafting)'
  BY <1>1, <1>2, <1>3, <1>17 DEF Intrudes, DraftIs
<1>18. ASSUME NEW r \in Records, Slips(r)
       PROVE  q \in kept' \/ q \in orphans'
  BY <1>1, <1>2, <1>3, <1>18, QuitIs DEF Slips, Still, DraftIs
<1>19. CASE Misses
  BY <1>1, <1>2, <1>3, <1>19, QuitIs DEF Misses
<1> QED BY <1>4, <1>5, <1>6, <1>7, <1>8, <1>9, <1>10, <1>11, <1>12, <1>13, <1>14, <1>15, <1>16,
           <1>17, <1>18, <1>19
           DEF Turns, Beside

-----------------------------------------------------------------------------
(* The steps of a pull.                                                    *)
PullInv ==
    /\ pull \in PullRun /\ pulls \in 0..MaxPulls
    /\ ~PullAt("idle") => At("idle") /\ pin.record # 0

LEMMA NoPullIs ==
    /\ NoPull \in PullRun /\ NoPull.pc = "idle"
BY IdleIs DEF NoPull, PullRun

LEMMA PullFields ==
    ASSUME pull \in PullRun
    PROVE  /\ pull.pc \in {"idle", "resolve", "list", "fetch", "record", "save"}
           /\ pull.target \in Nat /\ pull.repin \in BOOLEAN /\ pull.seen \in Files
           /\ pull.todo \subseteq Keys /\ pull.bare \subseteq Keys
           /\ pull.pin \in [index : Nat, version : Nat, sums : Files]
           /\ pull.pin.index \in Nat /\ pull.pin.version \in Nat /\ pull.pin.sums \in Files
<1>1. pull.pin \in [index : Nat, version : Nat, sums : Files]
  BY DEF PullRun
<1> QED BY <1>1 DEF PullRun

LEMMA BeginPullIs ==
    ASSUME TypeInv, PullInv, BeginPull
    PROVE  /\ pull' \in PullRun /\ pull'.pc \in {"resolve", "list"}
           /\ pull'.target = pin.index /\ pull'.repin = FALSE /\ pull'.todo = {}
           /\ pull'.pin.index = pin.index /\ pull'.pin.version = pin.version
           /\ pull'.pin.sums = pin.sums
<1>1. pin.index \in Nat /\ pin.version \in Nat /\ pin.sums \in Files
  BY DEF TypeInv, UserInv, PinType
<1> DEFINE p == [index |-> pin.index, version |-> pin.version, sums |-> pin.sums]
<1>2. /\ p \in [index : Nat, version : Nat, sums : Files]
      /\ p.index = pin.index /\ p.version = pin.version /\ p.sums = pin.sums
  BY <1>1
<1>3. PICK latest \in Latests :
          pull' = [NoPull EXCEPT !.pc = IF latest THEN "resolve" ELSE "list",
                                 !.target = pin.index, !.pin = p]
  BY DEF BeginPull
<1> HIDE DEF p
<1> DEFINE l == IF latest THEN "resolve" ELSE "list"
<1>4. /\ l \in {"resolve", "list"}
      /\ pull' = [NoPull EXCEPT !.pc = l, !.target = pin.index, !.pin = p]
  BY <1>3
<1> HIDE DEF l
<1>5. /\ pull' \in PullRun /\ pull'.pc = l /\ pull'.target = pin.index /\ pull'.pin = p
      /\ pull'.repin = FALSE /\ pull'.todo = {}
  BY <1>1, <1>2, <1>4, NoPullIs DEF PullRun, NoPull
<1> QED BY <1>2, <1>4, <1>5

LEMMA PullResolveIs ==
    ASSUME TypeInv, Sound, PullInv, PullResolve
    PROVE  /\ pull' \in PullRun /\ pull'.pc = "list"
           /\ pull'.target = Len(versions[pin.record])
           /\ pull'.repin = (Len(versions[pin.record]) # pull.target)
           /\ UNCHANGED <<pull.todo, pull.pin>>
<1> DEFINE n == Len(versions[pin.record])
           b == (n # pull.target)
<1>1. n \in Nat /\ b \in BOOLEAN
  BY ValuesAre DEF PullResolve, PullInv, PullAt
<1>2. pull' = [pull EXCEPT !.pc = "list", !.target = n, !.repin = b] /\ pull \in PullRun
  BY DEF PullResolve, PullInv
<1> HIDE DEF n, b
<1>3. /\ pull' \in PullRun /\ pull'.pc = "list" /\ pull'.target = n /\ pull'.repin = b
      /\ UNCHANGED <<pull.todo, pull.pin>>
  BY <1>1, <1>2 DEF PullRun
<1> QED BY <1>3 DEF n, b

LEMMA PullListIs ==
    ASSUME TypeInv, Sound, PullInv, PullList
    PROVE  /\ pull' \in PullRun
           /\ \/ pull' = NoPull
              \/ /\ pull.target \in 1..Len(versions[pin.record])
                 /\ pull'.pc = "fetch" /\ pull'.todo = Held(local)
                 /\ pull'.seen = versions[pin.record][pull.target]
                 /\ UNCHANGED <<pull.target, pull.repin, pull.pin>>
<1>1. CASE pull.target \in 1..Len(versions[pin.record])
  <2> DEFINE f == versions[pin.record][pull.target]
             h == Held(local)
  <2>1. f \in Files /\ h \in SUBSET Keys
    <3>1. pin.record \in Records /\ ArchiveInv
      BY ValuesAre DEF PullList, PullInv, PullAt, TypeInv
    <3> QED BY <1>1, <3>1, LatestIs, PlansAre
  <2>2. PICK bare \in SUBSET InParts :
            pull' = [pull EXCEPT !.pc = "fetch", !.todo = h, !.bare = bare, !.seen = f]
    BY <1>1 DEF PullList
  <2>4. pull \in PullRun /\ bare \in SUBSET Keys
    BY UnverifiedAssumption DEF PullInv, InParts
  <2> HIDE DEF f, h
  <2>3. /\ pull' \in PullRun /\ pull'.pc = "fetch" /\ pull'.todo = h /\ pull'.seen = f
        /\ UNCHANGED <<pull.target, pull.repin, pull.pin>>
    BY <2>1, <2>2, <2>4 DEF PullRun
  <2> QED BY <1>1, <2>3 DEF f, h
<1>2. CASE pull.target \notin 1..Len(versions[pin.record])
  BY <1>2, NoPullIs DEF PullList, PullEnds
<1> QED BY <1>1, <1>2

(* A file is skipped, kept or delivered; its pin follows the listing. *)
Treats(k, s) ==
    /\ pull'.pc = "fetch" /\ pull'.todo = pull.todo \ {k} /\ pull'.pin.sums = s
    /\ UNCHANGED <<pull.target, pull.repin, pull.seen, pull.pin.index, pull.pin.version>>

LEMMA TreatsOne ==
    ASSUME pull \in PullRun, PullAt("fetch"), NEW k \in Keys, NEW x \in Contents \union {None},
           pull' = [pull EXCEPT !.todo = @ \ {k}, !.pin.sums[k] = x]
    PROVE  pull' \in PullRun /\ Treats(k, [pull.pin.sums EXCEPT ![k] = x])
<1> DEFINE s == [pull.pin.sums EXCEPT ![k] = x]
           p == [pull.pin EXCEPT !.sums = s]
           t == pull.todo \ {k}
<1>1. s \in Files
  BY PullFields DEF Files
<1>2. /\ p \in [index : Nat, version : Nat, sums : Files]
      /\ p.sums = s /\ p.index = pull.pin.index /\ p.version = pull.pin.version
  <2> HIDE DEF s
  <2> QED BY <1>1, PullFields
<1>3. pull' = [pull EXCEPT !.todo = t, !.pin = p] /\ t \in SUBSET Keys
  BY PullFields DEF PullRun
<1> HIDE DEF p, s, t
<1>4. /\ pull' \in PullRun /\ pull'.todo = t /\ pull'.pin = p
      /\ UNCHANGED <<pull.pc, pull.target, pull.repin, pull.seen>>
  BY <1>2, <1>3 DEF PullRun
<1> QED BY <1>2, <1>4 DEF Treats, PullAt, s, t

LEMMA PullSkipsIs ==
    ASSUME TypeInv, PullInv, PullSkipsAbsent
    PROVE  pull' \in PullRun /\ \E k \in pull.todo : pull.seen[k] = None /\ Treats(k, pull.pin.sums)
<1>1. PICK k \in pull.todo : /\ NextFile(k) /\ pull.seen[k] = None
                             /\ pull' = [pull EXCEPT !.todo = @ \ {k}]
  BY DEF PullSkipsAbsent
<1> DEFINE t == pull.todo \ {k}
<1>2. pull' = [pull EXCEPT !.todo = t] /\ t \in SUBSET Keys /\ pull \in PullRun
  BY <1>1, PullFields DEF PullInv
<1> HIDE DEF t
<1>3. /\ pull' \in PullRun /\ pull'.todo = t
      /\ UNCHANGED <<pull.pc, pull.target, pull.repin, pull.seen, pull.pin>>
  BY <1>2 DEF PullRun
<1> QED BY <1>1, <1>3 DEF Treats, NextFile, PullAt, t

LEMMA PullKeepsIs ==
    ASSUME TypeInv, PullInv, PullKeeps
    PROVE  /\ pull' \in PullRun
           /\ \E k \in pull.todo :
                 /\ Listed(k) /\ ~Contradicted(k) /\ local[k] = pull.seen[k]
                 /\ Treats(k, [pull.pin.sums EXCEPT ![k] =
                                  IF pull.repin THEN pull.seen[k] ELSE pull.pin.sums[k]])
<1>1. PICK k \in pull.todo :
          /\ NextFile(k) /\ Listed(k) /\ ~Contradicted(k)
          /\ local[k] = pull.seen[k]
          /\ pull' = [pull EXCEPT !.todo = @ \ {k},
                                  !.pin.sums[k] = IF pull.repin THEN pull.seen[k] ELSE @]
  BY DEF PullKeeps
<1> DEFINE x == IF pull.repin THEN pull.seen[k] ELSE pull.pin.sums[k]
<1>2. /\ pull \in PullRun /\ PullAt("fetch") /\ k \in Keys /\ x \in Contents \union {None}
      /\ pull' = [pull EXCEPT !.todo = @ \ {k}, !.pin.sums[k] = x]
  BY <1>1, PullFields, FilesAre DEF PullInv, NextFile
<1> HIDE DEF x
<1>3. pull' \in PullRun /\ Treats(k, [pull.pin.sums EXCEPT ![k] = x])
  BY <1>2, TreatsOne
<1> QED BY <1>1, <1>3 DEF x

LEMMA PullDownloadsIs ==
    ASSUME TypeInv, PullInv, PullDownloads
    PROVE  /\ pull' \in PullRun /\ (UNCHANGED counters \/ Fault)
           /\ \E k \in pull.todo, bytes \in Contents :
                 /\ local' = [local EXCEPT ![k] = bytes]
                 /\ Treats(k, [pull.pin.sums EXCEPT ![k] = IF Listed(k) THEN pull.seen[k] ELSE None])
<1>1. PICK k \in pull.todo, bytes \in Contents :
          /\ NextFile(k) /\ Delivered(k, bytes)
          /\ local' = [local EXCEPT ![k] = bytes]
          /\ pull' = [pull EXCEPT !.todo = @ \ {k},
                                  !.pin.sums[k] = IF Listed(k) THEN pull.seen[k] ELSE None]
  BY DEF PullDownloads
<1> DEFINE x == IF Listed(k) THEN pull.seen[k] ELSE None
<1>2. /\ pull \in PullRun /\ PullAt("fetch") /\ k \in Keys /\ x \in Contents \union {None}
      /\ pull' = [pull EXCEPT !.todo = @ \ {k}, !.pin.sums[k] = x]
  BY <1>1, PullFields, FilesAre DEF PullInv, NextFile
<1> HIDE DEF x
<1>3. pull' \in PullRun /\ Treats(k, [pull.pin.sums EXCEPT ![k] = x])
  BY <1>2, TreatsOne
<1>4. UNCHANGED counters \/ Fault
  BY <1>1 DEF Delivered
<1> QED BY <1>1, <1>3, <1>4 DEF x

LEMMA PullFetchedIs ==
    ASSUME PullInv, PullFetched
    PROVE  /\ pull' \in PullRun /\ pull'.pc = IF pull.repin THEN "record" ELSE "save"
           /\ UNCHANGED <<pull.target, pull.repin, pull.seen, pull.todo, pull.pin>>
<1> DEFINE l == IF pull.repin THEN "record" ELSE "save"
<1>1. pull \in PullRun /\ pull' = [pull EXCEPT !.pc = l] /\ l \in {"record", "save"}
  BY DEF PullInv, PullFetched
<1> HIDE DEF l
<1>2. /\ pull' \in PullRun /\ pull'.pc = l
      /\ UNCHANGED <<pull.target, pull.repin, pull.seen, pull.todo, pull.pin>>
  BY <1>1 DEF PullRun
<1> QED BY <1>2 DEF l

LEMMA PullRecordIs ==
    ASSUME PullInv, PullRecord
    PROVE  /\ pull' \in PullRun /\ pull'.pc = "save"
           /\ pull'.pin.index = pull.target /\ pull'.pin.version = pull.target
           /\ UNCHANGED <<pull.target, pull.repin, pull.seen, pull.todo, pull.pin.sums>>
<1> DEFINE p == [pull.pin EXCEPT !.index = pull.target, !.version = pull.target]
<1>1. pull \in PullRun
  BY DEF PullInv
<1>2. /\ p \in [index : Nat, version : Nat, sums : Files]
      /\ p.index = pull.target /\ p.version = pull.target /\ p.sums = pull.pin.sums
  BY <1>1, PullFields
<1>3. pull' = [pull EXCEPT !.pc = "save", !.pin = p]
  BY <1>1, PullFields DEF PullRecord, PullRun
<1> HIDE DEF p
<1>4. /\ pull' \in PullRun /\ pull'.pc = "save" /\ pull'.pin = p
      /\ UNCHANGED <<pull.target, pull.repin, pull.seen, pull.todo>>
  BY <1>1, <1>2, <1>3 DEF PullRun
<1> QED BY <1>2, <1>4

LEMMA PullRecordFailsIs ==
    ASSUME PullInv, PullRecordFails
    PROVE  /\ pull' \in PullRun /\ pull'.pc = "save" /\ faults' = faults + 1
           /\ UNCHANGED <<pull.target, pull.repin, pull.seen, pull.todo, pull.pin>>
BY DEF PullInv, PullRecordFails, PullRun, Fault

(* A pull leaves the archive and the publish run alone, and the manifest's *)
(* binding; its save moves the pins.                                       *)
LEMMA PullSaveIs ==
    ASSUME TypeInv, PullInv, PullSave
    PROVE  /\ pin' \in PinType /\ UNCHANGED <<pin.remote, pin.record>>
           /\ pin'.index = pull.pin.index /\ pin'.version = pull.pin.version
           /\ pin'.sums = pull.pin.sums /\ pull' = NoPull
<1>1. /\ pin \in PinType /\ pull.pin.index \in Nat /\ pull.pin.version \in Nat
      /\ pull.pin.sums \in Files
  BY PullFields DEF TypeInv, UserInv, PullInv
<1>2. pin' = [pin EXCEPT !.index = pull.pin.index, !.version = pull.pin.version,
                         !.sums = pull.pin.sums]
  BY DEF PullSave
<1> DEFINE i == pull.pin.index  v == pull.pin.version  s == pull.pin.sums
<1>3. /\ pin' = [pin EXCEPT !.index = i, !.version = v, !.sums = s] /\ i \in Nat /\ v \in Nat
      /\ s \in Files
  BY <1>1, <1>2
<1> HIDE DEF i, v, s
<1>4. pin' \in PinType /\ UNCHANGED <<pin.remote, pin.record>> /\ pin'.index = i /\ pin'.version = v
      /\ pin'.sums = s
  BY <1>1, <1>3 DEF PinType
<1> QED BY <1>4 DEF i, v, s, PullSave, PullEnds

LEMMA PullStepIs ==
    ASSUME TypeInv, Sound, PullInv, PullStep
    PROVE  TypeInv' /\ PullInv' /\ Aside /\ Remembers
<1> USE DEF history
<1>0. ArchiveInv /\ UserInv /\ RunInv /\ MarkInv /\ CountInv
  BY DEF TypeInv
<1>1. pull \in PullRun /\ pulls \in 0..MaxPulls
  BY DEF PullInv
<1>2. pull' \in PullRun
  BY <1>1, NoPullIs, BeginPullIs, PullResolveIs, PullListIs, PullSkipsIs, PullKeepsIs,
     PullDownloadsIs, PullFetchedIs, PullRecordIs, PullRecordFailsIs
     DEF PullStep, PullRefuses, PullSave, PullFails, PullCrash, PullEnds
<1>3. pulls' \in 0..MaxPulls
  <2>1. UNCHANGED pulls \/ (pulls < MaxPulls /\ pulls' = pulls + 1)
    BY DEF PullStep, BeginPull, PullResolve, PullList, PullSkipsAbsent, PullRefuses, PullKeeps,
           PullDownloads, PullFetched, PullRecord, PullRecordFails, PullSave, PullFails,
           PullCrash
  <2> QED BY <1>1, <2>1, PullAssumption
<1>4. At("idle") /\ pin.record # 0
  BY DEF PullInv, PullStep, PullAt, BeginPull, PullResolve, PullList, PullSkipsAbsent,
         PullRefuses, PullKeeps, NextFile, PullDownloads, PullFetched, PullRecord,
         PullRecordFails, PullSave, PullFails, PullCrash
<1>5. UNCHANGED <<versions, finalizing, draft, kept, history, run, wish>>
  BY DEF PullStep, BeginPull, PullResolve, PullList, PullSkipsAbsent, PullRefuses, PullKeeps,
         PullDownloads, PullFetched, PullRecord, PullRecordFails, PullSave, PullFails,
         PullCrash, vars, archive, user
<1>6. Ticks
  <2>1. UNCHANGED counters \/ Fault \/ PullCrash
    BY PullDownloadsIs
       DEF PullStep, BeginPull, PullResolve, PullList, PullSkipsAbsent, PullRefuses, PullKeeps,
           PullFetched, PullRecord, PullRecordFails, PullSave, PullFails, vars
  <2>2. PullCrash => Ticks
    BY <1>0 DEF PullCrash, CountInv, Ticks
  <2> QED BY <1>0, <2>1, <2>2, CountersTick
<1>7. pin' \in PinType /\ UNCHANGED <<pin.remote, pin.record>>
  <2>1. PullSave \/ UNCHANGED pin
    BY DEF PullStep, BeginPull, PullResolve, PullList, PullSkipsAbsent, PullRefuses, PullKeeps,
           PullDownloads, PullFetched, PullRecord, PullRecordFails, PullFails, PullCrash, vars,
           user
  <2> QED BY <1>0, <2>1, PullSaveIs DEF UserInv
<1>8. local' \in Files
  <2>1. ASSUME PullDownloads PROVE local' \in Files
    <3>1. PICK k \in pull.todo, bytes \in Contents : local' = [local EXCEPT ![k] = bytes]
      BY <2>1, PullDownloadsIs
    <3> QED BY <1>0, <3>1 DEF UserInv, Files
  <2>2. PullDownloads \/ UNCHANGED local
    BY DEF PullStep, BeginPull, PullResolve, PullList, PullSkipsAbsent, PullRefuses, PullKeeps,
           PullFetched, PullRecord, PullRecordFails, PullSave, PullFails, PullCrash, vars, user
  <2> QED BY <1>0, <2>1, <2>2 DEF UserInv
<1>9. TypeInv'
  BY <1>0, <1>5, <1>6, <1>7, <1>8 DEF TypeInv, ArchiveInv, UserInv, RunInv, MarkInv, Ticks
<1>10. Remembers
  BY <1>5 DEF Remembers
<1> QED BY <1>2, <1>3, <1>4, <1>5, <1>6, <1>7, <1>9, <1>10 DEF PullInv, Aside, Still, At, PullAt

(* A publish step is taken while no pull runs; what goes on beside a pull  *)
(* leaves the run and the binding.                                         *)
LEMMA TurnIs ==
    ASSUME TypeInv, Sound, PullInv, Turn \/ Around, UNCHANGED <<pull, pulls>>
    PROVE  TypeInv' /\ PullInv' /\ Turns /\ Remembers
<1>1. Next
  BY DEF Turn, Around, Next
<1>2. TypeInv' /\ Turns /\ Remembers
  BY <1>1, TurnsAre, RemembersAll
<1>3. ASSUME ~PullAt("idle") PROVE UNCHANGED <<run, pin.record>>
  <2>1. Rest \/ DataverseRelease \/ ForeignPublish \/ Edit
    BY <1>3 DEF Turn, Around
  <2>2. Edit => Beside
    BY EditIs
  <2> QED BY <2>1, <2>2
             DEF Rest, DataverseRelease, ForeignPublish, vars, user, Beside, Aside, Still
<1>4. PullInv'
  BY <1>3 DEF PullInv, PullAt, At
<1> QED BY <1>2, <1>4

(* The publish run's and the pull's variables, together.                   *)
Base == TypeInv /\ Sound /\ PullInv

LEMMA BaseInit ==
    ASSUME PullInit
    PROVE  Base
<1>1. PICK kind \in Kinds : pin = Unpinned(kind)
  BY DEF PullInit, Init
<1>2. pin \in PinType /\ pin.record = 0
  BY <1>1, FilesAre, BoundsAssumption DEF Unpinned, PinType
<1>3. ArchiveInv
  BY DEF PullInit, Init, ArchiveInv
<1>4. /\ UserInv /\ RunInv /\ MarkInv /\ CountInv
  BY <1>2, IdleIs DEF PullInit, Init, UserInv, RunInv, MarkInv, CountInv
<1>5. Sound
  BY <1>2, IdleIs DEF PullInit, Init, Sound, At, In, Deep, Drafting
<1>6. PullInv
  BY NoPullIs, PullAssumption DEF PullInit, PullInv, PullAt
<1> QED BY <1>3, <1>4, <1>5, <1>6 DEF Base, TypeInv

LEMMA BaseStep ==
    ASSUME Base, [PullNext]_pullVars
    PROVE  /\ Base' /\ Remembers
           /\ \/ Turns /\ (Turn \/ Around) /\ UNCHANGED <<pull, pulls>>
              \/ PullStep /\ Aside
              \/ UNCHANGED pullVars
<1>1. ASSUME PullStep PROVE Base' /\ Aside /\ Remembers
  <2>1. TypeInv' /\ PullInv' /\ Aside /\ Remembers
    BY <1>1, PullStepIs DEF Base
  <2> QED BY <2>1, SoundStep DEF Base
<1>2. ASSUME Turn \/ Around, UNCHANGED <<pull, pulls>> PROVE Base' /\ Turns /\ Remembers
  <2>1. TypeInv' /\ PullInv' /\ Turns /\ Remembers
    BY <1>2, TurnIs DEF Base
  <2> QED BY <2>1, SoundStep DEF Base
<1>3. ASSUME UNCHANGED pullVars PROVE Base' /\ Remembers
  BY <1>3
     DEF pullVars, vars, archive, user, history, counters, Base, TypeInv, ArchiveInv, UserInv,
         RunInv, MarkInv, CountInv, Sound, PullInv, At, In, Kind, PullAt, Remembers
<1> QED BY <1>1, <1>2, <1>3 DEF PullNext

-----------------------------------------------------------------------------
(* Every variable of the publish run and of the pull stays in its range.  *)
THEOREM TypeCorrect == PullSpec => []PullTypeOK
<1>1. PullInit => Base
  BY BaseInit
<1>2. Base /\ [PullNext]_pullVars => Base'
  BY BaseStep
<1>3. Base => PullTypeOK
  BY DEF Base, PullTypeOK, TypeOK, TypeInv, ArchiveInv, UserInv, RunInv, MarkInv, PullInv,
         PinType
<1> QED BY <1>1, <1>2, <1>3, PTL DEF PullSpec

(* The dataset has one published record besides those that went live       *)
(* unheard: of a run killed after its publish call, of one whose look at   *)
(* what the call did failed too, or of one that gave up a release.         *)
THEOREM OneRecordAlways == PullSpec => []OneRecord
<1>1. PullInit => Base /\ Single
  <2> SUFFICES ASSUME PullInit PROVE Base /\ Single
    OBVIOUS
  <2>1. Base
    BY BaseInit
  <2> QED BY <2>1, IdleIs DEF PullInit, Init, Single, At
<1>2. Base /\ Single /\ [PullNext]_pullVars => (Base /\ Single)'
  <2> SUFFICES ASSUME Base, Single, [PullNext]_pullVars PROVE Base' /\ Single'
    OBVIOUS
  <2>1. Base' /\ Remembers /\ (Turns \/ Aside \/ UNCHANGED pullVars)
    BY BaseStep
  <2>2. ASSUME UNCHANGED pullVars PROVE Single'
    BY <2>2 DEF pullVars, vars, archive, user, history, counters, Single, At
  <2> QED BY <2>1, <2>2, SingleStep DEF Base
<1>3. Base /\ Single => OneRecord
  <2> SUFFICES ASSUME Base, Single, NEW r \in Records \ unheard, NEW q \in Records \ unheard,
                      versions[r] # <<>>, versions[q] # <<>>
               PROVE  r = q
    BY DEF OneRecord
  <2>1. /\ r = pin.record \/ (run.rec = r /\ (At("poll") \/ At("pin")))
        /\ q = pin.record \/ (run.rec = q /\ (At("poll") \/ At("pin")))
    BY DEF Single
  <2>2. (At("poll") \/ At("pin")) /\ pin.record # 0 => run.rec = pin.record
    BY DEF Base, Sound, At
  <2> QED BY <2>1, <2>2 DEF Records
<1> QED BY <1>1, <1>2, <1>3, PTL DEF PullSpec

(* While no run is killed, an InvenioRDM draft no run works on was kept,   *)
(* or a failing call orphaned it before the run was ready to discard it,   *)
(* whichever and however many calls failed.                                *)
THEOREM FailureDiscardsAlways == PullSpec => []FailureDiscards
<1>1. PullInit => Base /\ Discards
  <2> SUFFICES ASSUME PullInit PROVE Base /\ Discards
    OBVIOUS
  <2>1. Base
    BY BaseInit
  <2> QED BY <2>1, IdleIs DEF PullInit, Init, Discards, At, In
<1>2. Base /\ Discards /\ [PullNext]_pullVars => (Base /\ Discards)'
  <2> SUFFICES ASSUME Base, Discards, [PullNext]_pullVars PROVE Base' /\ Discards'
    OBVIOUS
  <2>1. Base' /\ Remembers /\ (Turns \/ Aside \/ UNCHANGED pullVars)
    BY BaseStep
  <2>2. ASSUME UNCHANGED pullVars PROVE Discards'
    BY <2>2 DEF pullVars, vars, archive, user, history, counters, Discards, Calm, At, In, Kind
  <2> QED BY <2>1, <2>2, DiscardsStep DEF Base
<1>3. Base /\ Discards => FailureDiscards
  BY DEF Discards, Calm, FailureDiscards, At, In, Deep, Drafting
<1> QED BY <1>1, <1>2, <1>3, PTL DEF PullSpec

-----------------------------------------------------------------------------
(* Where nobody overlaps and no call fails that could mislead a driver, a  *)
(* run counts the versions of its record right, and only its own release   *)
(* is under way.                                                           *)
Before == Deep \union Drafting \union {"open"}
Published(r) == IF r = 0 THEN 0 ELSE Len(versions[r])

Numbers ==
    /\ PinNamesVersion
    /\ finalizing # {} => At("poll") /\ finalizing = {run.rec}
    /\ At("observe") \/ At("open") => run.prior = 0
    /\ In(Before) => /\ run.latest = Published(run.rec)
                     /\ ~run.force /\ pin.record # 0 => run.latest = pin.version
                     /\ pin.record = 0 => run.latest = 0
                     /\ ~At("open") /\ Kind = "invenio" => run.prior = run.latest
    /\ At("poll") => /\ run.latest = run.prior
                     /\ \/ Len(versions[run.rec]) = run.prior /\ run.rec \in finalizing
                        \/ Len(versions[run.rec]) = run.prior + 1 /\ finalizing = {}
    /\ At("pin") => run.index = run.latest + 1 /\ Len(versions[run.rec]) = run.index
Numbered == Undisturbed /\ ~Overlap => Numbers

PullNumbers ==
    ~PullAt("idle") => /\ pull.pin.version = pull.pin.index
                       /\ pull.pin.index \in 1..Len(versions[pin.record])
                       /\ pull.target \in 1..Len(versions[pin.record])
PullNumbered == Undisturbed /\ ~Overlap => PullNumbers

LEMMA UndisturbedBefore ==
    ASSUME CountInv, Ticks, Kind' = Kind, Undisturbed'
    PROVE  /\ Undisturbed
           /\ Kind = "dataverse" => crashes' = crashes
           /\ Kind \in {"figshare", "dataverse"} => faults' = faults
BY DEF CountInv, Ticks, Undisturbed

LEMMA NumberedStep ==
    ASSUME TypeInv, Sound, Numbered, Turns
    PROVE  Numbered'
<1> USE DEF At, In, history
<1> SUFFICES ASSUME Undisturbed', ~Overlap
             PROVE  Numbers'
  BY DEF Numbered
<1>0. /\ ArchiveInv /\ CountInv /\ \A r \in Records : r # 0
      /\ \A r \in Records : /\ Len(versions[r]) \in Nat
                             /\ versions[r] # <<>> => Len(versions[r]) \in 1..Len(versions[r])
  BY LatestIs DEF TypeInv, Records
<1>1. /\ Kind = "dataverse" => crashes' = crashes
      /\ Kind \in {"figshare", "dataverse"} => faults' = faults
      /\ Numbers
  BY <1>0, TurnsTick, UndisturbedBefore DEF Numbered
<1>2. /\ faults \in Nat /\ crashes \in Nat
      /\ pin.record # 0 => pin.record \in Records /\ versions[pin.record] # <<>>
      /\ run.rec # 0 => run.rec \in Records
      /\ At("poll") \/ At("pin") \/ In(Deep) \/ In(Drafting) => run.rec \in Records
      /\ At("poll") => Kind = "dataverse"
      /\ At("observe") \/ At("open") => run.rec = pin.record
      /\ At("observe") => run.latest = 0
      /\ ~At("idle") /\ pin.record # 0 => run.rec = pin.record
      /\ pin.index \in Nat /\ pin.version \in Nat
  <2>1. /\ faults \in Nat /\ crashes \in Nat
        /\ pin.index \in Nat /\ pin.version \in Nat /\ pin.record \in 0..MaxRecords
        /\ run.rec \in 0..MaxRecords
    BY DEF CountInv, TypeInv, UserInv, PinType, RunInv, Run
  <2>2. run.rec # 0 => run.rec \in Records
    BY ValuesAre
  <2> QED BY <2>1, <2>2, ValuesAre DEF Sound
<1>4. CASE Starts
  BY <1>1, <1>2, <1>4 DEF Starts, Still, Numbers, PinNamesVersion, Before, Deep, Drafting
<1>5. CASE Looks
  <2>1. run.rec # 0 /\ ~run.force => Len(versions[run.rec]) = pin.version
    BY <1>0, <1>1, <1>2, <1>5 DEF Looks, Numbers, PinNamesVersion
  <2> QED BY <1>1, <1>2, <1>5, <2>1
             DEF Looks, Still, Numbers, PinNamesVersion, Before, Deep, Drafting, Published
<1>6. CASE Works
  <2>1. /\ PinNamesVersion' /\ In(Before) /\ In(Before)' /\ ~At("open")
        /\ UNCHANGED <<versions, finalizing, pin.record, pin.version, run.rec, run.latest,
                       run.prior, run.force>>
    BY <1>1, <1>6 DEF Works, Still, Numbers, PinNamesVersion, Before, Deep, Drafting
  <2>2. Published(run.rec)' = Published(run.rec) /\ Kind' = Kind
    BY <2>1, TurnsTick, <1>6 DEF Published, Turns
  <2>3. ~At("poll") /\ ~At("poll")' /\ ~At("pin")' /\ ~At("observe")' /\ ~At("open")'
    BY <1>6 DEF Works, Deep, Drafting
  <2> QED BY <1>1, <2>1, <2>2, <2>3 DEF Numbers
<1>7. CASE Ends
  BY <1>0, <1>1, <1>2, <1>7, QuitIs
     DEF Ends, Still, Numbers, PinNamesVersion, Before, Deep, Drafting
<1>8. CASE OpensNext
  <2>1. /\ PinNamesVersion' /\ run.prior = 0 /\ run.latest = Len(versions[run.rec])
        /\ run.rec # 0
        /\ ~run.force /\ pin.record # 0 => run.latest = pin.version
        /\ pin.record # 0
        /\ finalizing = {}
    BY <1>0, <1>1, <1>2, <1>8 DEF OpensNext, Still, Numbers, PinNamesVersion, Before, Published
  <2>2. Kind' = Kind /\ Published(run.rec)' = Len(versions[run.rec])
    BY <1>8, <2>1 DEF OpensNext, Still, Published, Kind
  <2>3. /\ run'.pc \in {"import", "apply"}
        /\ (Kind = "invenio" => run'.prior = Len(versions[run.rec]))
    BY <1>8 DEF OpensNext
  <2> QED BY <1>8, <2>1, <2>2, <2>3 DEF OpensNext, Still, Numbers
<1>9. CASE Publishes
  <2>1. /\ versions' = [versions EXCEPT ![run.rec] = Append(@, draft[run.rec])]
        /\ run.rec \in Records /\ draft[run.rec] \in Files
    BY <1>9 DEF Publishes
  <2>2. /\ Len(versions'[run.rec]) = Len(versions[run.rec]) + 1
        /\ \A q \in Records \ {run.rec} : versions'[q] = versions[q]
    BY <1>0, <2>1, ReleasedIs
  <2>3. PinNamesVersion'
    BY <1>0, <1>1, <1>2, <1>9, <2>1, <2>2 DEF Publishes, Numbers, PinNamesVersion
  <2>4. finalizing' = {} /\ run.latest = Len(versions[run.rec])
    BY <1>0, <1>1, <1>9, <2>1 DEF Publishes, Numbers, Before, Drafting, Published
  <2> QED BY <1>9, <2>2, <2>3, <2>4 DEF Publishes, Numbers, Before, Deep, Drafting
<1>10. CASE Finds
  BY <1>0, <1>1, <1>2, <1>10
     DEF Finds, Still, Numbers, PinNamesVersion, Before, Deep, Drafting, Published
<1>11. CASE Asks
  BY <1>0, <1>1, <1>2, <1>11
     DEF Asks, Numbers, PinNamesVersion, Before, Deep, Drafting, Published
<1>12. CASE Repins
  BY <1>0, <1>1, <1>2, <1>12, QuitIs
     DEF Repins, Still, Numbers, PinNamesVersion, Before, Deep, Drafting
<1>13. CASE Pins
  <2>1. /\ pin'.record = run.rec /\ pin'.index = run.index /\ pin'.version = run.latest + 1
        /\ UNCHANGED <<versions, finalizing>> /\ run'.pc = "idle"
    BY <1>13, QuitIs DEF Pins
  <2>2. run.index = run.latest + 1 /\ Len(versions[run.rec]) = run.index /\ run.rec \in Records
        /\ versions[run.rec] # <<>> /\ finalizing = {}
    BY <1>1, <1>2, <1>13 DEF Pins, Numbers, Sound
  <2>3. PinNamesVersion'
    BY <1>0, <2>1, <2>2 DEF PinNamesVersion
  <2> QED BY <2>1, <2>2, <2>3 DEF Numbers, Before, Deep, Drafting
<1>14. CASE Beside
  BY <1>1, <1>2, <1>14
     DEF Beside, Aside, Still, Numbers, PinNamesVersion, Before, Published, Kind
<1>15. ASSUME NEW r \in Records, OpensNew(r) PROVE Numbers'
  BY <1>0, <1>1, <1>2, <1>15
     DEF OpensNew, Still, Numbers, PinNamesVersion, Before, Deep, Drafting, Published
<1>16. ASSUME NEW r \in Records, Releases(r) PROVE Numbers'
  <2>1. At("poll") /\ run.rec = r /\ finalizing' = {} /\ Kind = "dataverse"
    BY <1>1, <1>2, <1>16 DEF Releases, Numbers
  <2>2. draft[r] \in Files /\ versions' = [versions EXCEPT ![r] = Append(@, draft[r])]
    BY <1>16 DEF Releases, Sound
  <2>3. /\ Len(versions'[r]) = Len(versions[r]) + 1
        /\ \A q \in Records \ {r} : versions'[q] = versions[q]
    BY <1>0, <2>2, ReleasedIs
  <2>4. PinNamesVersion'
    BY <1>0, <1>1, <1>2, <1>16, <2>3 DEF Releases, Numbers, PinNamesVersion
  <2>5. run.latest = run.prior /\ Len(versions[r]) = run.prior
    BY <1>1, <1>16, <2>1 DEF Releases, Numbers
  <2> QED BY <1>0, <1>16, <2>1, <2>3, <2>4, <2>5 DEF Releases, Numbers, Before, Deep, Drafting
<1>17. ASSUME NEW r \in Records, NEW f \in Files, Intrudes(r, f) PROVE Numbers'
  BY <1>0, <1>1, <1>2, <1>17, ReleasedIs
     DEF Intrudes, Numbers, PinNamesVersion, Before, Deep, Drafting
<1>18. ASSUME NEW r \in Records, Slips(r) PROVE Numbers'
  BY <1>1, <1>18, QuitIs
     DEF Slips, Still, Numbers, PinNamesVersion, Before, Deep, Drafting
<1>19. CASE Misses
  <2>1. /\ versions' = [versions EXCEPT ![run.rec] = Append(@, draft[run.rec])]
        /\ run.rec \in Records /\ draft[run.rec] \in Files
        /\ UNCHANGED <<pin, finalizing>> /\ run'.pc = "idle"
    BY <1>19, QuitIs DEF Misses
  <2>2. /\ Len(versions'[run.rec]) = Len(versions[run.rec]) + 1
        /\ \A q \in Records \ {run.rec} : versions'[q] = versions[q]
    BY <1>0, <2>1, ReleasedIs
  <2>3. PinNamesVersion'
    BY <1>0, <1>1, <1>2, <2>1, <2>2 DEF Numbers, PinNamesVersion
  <2>4. finalizing' = {}
    BY <1>1, <1>19, <2>1 DEF Misses, Numbers
  <2> QED BY <2>1, <2>3, <2>4 DEF Numbers, Before, Deep, Drafting
<1> QED BY <1>4, <1>5, <1>6, <1>7, <1>8, <1>9, <1>10, <1>11, <1>12, <1>13, <1>14, <1>15, <1>16,
           <1>17, <1>18, <1>19
           DEF Turns

(* The archive only adds versions, and a pull's versions stay there.       *)
LEMMA GrowsAround ==
    ASSUME TypeInv, Sound, Around
    PROVE  /\ UNCHANGED <<pin.remote, pin.record>>
           /\ \A q \in Records : /\ Len(versions[q]) \in Nat /\ Len(versions'[q]) \in Nat
                                 /\ Len(versions[q]) <= Len(versions'[q])
                                 /\ \A i \in 1..Len(versions[q]) : versions'[q][i] = versions[q][i]
<1>0. ArchiveInv
  BY DEF TypeInv
<1>1. \A q \in Records : Len(versions[q]) \in Nat
  BY <1>0, LatestIs
<1>2. ASSUME UNCHANGED <<versions, pin.remote, pin.record>>
      PROVE  /\ UNCHANGED <<pin.remote, pin.record>>
             /\ \A q \in Records : /\ Len(versions[q]) \in Nat /\ Len(versions'[q]) \in Nat
                                   /\ Len(versions[q]) <= Len(versions'[q])
                                   /\ \A i \in 1..Len(versions[q]) :
                                         versions'[q][i] = versions[q][i]
  BY <1>1, <1>2
<1>3. ASSUME NEW r \in Records, NEW f \in Files, versions' = [versions EXCEPT ![r] = Append(@, f)],
             UNCHANGED pin
      PROVE  /\ UNCHANGED <<pin.remote, pin.record>>
             /\ \A q \in Records : /\ Len(versions[q]) \in Nat /\ Len(versions'[q]) \in Nat
                                   /\ Len(versions[q]) <= Len(versions'[q])
                                   /\ \A i \in 1..Len(versions[q]) :
                                         versions'[q][i] = versions[q][i]
  BY <1>0, <1>1, <1>3, ReleasedIs
<1>4. CASE DataverseRelease
  <2>1. PICK r \in Records : Releases(r)
    BY <1>4, ReleaseIs
  <2>2. /\ draft[r] \in Files /\ versions' = [versions EXCEPT ![r] = Append(@, draft[r])]
        /\ UNCHANGED pin
    BY <2>1 DEF Releases, Sound
  <2> QED BY <1>3, <2>2
<1>5. CASE ForeignPublish
  <2>1. PICK r \in Records, f \in Files : Intrudes(r, f)
    BY <1>5, ForeignIs
  <2> QED BY <1>3, <2>1 DEF Intrudes
<1>6. CASE Edit
  BY <1>2, <1>6, EditIs DEF Beside, Aside, Still
<1>7. CASE Rest
  BY <1>2, <1>7 DEF Rest, vars, archive, user
<1> QED BY <1>4, <1>5, <1>6, <1>7 DEF Around

LEMMA PullNumbersStep ==
    ASSUME Base, PullNumbers, PinNamesVersion, PullStep, Aside
    PROVE  PullNumbers'
<1> USE DEF PullAt
<1>0. /\ pull \in PullRun /\ pin.record # 0 /\ pin.record \in Records /\ versions' = versions
      /\ pin'.record = pin.record
      /\ Len(versions[pin.record]) \in Nat /\ versions[pin.record] # <<>> /\ ArchiveInv
  BY PullStepIs, ValuesAre
     DEF Base, PullInv, PullStep, BeginPull, PullResolve, PullList, PullSkipsAbsent,
         PullRefuses, PullKeeps, NextFile, PullDownloads, PullFetched, PullRecord,
         PullRecordFails, PullSave, PullFails, PullCrash, Aside, Still, Sound, TypeInv
<1>1. Len(versions[pin.record]) \in 1..Len(versions[pin.record])
  BY <1>0, LatestIs
<1>2. CASE BeginPull
  BY <1>0, <1>2, BeginPullIs DEF PullNumbers, PinNamesVersion, Base
<1>3. CASE PullResolve
  BY <1>0, <1>1, <1>3, PullResolveIs DEF PullNumbers, Base, PullResolve
<1>4. CASE PullList
  BY <1>0, <1>4, PullListIs, NoPullIs DEF PullNumbers, Base, PullList
<1>5. CASE PullSkipsAbsent
  BY <1>0, <1>5, PullSkipsIs DEF PullNumbers, Base, PullSkipsAbsent, NextFile, Treats
<1>6. CASE PullKeeps
  BY <1>0, <1>6, PullKeepsIs DEF PullNumbers, Base, PullKeeps, NextFile, Treats
<1>7. CASE PullDownloads
  BY <1>0, <1>7, PullDownloadsIs DEF PullNumbers, Base, PullDownloads, NextFile, Treats
<1>8. CASE PullFetched
  BY <1>0, <1>8, PullFetchedIs DEF PullNumbers, Base, PullFetched
<1>9. CASE PullRecord
  BY <1>0, <1>9, PullRecordIs DEF PullNumbers, Base, PullRecord
<1>10. CASE PullRecordFails
  BY <1>0, <1>10, PullRecordFailsIs DEF PullNumbers, Base, PullRecordFails
<1>11. CASE PullRefuses \/ PullSave \/ PullFails \/ PullCrash
  BY <1>11, NoPullIs DEF PullNumbers, PullRefuses, PullSave, PullFails, PullCrash, PullEnds
<1> QED BY <1>2, <1>3, <1>4, <1>5, <1>6, <1>7, <1>8, <1>9, <1>10, <1>11 DEF PullStep

LEMMA NumberedNext ==
    ASSUME Base, Numbered, PullNumbered, [PullNext]_pullVars
    PROVE  Numbered' /\ PullNumbered'
<1>0. /\ TypeInv /\ Sound /\ PullInv /\ CountInv
      /\ \/ Turns /\ (Turn \/ Around) /\ UNCHANGED <<pull, pulls>>
         \/ PullStep /\ Aside
         \/ UNCHANGED pullVars
  BY BaseStep DEF Base, TypeInv
<1>1. ASSUME Turns, Turn \/ Around, UNCHANGED <<pull, pulls>>
      PROVE  Numbered' /\ PullNumbered'
  <2>1. Numbered'
    BY <1>0, <1>1, NumberedStep
  <2>2. ASSUME Undisturbed', ~Overlap, ~PullAt("idle")
        PROVE  PullNumbers'
    <3>1. Around /\ pin.record \in Records /\ PullNumbers
      <4>1. Undisturbed
        BY <1>0, <1>1, <2>2, TurnsTick, UndisturbedBefore
      <4> QED BY <1>0, <1>1, <2>2, <4>1, ValuesAre DEF Turn, PullInv, PullNumbered
    <3>2. /\ pin'.record = pin.record /\ pull' = pull
          /\ Len(versions[pin.record]) \in Nat /\ Len(versions'[pin.record]) \in Nat
          /\ Len(versions[pin.record]) <= Len(versions'[pin.record])
      BY <1>0, <1>1, <3>1, GrowsAround
    <3> QED BY <2>2, <3>1, <3>2 DEF PullNumbers, PullAt
  <2> QED BY <1>1, <2>1, <2>2 DEF PullNumbered, PullNumbers, PullAt
<1>2. ASSUME PullStep, Aside
      PROVE  Numbered' /\ PullNumbered'
  <2> SUFFICES ASSUME Undisturbed', ~Overlap PROVE Numbers' /\ PullNumbers'
    BY DEF Numbered, PullNumbered
  <2>1. Undisturbed
    BY <1>0, <1>2, TurnsTick, UndisturbedBefore
  <2>2. Numbers /\ PullNumbers
    BY <2>1 DEF Numbered, PullNumbered
  <2>3. PullNumbers'
    BY <1>2, <2>2, PullNumbersStep DEF Numbers
  <2>4. CASE PullSave
    <3>1. PinNamesVersion'
      BY <1>0, <1>2, <2>2, <2>4, PullSaveIs
         DEF PullNumbers, PinNamesVersion, Aside, Still, PullSave, PullAt
    <3>2. At("idle") /\ At("idle")'
      BY <1>0, <1>2, <2>4 DEF PullInv, PullSave, PullAt, At, Aside
    <3> QED BY <1>2, <2>2, <2>3, <3>1, <3>2
               DEF Numbers, Aside, Still, At, In, Before, Deep, Drafting
  <2>5. CASE ~PullSave
    <3>1. UNCHANGED pin
      BY <1>2, <2>5
         DEF PullStep, BeginPull, PullResolve, PullList, PullSkipsAbsent, PullRefuses,
             PullKeeps, PullDownloads, PullFetched, PullRecord, PullRecordFails, PullFails,
             PullCrash, vars, user
    <3>2. Turns
      BY <1>2, <3>1 DEF Turns, Beside
    <3>3. Numbered'
      BY <1>0, <3>2, NumberedStep
    <3> QED BY <2>3, <3>3 DEF Numbered
  <2> QED BY <2>4, <2>5
<1>3. ASSUME UNCHANGED pullVars
      PROVE  Numbered' /\ PullNumbered'
  <2>1. UNCHANGED <<pull, pin, versions, finalizing, run, crashes, faults>>
    BY <1>3 DEF pullVars, vars, archive, user, counters
  <2> QED BY <2>1
             DEF Numbered, PullNumbered, Numbers, PullNumbers, PinNamesVersion, Undisturbed,
                 Kind, At, In, Published, PullAt
<1> QED BY <1>0, <1>1, <1>2, <1>3

LEMMA NumberedInit ==
    ASSUME PullInit
    PROVE  Numbered /\ PullNumbered
<1>1. Base
  BY BaseInit
<1>2. PICK kind \in Kinds : pin = Unpinned(kind)
  BY DEF PullInit, Init
<1> QED BY <1>2, IdleIs, NoPullIs
           DEF PullInit, Init, Unpinned, Numbered, Numbers, PullNumbered, PullNumbers,
               PinNamesVersion, At, In, Before, Deep, Drafting, PullAt

(* Where nobody overlaps, and calls that fail and runs that die cannot     *)
(* mislead the driver, the pinned number and id name one version.          *)
THEOREM PinNamesVersionAlways ==
    ASSUME ~Overlap
    PROVE  PullSpec => []PinNamesVersionUndisturbed
<1>1. PullInit => Base /\ Numbered /\ PullNumbered
  BY BaseInit, NumberedInit
<1>2. Base /\ Numbered /\ PullNumbered /\ [PullNext]_pullVars => (Base /\ Numbered /\ PullNumbered)'
  BY BaseStep, NumberedNext
<1>3. Numbered => PinNamesVersionUndisturbed
  BY DEF Numbered, Numbers, PinNamesVersionUndisturbed
<1> QED BY <1>1, <1>2, <1>3, PTL DEF PullSpec

(* Where nobody overlaps, a run without --force publishes on top of the    *)
(* version its manifest has pinned.                                        *)
THEOREM GateHoldsAlways ==
    ASSUME ~Overlap
    PROVE  PullSpec => GateHolds
<1> DEFINE Gate ==
      \A r \in Records :
          (At("publish") /\ run.rec = r /\ ~run.force
             /\ versions'[r] # versions[r] /\ foreign' = foreign /\ Undisturbed)
          => Len(versions[r]) = IF pin.record = r THEN pin.version ELSE 0
<1>1. PullInit => Base /\ Numbered /\ PullNumbered
  BY BaseInit, NumberedInit
<1>2. Base /\ Numbered /\ PullNumbered /\ [PullNext]_pullVars => (Base /\ Numbered /\ PullNumbered)'
  BY BaseStep, NumberedNext
<1>3. Base /\ Numbered => Gate
  <2> SUFFICES ASSUME Base, Numbered, NEW r \in Records, At("publish"), run.rec = r, ~run.force,
                      Undisturbed
               PROVE  Len(versions[r]) = IF pin.record = r THEN pin.version ELSE 0
    OBVIOUS
  <2>1. /\ run.latest = Published(run.rec)
        /\ pin.record # 0 => run.latest = pin.version
        /\ pin.record = 0 => run.latest = 0
    BY DEF Numbered, Numbers, In, Before, Drafting, At
  <2>2. r # 0 /\ (pin.record # 0 => run.rec = pin.record)
    BY DEF Base, Sound, At, Records
  <2> QED BY <2>1, <2>2 DEF Published
<1>4. Gate => [Gate]_vars
  OBVIOUS
<1> QED BY <1>1, <1>2, <1>3, <1>4, PTL DEF PullSpec, GateHolds

-----------------------------------------------------------------------------
(* What an InvenioRDM run has put into its draft by each of its places:    *)
(* every key it is through with has the content the run hashed, but for    *)
(* those of which an unverified upload once sent other bytes.              *)
Filled == Kind = "invenio" =>
    /\ At("open") => run.seen = IF run.rec = 0 THEN NoFiles ELSE Latest(run.rec)
    /\ In(Deep) => run.seen = Latest(run.rec)
    /\ At("open") \/ At("import") \/ At("reimport") => run.todo = Work(run.sums, run.seen)
    /\ In(Drafting) => draft[run.rec] # NoDraft
    /\ In(Drafting) /\ ~At("discard") =>
          \A k \in Keys \ (run.todo \union swapped) : draft[run.rec][k] = run.sums[k]
    /\ At("preflight") \/ At("reserve") \/ At("publish") => run.todo = {}
    /\ At("pin") => /\ run.index \in 1..Len(versions[run.rec])
                    /\ \A k \in Keys \ swapped : versions[run.rec][run.index][k] = run.sums[k]

LEMMA WorkIs ==
    ASSUME NEW f \in Files, NEW g \in Files
    PROVE  /\ Work(f, g) = {k \in Keys : f[k] # g[k]}
           /\ \A k \in Keys : Action(f[k], g[k]) = "remove" => f[k] = None
           /\ Work(f, g) = {} => f = g
<1>1. \A k \in Keys : Action(f[k], g[k]) # "keep" <=> f[k] # g[k]
  BY DEF Action
<1>2. Work(f, g) = {k \in Keys : f[k] # g[k]}
  BY <1>1 DEF Work
<1>3. \A k \in Keys : Action(f[k], g[k]) = "remove" => f[k] = None
  BY DEF Action
<1>4. Work(f, g) = {} => f = g
  BY <1>2 DEF Files
<1> QED BY <1>2, <1>3, <1>4

LEMMA FilledWorks ==
    ASSUME TypeInv, Sound, Kind = "invenio", Filled, Works, DraftStep, Remembers
    PROVE  Filled'
<1> USE DEF At, In
<1>0. /\ run \in Run /\ run.rec \in Records /\ run.todo \subseteq Keys
      /\ run.rec \notin finalizing
      /\ run.sums \in Files /\ run.seen \in Files /\ ArchiveInv /\ local \in Files
      /\ draft[run.rec] \in DraftFiles \union {NoDraft}
  <2>1. run.rec \in Records
    BY ValuesAre DEF Works
  <2>2. finalizing = {}
    BY DEF Sound
  <2> QED BY <2>1, <2>2, ValuesAre, LatestIs DEF TypeInv, RunInv, UserInv
<1>1. /\ UNCHANGED <<run.sums, run.rec, run.seen, versions>>
      /\ In(Deep) \/ In(Drafting)
      /\ In(Drafting) => run'.pc \in Drafting
      /\ run'.pc \in Deep \union Drafting /\ run'.pc # "import"
      /\ draft'[run.rec] = NoDraft <=> draft[run.rec] = NoDraft
      /\ swapped \subseteq swapped'
  BY DEF Works, Still, Remembers
<1>2. ASSUME UNCHANGED <<draft, run.todo>>,
             run'.pc \in {"reserve", "publish", "preflight"} => run.todo = {},
             In(Drafting), run'.pc \in Drafting, ~At("discard")
      PROVE  Filled'
  BY <1>1, <1>2 DEF Filled, Deep, Drafting, Kind
<1>3. ASSUME run'.pc \in {"clear", "reimport"}, In(Deep),
             run'.pc = "reimport" => run'.todo = Work(run.sums, run.seen)
      PROVE  Filled'
  <2>1. run'.seen = Latest(run.rec)'
    BY <1>1, <1>3 DEF Filled, Latest
  <2> QED BY <1>1, <1>3, <2>1 DEF Filled, Deep, Drafting
<1>4. ASSUME In(Drafting), run'.pc \in {"apply", "upload", "commit"}, draft[run.rec] # NoDraft,
             \A k \in Keys \ (run'.todo \union swapped') : draft'[run.rec][k] = run.sums[k]
      PROVE  Filled'
  BY <1>1, <1>4 DEF Filled, Deep, Drafting
<1>5. ASSUME NEW k \in run.todo, NEW x \in Contents \union {None, Pending},
             In(Drafting), ~At("discard"), draft[run.rec] # NoDraft,
             draft' = [draft EXCEPT ![run.rec][k] = x],
             run'.pc \in {"apply", "upload", "commit"},
             \/ run'.todo = run.todo
             \/ run'.todo = run.todo \ {k} /\ (x = run.sums[k] \/ k \in swapped')
      PROVE  Filled'
  <2>1. /\ draft'[run.rec][k] = x
        /\ \A j \in Keys \ {k} : draft'[run.rec][j] = draft[run.rec][j]
    BY <1>0, <1>5 DEF ArchiveInv, DraftFiles
  <2>2. \A j \in Keys \ (run.todo \union swapped) : draft[run.rec][j] = run.sums[j]
    BY <1>5 DEF Filled
  <2>3. \A j \in Keys \ (run'.todo \union swapped') : draft'[run.rec][j] = run.sums[j]
    BY <1>0, <1>1, <1>5, <2>1, <2>2
  <2> QED BY <1>4, <1>5, <2>3
<1>6. CASE Import
  <2>1. /\ run'.pc = "apply" /\ run'.todo = run.todo
        /\ draft[run.rec] = NoFiles
        /\ draft'[run.rec] = Latest(run.rec)
    BY <1>0, <1>6, GotoIs, LabelsAre DEF Import, ArchiveInv
  <2>2. run.todo = Work(run.sums, run.seen) /\ run.seen = Latest(run.rec)
    BY <1>6 DEF Import, Filled, Deep
  <2>3. \A k \in Keys \ run'.todo : draft'[run.rec][k] = run.sums[k]
    BY <1>0, <2>1, <2>2, WorkIs
  <2>4. draft'[run.rec] # NoDraft
    BY <1>1, <2>1, FilesAre
  <2> QED BY <1>1, <2>1, <2>3, <2>4 DEF Filled, Deep, Drafting
<1>7. CASE ImportRefused \/ ImportFault
  <2>1. run'.pc = "clear"
    BY <1>0, <1>7, TreatIs, LabelsAre, PlansAre DEF ImportRefused, ImportFault
  <2> QED BY <1>3, <1>7, <2>1 DEF ImportRefused, ImportFault, Deep
<1>8. CASE ClearFile
  <2>1. run'.pc = "clear"
    BY <1>0, <1>8, TreatIs, LabelsAre DEF ClearFile
  <2> QED BY <1>3, <1>8, <2>1 DEF ClearFile, Deep
<1>9. CASE Cleared
  <2>1. run'.pc = "reimport" /\ run'.todo = Work(run.sums, run.seen)
    BY <1>0, <1>9, TreatIs, LabelsAre, PlansAre DEF Cleared
  <2> QED BY <1>3, <1>9, <2>1 DEF Cleared, Deep
<1>10. CASE Remove
  <2>1. PICK k \in run.todo :
            /\ Now(k) /\ Act(k) \in {"remove", "replace"} /\ run.rec \notin finalizing
            /\ draft' = IF Open THEN [draft EXCEPT ![run.rec][k] = None] ELSE draft
            /\ IF Act(k) = "remove" THEN Done(k) ELSE Goto("upload")
    BY <1>10 DEF Remove
  <2>2. draft[run.rec] # NoDraft /\ Open /\ run.pc = "apply"
    BY <1>0, <2>1 DEF Filled, Now, Open, Drafting
  <2>3. Act(k) = "remove" => run.sums[k] = None
    BY <1>0, WorkIs DEF Act
  <2>4. /\ run'.pc \in {"apply", "upload"}
        /\ run'.todo = run.todo \/ (run'.todo = run.todo \ {k} /\ None = run.sums[k])
    BY <1>0, <2>1, <2>3, GotoIs, TreatIs, LabelsAre DEF Done
  <2> QED BY <1>5, <2>1, <2>2, <2>4 DEF Drafting
<1>11. CASE InvenioRegister
  <2>1. PICK k \in run.todo : Uploading(k) /\ draft' = [draft EXCEPT ![run.rec][k] = Pending]
    BY <1>11 DEF InvenioRegister
  <2>2. run'.pc = "commit" /\ run'.todo = run.todo
    BY <1>0, <1>11, GotoIs, LabelsAre DEF InvenioRegister
  <2>3. run.pc \in {"apply", "upload"} /\ draft[run.rec] # NoDraft
    BY <2>1 DEF Uploading, Now, Open
  <2> QED BY <1>5, <2>1, <2>2, <2>3 DEF Drafting
<1>12. CASE Commit
  <2>1. PICK k \in run.todo :
            /\ draft' = [draft EXCEPT ![run.rec][k] = local[k]]
            /\ IF local[k] = run.sums[k] \/ ~Verified(k) THEN Done(k) ELSE Fails
            /\ swapped' = IF local[k] = run.sums[k] \/ Verified(k) THEN swapped
                                                                 ELSE swapped \union {k}
    BY <1>12 DEF Commit
  <2>2. /\ run.pc = "commit" /\ draft[run.rec] # NoDraft
        /\ local[k] \in Contents \union {None, Pending}
    BY <1>0, <1>12 DEF Commit, Open, Files
  <2>3. CASE local[k] = run.sums[k] \/ ~Verified(k)
    <3>1. run'.pc = "apply" /\ run'.todo = run.todo \ {k}
      BY <1>0, <2>1, <2>3, TreatIs, LabelsAre DEF Done
    <3>2. local[k] = run.sums[k] \/ k \in swapped'
      BY <2>1, <2>3
    <3> QED BY <1>5, <2>1, <2>2, <3>1, <3>2 DEF Drafting
  <2>4. CASE ~(local[k] = run.sums[k] \/ ~Verified(k))
    <3>1. run'.pc = "discard"
      BY <1>0, <1>1, <2>1, <2>4, GotoIs, LabelsAre, QuitIs DEF Fails, Deep, Drafting
    <3> QED BY <1>1, <2>2, <3>1 DEF Filled, Deep, Drafting
  <2> QED BY <2>3, <2>4
<1>13. CASE Applied
  <2>1. run'.pc = "preflight" /\ run'.todo = run.todo /\ run.todo = {}
    BY <1>0, <1>13, GotoIs, LabelsAre DEF Applied
  <2> QED BY <1>2, <1>13, <2>1 DEF Applied, archive, Drafting
<1>14. CASE Preflight
  <2>1. /\ run'.pc \in {"reserve", "publish"} /\ run'.todo = run.todo /\ run.todo = {}
        /\ draft[run.rec] # NoDraft
    BY <1>0, <1>14, GotoIs, LabelsAre DEF Preflight, Filled, Open
  <2>2. \A k \in Keys \ swapped : draft[run.rec][k] = run.sums[k]
    BY <1>14, <2>1 DEF Filled, Preflight, Drafting
  <2>3. \A k \in Keys \ swapped : draft'[run.rec][k] = run.sums[k]
    BY <1>0, <1>14, <2>2, FilesAre DEF Preflight, ArchiveInv
  <2> QED BY <1>1, <2>1, <2>3 DEF Filled, Deep, Drafting
<1>15. CASE CallFails \/ DraftRefuses
  <2>1. run'.pc = "discard" /\ In(Drafting)
    BY <1>0, <1>1, <1>15, GotoIs, LabelsAre, QuitIs
       DEF CallFails, DraftRefuses, Editing, Fails, Deep, Drafting
  <2> QED BY <1>1, <2>1 DEF Filled, Deep, Drafting
<1> QED BY <1>6, <1>7, <1>8, <1>9, <1>10, <1>11, <1>12, <1>13, <1>14, <1>15
           DEF DraftStep, FigshareDropExisting, FigshareInitiate, DataverseDropExisting,
               DataverseAdd

LEMMA FilledStep ==
    ASSUME ~Overlap, TypeInv, Sound, Filled, Turns \/ Aside, Remembers
    PROVE  Filled'
<1> USE DEF At, In
<1> SUFFICES ASSUME Kind = "invenio" PROVE Filled'
  BY TurnsTick DEF Filled
<1>0. /\ ArchiveInv /\ finalizing = {} /\ run.sums \in Files
      /\ In(Deep) \/ In(Drafting) => run.rec \in Records
      /\ swapped \subseteq swapped'
  BY ValuesAre DEF Sound, TypeInv, Remembers
<1>1. CASE Aside
  BY <1>0, <1>1 DEF Aside, Still, Filled, Latest, Kind
<1>2. CASE Starts
  BY <1>2 DEF Starts, Filled, Deep, Drafting
<1>3. CASE Looks
  <2>1. /\ run'.pc = "open" /\ run'.rec = run.rec /\ run'.sums = run.sums /\ versions' = versions
        /\ run'.seen = IF run.rec = 0 THEN NoFiles ELSE Latest(run.rec)
        /\ run'.todo = Work(run.sums, run'.seen)
    BY <1>3 DEF Looks, Still
  <2> QED BY <2>1 DEF Filled, Deep, Drafting, Latest
<1>4. CASE Works /\ DraftStep
  BY <1>4, FilledWorks
<1>5. CASE Ends \/ Repins \/ Pins \/ Misses
  BY <1>5, QuitIs DEF Ends, Repins, Pins, Misses, Filled, Deep, Drafting
<1>6. CASE OpensNext
  <2>1. /\ run'.pc = "import" /\ run.pc = "open" /\ run.rec # 0 /\ versions' = versions
        /\ UNCHANGED <<run.rec, run.sums, run.seen, run.todo>>
    BY <1>6 DEF OpensNext, Still, Records
  <2> QED BY <2>1 DEF Filled, Deep, Drafting, Latest
<1>7. CASE Publishes
  <2>1. /\ run.todo = {}
        /\ \A k \in Keys \ swapped : draft[run.rec][k] = run.sums[k]
        /\ run.rec \in Records /\ draft[run.rec] \in Files
    BY <1>7 DEF Publishes, Filled, Drafting
  <2>3. versions' = [versions EXCEPT ![run.rec] = Append(@, draft[run.rec])]
    BY <1>7 DEF Publishes
  <2>4. /\ Len(versions'[run.rec]) = Len(versions[run.rec]) + 1
        /\ versions'[run.rec][Len(versions[run.rec]) + 1] = draft[run.rec]
        /\ Len(versions[run.rec]) \in Nat
    BY <1>0, <2>1, <2>3, ReleasedIs, LatestIs
  <2>5. /\ run'.pc = "pin" /\ run'.index = Len(versions[run.rec]) + 1
        /\ UNCHANGED <<run.rec, run.sums>>
    BY <1>7 DEF Publishes
  <2>6. /\ run'.index \in 1..Len(versions'[run'.rec])
        /\ \A k \in Keys \ swapped' : versions'[run'.rec][run'.index][k] = run'.sums[k]
    BY <1>0, <2>1, <2>4, <2>5
  <2> QED BY <2>5, <2>6 DEF Filled, Deep, Drafting
<1>8. CASE Finds
  BY <1>8 DEF Finds, Filled, Sound, Drafting
<1>9. CASE Asks
  BY <1>9 DEF Asks
<1>10. CASE Beside
  BY <1>1, <1>10 DEF Beside
<1>11. ASSUME NEW r \in Records, OpensNew(r) PROVE Filled'
  <2>1. /\ run.pc = "open" /\ run.rec = 0 /\ run'.pc = "apply" /\ run'.rec = r
        /\ draft'[r] = NoFiles /\ UNCHANGED <<run.sums, run.seen, run.todo>>
    BY <1>11 DEF OpensNew, DraftIs
  <2>2. run.todo = {k \in Keys : run.sums[k] # NoFiles[k]}
    BY <1>0, <2>1, WorkIs, FilesAre DEF Filled
  <2>3. NoFiles # NoDraft
    BY FilesAre
  <2> QED BY <2>1, <2>2, <2>3 DEF Filled, Deep, Drafting
<1>12. ASSUME NEW r \in Records, Releases(r) PROVE Filled'
  BY <1>0, <1>12 DEF Releases
<1>13. ASSUME NEW r \in Records, NEW f \in Files, Intrudes(r, f) PROVE Filled'
  BY <1>13 DEF Intrudes, Filled, Deep, Drafting
<1>14. ASSUME NEW r \in Records, Slips(r) PROVE Filled'
  BY <1>14, QuitIs DEF Slips, Filled, Deep, Drafting
<1> QED BY <1>1, <1>2, <1>3, <1>4, <1>5, <1>6, <1>7, <1>8, <1>9, <1>10, <1>11, <1>12, <1>13,
           <1>14
           DEF Turns

(* Where nobody overlaps, the version a run takes for its own has the      *)
(* files the run hashed, whatever failed, died or was edited on the way,   *)
(* but for keys of which an unverified upload once sent other bytes.       *)
THEOREM PublishedIsLocalAlways ==
    ASSUME ~Overlap
    PROVE  PullSpec => []PublishedIsLocal
<1>1. PullInit => Base /\ Filled
  <2> SUFFICES ASSUME PullInit PROVE Base /\ Filled
    OBVIOUS
  <2>1. Base
    BY BaseInit
  <2> QED BY <2>1, IdleIs DEF PullInit, Init, Filled, At, In, Deep, Drafting
<1>2. Base /\ Filled /\ [PullNext]_pullVars => (Base /\ Filled)'
  <2> SUFFICES ASSUME Base, Filled, [PullNext]_pullVars PROVE Base' /\ Filled'
    OBVIOUS
  <2>1. Base' /\ Remembers /\ (Turns \/ Aside \/ UNCHANGED pullVars)
    BY BaseStep
  <2>2. ASSUME UNCHANGED pullVars PROVE Filled'
    BY <2>2 DEF pullVars, vars, archive, user, history, Filled, At, In, Kind, Latest
  <2> QED BY <2>1, <2>2, FilledStep DEF Base
<1>3. Base /\ Filled => PublishedIsLocal
  BY DEF Filled, PublishedIsLocal
<1> QED BY <1>1, <1>2, <1>3, PTL DEF PullSpec

-----------------------------------------------------------------------------
(* Every checksum there is, pinned, hashed or in a pull's hands, is one of *)
(* a tracked file.                                                         *)
Tracked ==
    /\ Held(pin.sums) \subseteq Held(local)
    /\ ~At("idle") => Held(run.sums) \subseteq Held(local)
    /\ ~PullAt("idle") => Held(pull.pin.sums) \subseteq Held(local)

(* Only the end of a publish and an edit of the tracked set move the pins. *)
LEMMA PinsMove ==
    ASSUME Next
    PROVE  UNCHANGED <<pin, local>> \/ Repin \/ Pin \/ Edit
<1>1. CASE Step
  BY <1>1
     DEF Step, ObserveNothing, GateRefuses, ObservePlan, CreateDraft, InvenioNewVersion,
         FigshareNewVersion, DataverseNewVersion, Import, ImportRefused, ClearFile, Cleared,
         Remove, InvenioRegister, FigshareDropExisting, FigshareInitiate, Commit,
         DataverseDropExisting, DataverseAdd, Applied, Preflight, ReserveDOI, InvenioPublish,
         InvenioPublishFound, FigsharePublish, DataversePublish, DataversePoll, DraftRefuses,
         DraftGone, InvenioDiscard, FigshareDiscard, DataverseDiscard, user
<1>2. CASE Failure
  BY <1>2
     DEF Failure, ImportFault, CallFails, CallAborts, DiscardFails, InvenioPublishFails,
         FigsharePublishFails, DataversePublishFails, DataversePollEnds, Crash, DraftUnheard,
         InvenioPublishUnseen, FigsharePublishUnread, user
<1>3. CASE Begin \/ Rerun \/ Rest \/ DataverseRelease \/ ForeignPublish
  BY <1>3 DEF Begin, Rerun, Start, Rest, DataverseRelease, ForeignPublish, vars, user
<1> QED BY <1>1, <1>2, <1>3 DEF Next

LEMMA EditKeeps ==
    ASSUME TypeInv, Edit
    PROVE  /\ UNCHANGED <<versions, run, pin.remote, pin.record, pin.index, pin.version>>
           /\ Held(pin'.sums) \subseteq Held(pin.sums)
           /\ \A k \in Held(pin'.sums) : pin'.sums[k] = pin.sums[k]
           /\ Held(pin.sums) \subseteq Held(local) => Held(pin'.sums) \subseteq Held(local')
           /\ At("idle") \/ Held(local') = Held(local)
<1>1. /\ local \in Files /\ pin.sums \in Files /\ pin \in PinType
  BY DEF TypeInv, UserInv, PinType
<1>2. PICK k \in Keys, m \in Contents \union {None} :
          /\ m # local[k]
          /\ None \in {m, local[k]} => At("idle")
          /\ local' = [local EXCEPT ![k] = m]
          /\ pin' = IF None \in {m, local[k]} THEN [pin EXCEPT !.sums[k] = None] ELSE pin
  BY DEF Edit
<1>3. UNCHANGED <<versions, run>>
  BY DEF Edit, archive
<1>4. local'[k] = m /\ \A j \in Keys \ {k} : local'[j] = local[j]
  BY <1>1, <1>2 DEF Files
<1>5. CASE None \in {m, local[k]}
  <2>1. /\ UNCHANGED <<pin.remote, pin.record, pin.index, pin.version>>
        /\ pin'.sums = [pin.sums EXCEPT ![k] = None]
    BY <1>1, <1>2, <1>5 DEF PinType
  <2>2. pin'.sums[k] = None /\ \A j \in Keys \ {k} : pin'.sums[j] = pin.sums[j]
    BY <1>1, <2>1 DEF Files
  <2> QED BY <1>2, <1>3, <1>4, <1>5, <2>1, <2>2 DEF Held
<1>6. CASE None \notin {m, local[k]}
  <2>1. pin' = pin /\ Held(local') = Held(local)
    BY <1>2, <1>4, <1>6 DEF Held
  <2> QED BY <1>3, <2>1 DEF Held
<1> QED BY <1>5, <1>6

LEMMA RunSums ==
    ASSUME Turns \/ Aside
    PROVE  \/ run'.pc = "idle"
           \/ run'.sums = local /\ UNCHANGED local
           \/ ~At("idle") /\ run'.sums = run.sums
<1> USE DEF At, In, history
<1>1. ASSUME NEW r \in Records, OpensNew(r) PROVE ~At("idle") /\ run'.sums = run.sums
  BY <1>1 DEF OpensNew
<1>2. ASSUME UNCHANGED run
      PROVE  run'.pc = "idle" \/ (~At("idle") /\ run'.sums = run.sums)
  BY <1>2
<1>3. ASSUME NEW r \in Records, Releases(r) PROVE UNCHANGED run
  BY <1>3 DEF Releases
<1>4. ASSUME NEW r \in Records, NEW f \in Files, Intrudes(r, f) PROVE UNCHANGED run
  BY <1>4 DEF Intrudes
<1>5. CASE Works \/ OpensNext \/ Publishes \/ Finds \/ Asks \/ Looks
  BY <1>5 DEF Works, OpensNext, Publishes, Finds, Asks, Looks, Deep, Drafting
<1>6. CASE Ends \/ Repins \/ Pins \/ Misses \/ \E r \in Records : Slips(r)
  BY <1>6, QuitIs DEF Ends, Repins, Pins, Misses, Slips
<1>7. CASE Starts
  BY <1>7 DEF Starts
<1>8. CASE Beside \/ Aside
  BY <1>2, <1>8 DEF Beside, Aside
<1> QED BY <1>1, <1>2, <1>3, <1>4, <1>5, <1>6, <1>7, <1>8 DEF Turns

LEMMA TrackedNext ==
    ASSUME Base, Tracked, [PullNext]_pullVars
    PROVE  Tracked'
<1> USE DEF At, PullAt
<1>0. /\ TypeInv /\ Sound /\ PullInv /\ local \in Files /\ pull.pin.sums \in Files
      /\ \/ Turns /\ (Turn \/ Around) /\ UNCHANGED <<pull, pulls>>
         \/ PullStep /\ Aside
         \/ UNCHANGED pullVars
  BY BaseStep, PullFields DEF Base, PullInv, TypeInv, UserInv
<1>1. ASSUME Turns, Turn \/ Around, UNCHANGED <<pull, pulls>>
      PROVE  Tracked'
  <2>0. Next
    BY <1>1 DEF Turn, Around, Next
  <2>1. CASE Edit
    <3>1. ~PullAt("idle") => Held(local') = Held(local)
      <4>1. CASE Turn
        BY <4>1 DEF Turn
      <4>2. CASE Around /\ ~PullAt("idle")
        <5>1. UNCHANGED local \/ Held(local') = Held(local)
          BY <4>2 DEF Around, Rest, DataverseRelease, ForeignPublish, vars, user
        <5> QED BY <5>1
      <4> QED BY <1>1, <4>1, <4>2
    <3> QED BY <1>0, <1>1, <2>1, <3>1, EditKeeps DEF Tracked
  <2>2. CASE ~Edit
    <3>1. UNCHANGED local /\ (UNCHANGED pin \/ (pin'.sums = run.sums /\ ~At("idle")))
      BY <1>0, <2>0, <2>2, PinsMove, RepinIs, PinIs DEF Repins, Pins
    <3> QED BY <1>1, <3>1, RunSums DEF Tracked
  <2> QED BY <2>1, <2>2
<1>2. ASSUME PullStep, Aside
      PROVE  Tracked'
  <2>0. UNCHANGED run /\ (UNCHANGED vars => UNCHANGED <<pin, local>>)
    BY <1>2 DEF Aside, vars, user
  <2>1. CASE BeginPull
    BY <1>0, <2>0, <2>1, BeginPullIs DEF BeginPull, Tracked
  <2>2. CASE PullResolve
    BY <1>0, <2>0, <2>2, PullResolveIs DEF PullResolve, Tracked
  <2>3. CASE PullList
    BY <1>0, <2>0, <2>3, PullListIs, NoPullIs DEF PullList, Tracked
  <2>4. CASE PullSkipsAbsent
    BY <1>0, <2>0, <2>4, PullSkipsIs DEF PullSkipsAbsent, NextFile, Treats, Tracked
  <2>5. CASE PullKeeps
    <3>1. PICK k \in pull.todo : /\ Listed(k) /\ local[k] = pull.seen[k]
                                 /\ Treats(k, [pull.pin.sums EXCEPT ![k] =
                                        IF pull.repin THEN pull.seen[k] ELSE pull.pin.sums[k]])
      BY <1>0, <2>5, PullKeepsIs
    <3>2. Held(pull'.pin.sums) \subseteq Held(pull.pin.sums) \union {k}
      BY <1>0, <3>1 DEF Treats, Held, Files
    <3>3. k \in Held(local)
      BY <1>0, <3>1, PullFields DEF Held, Listed, PullInv
    <3> QED BY <2>0, <2>5, <3>2, <3>3 DEF PullKeeps, NextFile, Tracked
  <2>6. CASE PullDownloads
    <3>1. PICK k \in pull.todo, bytes \in Contents :
              /\ local' = [local EXCEPT ![k] = bytes]
              /\ Treats(k, [pull.pin.sums EXCEPT ![k] = IF Listed(k) THEN pull.seen[k] ELSE None])
      BY <1>0, <2>6, PullDownloadsIs
    <3>2. Held(pull'.pin.sums) \subseteq Held(pull.pin.sums) \union {k}
      BY <1>0, <3>1 DEF Treats, Held, Files
    <3>3. Held(local) \union {k} \subseteq Held(local')
      BY <1>0, <3>1, PullFields, MarksAssumption DEF Held, Files, PullInv
    <3>4. UNCHANGED <<pin, run>> /\ PullAt("fetch")
      BY <2>0, <2>6 DEF PullDownloads, NextFile
    <3> QED BY <3>2, <3>3, <3>4 DEF Tracked
  <2>7. CASE PullFetched \/ PullRecord \/ PullRecordFails
    <3>1. UNCHANGED <<pull.pin.sums, pin, local>> /\ ~PullAt("idle")
      BY <1>0, <2>0, <2>7, PullFetchedIs, PullRecordIs, PullRecordFailsIs
         DEF PullFetched, PullRecord, PullRecordFails, user
    <3> QED BY <2>0, <3>1 DEF Tracked
  <2>8. CASE PullRefuses \/ PullFails \/ PullCrash
    BY <2>0, <2>8, NoPullIs DEF Tracked, PullRefuses, PullFails, PullCrash, PullEnds, user
  <2>9. CASE PullSave
    BY <1>0, <2>0, <2>9, PullSaveIs, NoPullIs DEF Tracked, PullSave
  <2> QED BY <1>2, <2>1, <2>2, <2>3, <2>4, <2>5, <2>6, <2>7, <2>8, <2>9 DEF PullStep
<1>3. CASE UNCHANGED pullVars
  BY <1>3 DEF pullVars, vars, user, Tracked
<1> QED BY <1>0, <1>1, <1>2, <1>3

-----------------------------------------------------------------------------
(* The checksums pinned, and those in a pull's hands, are those of one     *)
(* version: the one they are saved with or, after a failing call, perhaps  *)
(* a later one.  h: the versions, i: the one saved, f: failed calls.       *)
Matches(h, s, i, f, w) ==
    \E v \in i..(IF f = 0 THEN i ELSE Len(h)) :
        \A k \in Held(s) \ w : h[v][k] \in {None, s[k]} \/ h[i][k] = s[k]
Fits(s, i) == Matches(versions[pin.record], s, i, faults, swapped)
Version(i) == versions[pin.record][i]

Served == Kind = "invenio" =>
    /\ pin.record # 0 => Fits(pin.sums, pin.index)
    /\ PullAt("resolve") => ~pull.repin
    /\ PullAt("fetch") \/ PullAt("record") => pull.seen = Version(pull.target)
    /\ ~PullAt("idle") /\ ~pull.repin =>
          pull.target = pull.pin.index /\ Fits(pull.pin.sums, pull.pin.index)
    /\ ~PullAt("idle") /\ pull.repin => pull.pin.index <= pull.target
    /\ PullAt("fetch") /\ pull.repin =>
          \A k \in Held(pull.pin.sums) \ pull.todo : pull.seen[k] \in {None, pull.pin.sums[k]}
    /\ PullAt("record") =>
          /\ pull.repin
          /\ \A k \in Held(pull.pin.sums) : pull.seen[k] \in {None, pull.pin.sums[k]}
    /\ PullAt("save") => Fits(pull.pin.sums, pull.pin.index)

Known == Base /\ Numbered /\ PullNumbered /\ Filled /\ Tracked /\ Served

(* The archive only adds versions.                                         *)
LEMMA Grows ==
    ASSUME TypeInv, Sound, Turns
    PROVE  \A q \in Records : /\ Len(versions[q]) <= Len(versions'[q])
                              /\ \A i \in 1..Len(versions[q]) : versions'[q][i] = versions[q][i]
<1>0. ArchiveInv /\ \A q \in Records : Len(versions[q]) \in Nat
  BY LatestIs DEF TypeInv
<1>1. ASSUME NEW r \in Records, NEW f \in Files, versions' = [versions EXCEPT ![r] = Append(@, f)]
      PROVE  \A q \in Records : /\ Len(versions[q]) <= Len(versions'[q])
                                /\ \A i \in 1..Len(versions[q]) : versions'[q][i] = versions[q][i]
  BY <1>0, <1>1, ReleasedIs
<1>2. CASE Publishes \/ Misses
  BY <1>1, <1>2 DEF Publishes, Misses
<1>3. ASSUME NEW r \in Records, Releases(r)
      PROVE  \A q \in Records : /\ Len(versions[q]) <= Len(versions'[q])
                                /\ \A i \in 1..Len(versions[q]) : versions'[q][i] = versions[q][i]
  <2>1. draft[r] \in Files
    BY <1>3 DEF Releases, Sound
  <2> QED BY <1>1, <1>3, <2>1 DEF Releases
<1>4. ASSUME NEW r \in Records, NEW f \in Files, Intrudes(r, f)
      PROVE  \A q \in Records : /\ Len(versions[q]) <= Len(versions'[q])
                                /\ \A i \in 1..Len(versions[q]) : versions'[q][i] = versions[q][i]
  BY <1>1, <1>4 DEF Intrudes
<1>5. ASSUME versions' = versions
      PROVE  \A q \in Records : /\ Len(versions[q]) <= Len(versions'[q])
                                /\ \A i \in 1..Len(versions[q]) : versions'[q][i] = versions[q][i]
  BY <1>0, <1>5
<1>6. ASSUME NEW r \in Records, OpensNew(r) \/ Slips(r) PROVE versions' = versions
  BY <1>6 DEF OpensNew, Slips, Still
<1>7. CASE \/ Starts \/ Looks \/ Works \/ Ends \/ OpensNext \/ Finds \/ Asks
           \/ Repins \/ Pins \/ Beside
  <2>1. versions' = versions
    BY <1>7
       DEF Starts, Looks, Works, Ends, OpensNext, Finds, Asks, Repins, Pins, Beside, Aside,
           Still
  <2> QED BY <1>5, <2>1
<1> QED BY <1>2, <1>3, <1>4, <1>5, <1>6, <1>7 DEF Turns

(* Checksums that fit go on fitting as versions appear, calls fail and     *)
(* unverified uploads are noted, also when some of them are dropped.       *)
LEMMA MatchesOn ==
    ASSUME NEW h, NEW g, NEW f \in Nat, NEW e \in Nat, NEW w, NEW x, NEW s, NEW t,
           Len(h) \in Nat, Len(g) \in Nat, Len(h) <= Len(g),
           \A j \in 1..Len(h) : g[j] = h[j],
           f <= e, w \subseteq x,
           Held(t) \subseteq Held(s), \A k \in Held(t) : t[k] = s[k],
           NEW i \in 1..Len(h), Matches(h, s, i, f, w)
    PROVE  Matches(g, t, i, e, x)
<1>1. PICK v \in i..(IF f = 0 THEN i ELSE Len(h)) :
          \A k \in Held(s) \ w : h[v][k] \in {None, s[k]} \/ h[i][k] = s[k]
  BY DEF Matches
<1>2. v \in i..Len(h) /\ v \in 1..Len(h) /\ v \in i..(IF e = 0 THEN i ELSE Len(g))
  <2>1. f = 0 => v = i
    BY <1>1
  <2>2. f # 0 => v \in i..Len(h) /\ e # 0
    BY <1>1
  <2>3. v \in i..Len(h) /\ v \in 1..Len(h)
    BY <2>1, <2>2
  <2>4. v \in i..(IF e = 0 THEN i ELSE Len(g))
    BY <2>1, <2>2, <2>3
  <2> QED BY <2>3, <2>4
<1>3. g[v] = h[v] /\ g[i] = h[i]
  BY <1>2
<1>4. \A k \in Held(t) \ x : g[v][k] \in {None, t[k]} \/ g[i][k] = t[k]
  BY <1>1, <1>3
<1> QED BY <1>2, <1>4 DEF Matches

(* Checksums of the version they are saved with fit, and so do those of a  *)
(* later one once a call has failed.                                       *)
LEMMA MatchesVersion ==
    ASSUME NEW h, Len(h) \in Nat, NEW i \in 1..Len(h), NEW v \in i..Len(h), NEW f \in Nat,
           v = i \/ f # 0, NEW s, NEW w,
           \A k \in Held(s) \ w : h[v][k] \in {None, s[k]}
    PROVE  Matches(h, s, i, f, w)
<1>1. v \in i..(IF f = 0 THEN i ELSE Len(h))
  OBVIOUS
<1> QED BY <1>1 DEF Matches

LEMMA MatchesTreat ==
    ASSUME NEW h, NEW i, NEW f, NEW w, NEW s \in Files, NEW k \in Keys,
           NEW x \in {None, s[k], h[i][k]}, Matches(h, s, i, f, w)
    PROVE  Matches(h, [s EXCEPT ![k] = x], i, f, w)
<1> DEFINE t == [s EXCEPT ![k] = x]
<1>1. PICK v \in i..(IF f = 0 THEN i ELSE Len(h)) :
          \A j \in Held(s) \ w : h[v][j] \in {None, s[j]} \/ h[i][j] = s[j]
  BY DEF Matches
<1>2. t[k] = x /\ \A j \in Keys \ {k} : t[j] = s[j]
  BY DEF Files
<1> HIDE DEF t
<1>3. \A j \in Held(t) \ w : h[v][j] \in {None, t[j]} \/ h[i][j] = t[j]
  BY <1>1, <1>2 DEF Held
<1>4. Matches(h, t, i, f, w)
  BY <1>1, <1>3 DEF Matches
<1> QED BY <1>4 DEF t

(* A publish's steps. *)
LEMMA ServedTurn ==
    ASSUME ~Overlap, Known, Turns, Turn \/ Around, UNCHANGED <<pull, pulls>>, Remembers
    PROVE  Served'
<1> USE DEF At, PullAt
<1> SUFFICES ASSUME Kind' = "invenio" PROVE Served'
  BY DEF Served
<1>0. /\ TypeInv /\ Sound /\ PullInv /\ ArchiveInv /\ Next /\ Kind = "invenio"
      /\ faults \in Nat /\ faults' \in Nat /\ faults <= faults' /\ swapped \subseteq swapped'
      /\ pin.record # 0 => pin.record \in Records
      /\ pin.record \in Records => /\ Len(versions[pin.record]) \in Nat
                                   /\ Len(versions'[pin.record]) \in Nat
  <2>1. Base /\ TypeInv' /\ Sound
    BY TurnsTick, TurnIs DEF Known, Base
  <2>2. Ticks /\ Kind' = Kind /\ Next
    BY TurnsTick DEF Turn, Around, Next
  <2>3. \A q \in Records : Len(versions[q]) \in Nat /\ Len(versions'[q]) \in Nat
    BY <2>1, LatestIs DEF Base, TypeInv, ArchiveInv
  <2> QED BY <2>1, <2>2, <2>3, ValuesAre DEF Base, TypeInv, Ticks, CountInv, Remembers
<1>1. Undisturbed
  BY <1>0 DEF Undisturbed
<1>2. /\ pin.record # 0 => pin.index \in 1..Len(versions[pin.record])
      /\ ~PullAt("idle") => PullNumbers
      /\ Served /\ Filled
  BY <1>0, <1>1 DEF Known, Numbered, Numbers, PinNamesVersion, PullNumbered
<1>3. pin.record # 0 =>
          /\ Len(versions[pin.record]) <= Len(versions'[pin.record])
          /\ \A i \in 1..Len(versions[pin.record]) :
                versions'[pin.record][i] = versions[pin.record][i]
  BY <1>0, Grows
<1>4. ASSUME pin.record # 0, NEW s, NEW t, NEW i \in 1..Len(versions[pin.record]), Fits(s, i),
             Held(t) \subseteq Held(s), \A k \in Held(t) : t[k] = s[k]
      PROVE  Matches(versions'[pin.record], t, i, faults', swapped')
  <2> DEFINE h == versions[pin.record]  g == versions'[pin.record]
  <2>1. /\ Len(h) \in Nat /\ Len(g) \in Nat /\ Len(h) <= Len(g)
        /\ \A j \in 1..Len(h) : g[j] = h[j]
        /\ i \in 1..Len(h) /\ Matches(h, s, i, faults, swapped)
    BY <1>0, <1>3, <1>4 DEF Fits
  <2> HIDE DEF h, g
  <2>2. Matches(g, t, i, faults', swapped')
    BY <1>0, <1>4, <2>1, MatchesOn
  <2> QED BY <2>2 DEF g
<1>5. pin'.record # 0 => Fits(pin.sums, pin.index)'
  <2>1. CASE UNCHANGED <<pin, local>>
    <3>1. pin.record # 0 =>
             Matches(versions'[pin.record], pin.sums, pin.index, faults', swapped')
      BY <1>0, <1>2, <1>4 DEF Served
    <3> QED BY <2>1, <3>1 DEF Fits
  <2>2. CASE Repin
    <3>1. Repins
      BY <1>0, <2>2, RepinIs
    <3>2. /\ pin'.index = Len(versions[pin.record]) /\ pin'.sums = run.sums
          /\ pin'.record = pin.record /\ pin.record \in Records
          /\ versions' = versions /\ Work(run.sums, Latest(pin.record)) = {}
      BY <3>1 DEF Repins, Still
    <3>3. /\ run.sums \in Files /\ Latest(pin.record) \in Files
          /\ pin'.index \in 1..Len(versions[pin.record])
      BY <1>0, <3>2, ValuesAre, LatestIs DEF Sound, Records
    <3>4. run.sums = versions[pin.record][pin'.index]
      BY <3>2, <3>3, WorkIs DEF Latest
    <3>5. Matches(versions[pin.record], run.sums, pin'.index, faults', swapped')
      <4> DEFINE h == versions[pin.record]  i == pin'.index
      <4>1. /\ Len(h) \in Nat /\ i \in 1..Len(h) /\ i \in i..Len(h)
            /\ \A k \in Held(run.sums) \ swapped' : h[i][k] \in {None, run.sums[k]}
        BY <1>0, <3>2, <3>3, <3>4
      <4> HIDE DEF h, i
      <4>2. Matches(h, run.sums, i, faults', swapped')
        BY <1>0, <4>1, MatchesVersion
      <4> QED BY <4>2 DEF h, i
    <3> QED BY <3>2, <3>5 DEF Fits
  <2>3. CASE Pin
    <3>1. Pins
      BY <1>0, <2>3, PinIs
    <3>2. /\ pin'.index = run.index /\ pin'.sums = run.sums /\ pin'.record = run.rec
          /\ versions' = versions /\ run.pc = "pin" /\ run.rec \in Records
      BY <1>0, <3>1, ValuesAre DEF Pins
    <3>3. /\ run.index \in 1..Len(versions[run.rec]) /\ Len(versions[run.rec]) \in Nat
          /\ \A k \in Keys \ swapped : versions[run.rec][run.index][k] = run.sums[k]
      BY <1>0, <1>2, <3>2, LatestIs DEF Filled
    <3>4. Matches(versions[run.rec], run.sums, run.index, faults', swapped')
      <4> DEFINE h == versions[run.rec]  i == run.index
      <4>1. /\ Len(h) \in Nat /\ i \in 1..Len(h) /\ i \in i..Len(h)
            /\ \A k \in Held(run.sums) \ swapped' : h[i][k] \in {None, run.sums[k]}
        BY <1>0, <3>3 DEF Held
      <4> HIDE DEF h, i
      <4>2. Matches(h, run.sums, i, faults', swapped')
        BY <1>0, <4>1, MatchesVersion
      <4> QED BY <4>2 DEF h, i
    <3> QED BY <3>2, <3>4 DEF Fits
  <2>4. CASE Edit
    <3>1. /\ UNCHANGED <<pin.record, pin.index>> /\ Held(pin'.sums) \subseteq Held(pin.sums)
          /\ \A k \in Held(pin'.sums) : pin'.sums[k] = pin.sums[k]
      BY <1>0, <2>4, EditKeeps
    <3>2. pin.record # 0 =>
             Matches(versions'[pin.record], pin'.sums, pin.index, faults', swapped')
      BY <1>0, <1>2, <1>4, <3>1 DEF Served
    <3> QED BY <3>1, <3>2 DEF Fits
  <2> QED BY <1>0, <2>1, <2>2, <2>3, <2>4, PinsMove
<1>6. CASE PullAt("idle")
  BY <1>5, <1>6 DEF Served
<1>7. CASE ~PullAt("idle")
  <2>1. /\ pin.record \in Records /\ pin'.record = pin.record /\ pin.record # 0
        /\ pull.target \in 1..Len(versions[pin.record])
        /\ pull.pin.index \in 1..Len(versions[pin.record])
    BY <1>0, <1>2, <1>7, GrowsAround DEF PullInv, PullNumbers, Turn
  <2>2. Version(pull.target)' = Version(pull.target)
    BY <1>3, <2>1 DEF Version
  <2>3. UNCHANGED <<pull.pc, pull.repin, pull.todo, pull.seen, pull.target, pull.pin>>
    OBVIOUS
  <2>4. Fits(pull.pin.sums, pull.pin.index) => Fits(pull.pin.sums, pull.pin.index)'
    <3>1. Fits(pull.pin.sums, pull.pin.index) =>
            Matches(versions'[pin.record], pull.pin.sums, pull.pin.index, faults', swapped')
      BY <1>4, <2>1
    <3> QED BY <2>1, <2>3, <3>1 DEF Fits
  <2> QED BY <1>0, <1>2, <1>5, <1>7, <2>2, <2>3, <2>4 DEF Served
<1> QED BY <1>6, <1>7

(* A pull's steps. *)
LEMMA ServedPull ==
    ASSUME ~Overlap, Known, PullStep, Aside, Remembers
    PROVE  Served'
<1> USE DEF PullAt
<1> SUFFICES ASSUME Kind' = "invenio" PROVE Served'
  BY DEF Served
<1>0. /\ TypeInv /\ Sound /\ PullInv /\ Kind = "invenio" /\ Served /\ Tracked
      /\ pull.pin.sums \in Files /\ pull.seen \in Files /\ pull.todo \subseteq Keys
      /\ local \in Files /\ pull.target \in Nat /\ pull.pin.index \in Nat
      /\ faults \in Nat /\ faults' \in Nat /\ faults <= faults' /\ swapped \subseteq swapped'
  BY TurnsTick, PullFields
     DEF Known, Base, TypeInv, Ticks, CountInv, PullInv, UserInv, Remembers
<1>1. /\ pin'.record = pin.record /\ versions' = versions
      /\ \A i : Version(i)' = Version(i)
  BY DEF Aside, Still, Version
<1>2. /\ pin.record \in Records /\ pin.record # 0
      /\ pin.index \in 1..Len(versions[pin.record]) /\ Len(versions[pin.record]) \in Nat
      /\ ~PullAt("idle") => /\ pull.pin.index \in 1..Len(versions[pin.record])
                            /\ pull.target \in 1..Len(versions[pin.record])
  <2>1. Undisturbed
    BY <1>0 DEF Undisturbed
  <2>2. pin.record # 0
    BY <1>0 DEF PullInv, PullStep, BeginPull, PullResolve, PullList, PullSkipsAbsent,
                PullRefuses, PullKeeps, NextFile, PullDownloads, PullFetched, PullRecord,
                PullRecordFails, PullSave, PullFails, PullCrash
  <2> QED BY <1>0, <2>1, <2>2, ValuesAre
             DEF Known, Numbered, Numbers, PinNamesVersion, PullNumbered, PullNumbers
<1>3. ASSUME NEW s, NEW i \in 1..Len(versions[pin.record]), Fits(s, i)
      PROVE  Matches(versions[pin.record], s, i, faults', swapped')
  <2> DEFINE h == versions[pin.record]
  <2>1. Len(h) \in Nat /\ i \in 1..Len(h) /\ Matches(h, s, i, faults, swapped) /\ Len(h) <= Len(h)
    BY <1>2, <1>3 DEF Fits
  <2> HIDE DEF h
  <2>2. Matches(h, s, i, faults', swapped')
    BY <1>0, <2>1, MatchesOn
  <2> QED BY <2>2 DEF h
<1>4. UNCHANGED pin => (pin'.record # 0 => Fits(pin.sums, pin.index)')
  <2>1. Fits(pin.sums, pin.index)
    BY <1>0, <1>2 DEF Served
  <2>2. Matches(versions[pin.record], pin.sums, pin.index, faults', swapped')
    BY <1>2, <1>3, <2>1
  <2> QED BY <1>1, <2>2 DEF Fits
<1>5. UNCHANGED pull.pin /\ Fits(pull.pin.sums, pull.pin.index) /\ ~PullAt("idle")
         => Fits(pull.pin.sums, pull.pin.index)'
  <2>1. Fits(pull.pin.sums, pull.pin.index) /\ ~PullAt("idle") =>
           Matches(versions[pin.record], pull.pin.sums, pull.pin.index, faults', swapped')
    BY <1>2, <1>3
  <2> QED BY <1>1, <2>1 DEF Fits
<1>6. UNCHANGED vars \/ UNCHANGED user => UNCHANGED pin
  BY DEF vars, user
<1>7. CASE BeginPull
  <2>1. UNCHANGED pin
    BY <1>6, <1>7 DEF BeginPull
  <2>2. /\ pull'.pc \in {"resolve", "list"} /\ pull'.repin = FALSE
        /\ pull'.target = pin.index /\ pull'.pin.index = pin.index /\ pull'.pin.sums = pin.sums
    BY <1>0, <1>7, BeginPullIs
  <2>3. Fits(pull.pin.sums, pull.pin.index)'
    BY <1>2, <1>4, <2>1, <2>2 DEF Fits
  <2> QED BY <1>1, <1>4, <2>1, <2>2, <2>3 DEF Served
<1>8. CASE PullResolve
  <2>1. UNCHANGED pin /\ pull.pc = "resolve" /\ ~pull.repin
    BY <1>0, <1>6, <1>8 DEF PullResolve, Served
  <2>2. /\ pull'.pc = "list" /\ pull'.target = Len(versions[pin.record])
        /\ pull'.repin = (Len(versions[pin.record]) # pull.target)
        /\ UNCHANGED <<pull.todo, pull.pin>>
    BY <1>0, <1>8, PullResolveIs
  <2>3. pull.target = pull.pin.index /\ Fits(pull.pin.sums, pull.pin.index)'
    BY <1>0, <1>5, <2>1, <2>2 DEF Served
  <2>4. pull'.pin.index <= pull'.target
    BY <1>2, <2>1, <2>2
  <2> QED BY <1>1, <1>4, <2>1, <2>2, <2>3, <2>4 DEF Served
<1>9. CASE PullList
  <2>1. UNCHANGED <<pin, local>> /\ pull.pc = "list"
    BY <1>9 DEF PullList, vars, user
  <2>2. CASE pull' = NoPull
    BY <1>4, <2>1, <2>2, NoPullIs DEF Served
  <2>3. CASE pull' # NoPull
    <3>1. /\ pull'.pc = "fetch" /\ pull'.todo = Held(local)
          /\ pull'.seen = Version(pull.target)
          /\ UNCHANGED <<pull.target, pull.repin, pull.pin>>
      BY <1>0, <1>9, <2>3, PullListIs DEF Version
    <3>2. Held(pull.pin.sums) \subseteq Held(local)
      BY <1>0, <2>1 DEF Tracked
    <3>3. ~pull.repin => pull.target = pull.pin.index /\ Fits(pull.pin.sums, pull.pin.index)'
      BY <1>0, <1>5, <2>1, <3>1 DEF Served
    <3>4. pull.repin => pull.pin.index <= pull.target
      BY <1>0, <2>1 DEF Served
    <3> QED BY <1>1, <1>4, <2>1, <3>1, <3>2, <3>3, <3>4 DEF Served
  <2> QED BY <2>2, <2>3
<1>10. ASSUME UNCHANGED pin, PullAt("fetch"), NEW k \in pull.todo,
              NEW x \in {None, pull.pin.sums[k], pull.seen[k]},
              pull.repin => pull.seen[k] \in {None, x} \/ x = None,
              Treats(k, [pull.pin.sums EXCEPT ![k] = x])
       PROVE  Served'
  <2>1. pull'.pin.sums[k] = x /\ \A j \in Keys \ {k} : pull'.pin.sums[j] = pull.pin.sums[j]
    BY <1>0, <1>10 DEF Treats, Files
  <2>2. /\ pull'.pc = "fetch" /\ pull'.todo = pull.todo \ {k} /\ pull'.pin.index = pull.pin.index
        /\ UNCHANGED <<pull.target, pull.repin, pull.seen>>
    BY <1>10 DEF Treats
  <2>3. pull.seen = Version(pull.target)
    BY <1>0, <1>10 DEF Served
  <2>4. ~pull.repin => pull.target = pull.pin.index /\ Fits(pull.pin.sums, pull.pin.index)'
    <3> SUFFICES ASSUME ~pull.repin
                 PROVE  pull.target = pull.pin.index /\ Fits(pull.pin.sums, pull.pin.index)'
      OBVIOUS
    <3> DEFINE h == versions[pin.record]  s == pull.pin.sums  i == pull.pin.index
    <3>1. pull.target = i /\ Fits(s, i) /\ pull.seen = h[i]
      BY <1>0, <1>10, <2>3 DEF Served, Version
    <3>2. Matches(h, s, i, faults', swapped')
      BY <1>2, <1>3, <1>10, <3>1
    <3>3. x \in {None, s[k], h[i][k]} /\ s \in Files /\ k \in Keys
      BY <1>0, <1>10, <3>1
    <3>4. pull'.pin.sums = [s EXCEPT ![k] = x] /\ pull'.pin.index = i
      BY <1>10 DEF Treats
    <3>5. pin'.record = pin.record /\ versions'[pin.record] = h
      BY <1>1
    <3> HIDE DEF h, s, i
    <3>6. Matches(h, [s EXCEPT ![k] = x], i, faults', swapped')
      BY <3>2, <3>3, MatchesTreat
    <3>7. Fits(pull.pin.sums, pull.pin.index)'
      BY <3>4, <3>5, <3>6 DEF Fits
    <3> QED BY <3>1, <3>7 DEF i
  <2>5. pull.repin => \A j \in Held(pull'.pin.sums) \ pull'.todo :
                         pull.seen[j] \in {None, pull'.pin.sums[j]}
    BY <1>0, <1>10, <2>1, <2>2 DEF Served, Held
  <2>6. pull.repin => pull.pin.index <= pull.target
    BY <1>0, <1>10 DEF Served
  <2> QED BY <1>1, <1>4, <1>10, <2>2, <2>3, <2>4, <2>5, <2>6 DEF Served
<1>11. CASE PullSkipsAbsent
  <2>1. UNCHANGED pin /\ PullAt("fetch")
    BY <1>6, <1>11 DEF PullSkipsAbsent, NextFile
  <2>2. PICK k \in pull.todo : pull.seen[k] = None /\ Treats(k, pull.pin.sums)
    BY <1>0, <1>11, PullSkipsIs
  <2>3. pull.pin.sums = [pull.pin.sums EXCEPT ![k] = pull.pin.sums[k]]
    BY <1>0 DEF Files
  <2> QED BY <1>10, <2>1, <2>2, <2>3
<1>12. CASE PullKeeps
  <2>1. UNCHANGED pin /\ PullAt("fetch")
    BY <1>6, <1>12 DEF PullKeeps, NextFile
  <2>2. PICK k \in pull.todo : Treats(k, [pull.pin.sums EXCEPT ![k] =
                                      IF pull.repin THEN pull.seen[k] ELSE pull.pin.sums[k]])
    BY <1>0, <1>12, PullKeepsIs
  <2> DEFINE x == IF pull.repin THEN pull.seen[k] ELSE pull.pin.sums[k]
  <2>3. /\ x \in {None, pull.pin.sums[k], pull.seen[k]}
        /\ pull.repin => pull.seen[k] \in {None, x} \/ x = None
        /\ Treats(k, [pull.pin.sums EXCEPT ![k] = x])
    BY <2>2
  <2> HIDE DEF x
  <2> QED BY <1>10, <2>1, <2>3
<1>13. CASE PullDownloads
  <2>1. UNCHANGED pin /\ PullAt("fetch")
    BY <1>13 DEF PullDownloads, NextFile
  <2>2. PICK k \in pull.todo :
            Treats(k, [pull.pin.sums EXCEPT ![k] = IF Listed(k) THEN pull.seen[k] ELSE None])
    BY <1>0, <1>13, PullDownloadsIs
  <2> DEFINE x == IF Listed(k) THEN pull.seen[k] ELSE None
  <2>3. /\ x \in {None, pull.pin.sums[k], pull.seen[k]}
        /\ pull.repin => pull.seen[k] \in {None, x} \/ x = None
        /\ Treats(k, [pull.pin.sums EXCEPT ![k] = x])
    BY <2>2
  <2> HIDE DEF x
  <2> QED BY <1>10, <2>1, <2>3
<1>14. CASE PullFetched
  <2>1. UNCHANGED pin /\ PullAt("fetch") /\ pull.todo = {}
    BY <1>6, <1>14 DEF PullFetched
  <2>2. /\ pull'.pc = IF pull.repin THEN "record" ELSE "save"
        /\ UNCHANGED <<pull.target, pull.repin, pull.seen, pull.todo, pull.pin>>
    BY <1>0, <1>14, PullFetchedIs
  <2>3. pull.repin => \A k \in Held(pull.pin.sums) : pull.seen[k] \in {None, pull.pin.sums[k]}
    BY <1>0, <2>1 DEF Served
  <2>4. ~pull.repin => pull.target = pull.pin.index /\ Fits(pull.pin.sums, pull.pin.index)'
    BY <1>0, <1>5, <2>1, <2>2 DEF Served
  <2> QED BY <1>0, <1>1, <1>4, <2>1, <2>2, <2>3, <2>4 DEF Served
<1>15. CASE PullRecord \/ PullRecordFails
  <2>1. UNCHANGED pin /\ PullAt("record") /\ pull.repin /\ pull.pin.index <= pull.target
    BY <1>0, <1>6, <1>15 DEF PullRecord, PullRecordFails, Served
  <2>2. /\ pull'.pc = "save" /\ pull'.pin.sums = pull.pin.sums
        /\ UNCHANGED <<pull.target, pull.repin>>
        /\ \/ pull'.pin.index = pull.target
           \/ pull'.pin.index = pull.pin.index /\ faults' = faults + 1
    BY <1>0, <1>15, PullRecordIs, PullRecordFailsIs
  <2>3. Fits(pull.pin.sums, pull.pin.index)'
    <3> DEFINE h == versions[pin.record]  s == pull.pin.sums  i == pull'.pin.index
               v == pull.target
    <3>1. /\ Len(h) \in Nat /\ i \in 1..Len(h) /\ v \in i..Len(h) /\ (v = i \/ faults' # 0)
      BY <1>0, <1>2, <2>1, <2>2
    <3>2. \A k \in Held(s) \ swapped' : h[v][k] \in {None, s[k]}
      BY <1>0, <2>1 DEF Served, Version
    <3>3. pull'.pin.sums = s /\ pin'.record = pin.record /\ versions'[pin.record] = h
      BY <1>1, <2>2
    <3> HIDE DEF h, s, i, v
    <3>4. Matches(h, s, i, faults', swapped')
      BY <1>0, <3>1, <3>2, MatchesVersion
    <3> QED BY <3>3, <3>4 DEF Fits, i
  <2>4. pull'.pin.index <= pull'.target
    BY <1>0, <2>1, <2>2
  <2> QED BY <1>1, <1>4, <2>1, <2>2, <2>3, <2>4 DEF Served
<1>16. CASE PullSave
  <2>1. PullAt("save") /\ pull'.pc = "idle"
    BY <1>0, <1>16, PullSaveIs, NoPullIs DEF PullSave
  <2>2. pin'.index = pull.pin.index /\ pin'.sums = pull.pin.sums
    BY <1>0, <1>16, PullSaveIs
  <2>3. Matches(versions[pin.record], pull.pin.sums, pull.pin.index, faults', swapped')
    BY <1>0, <1>2, <1>3, <2>1 DEF Served
  <2>4. Fits(pin.sums, pin.index)'
    BY <1>1, <2>2, <2>3 DEF Fits
  <2> QED BY <2>1, <2>4 DEF Served
<1>17. CASE PullRefuses \/ PullFails \/ PullCrash
  <2>1. UNCHANGED pin /\ pull'.pc = "idle"
    BY <1>6, <1>17, NoPullIs DEF PullRefuses, PullFails, PullCrash, PullEnds
  <2> QED BY <1>4, <2>1 DEF Served
<1> QED BY <1>7, <1>8, <1>9, <1>11, <1>12, <1>13, <1>14, <1>15, <1>16, <1>17 DEF PullStep

LEMMA KnownInit ==
    ASSUME PullInit
    PROVE  Known
<1>1. Base /\ Numbered /\ PullNumbered
  BY BaseInit, NumberedInit
<1>2. Filled
  BY IdleIs DEF PullInit, Init, Filled, At, In, Deep, Drafting
<1>3. PICK kind \in Kinds : pin = Unpinned(kind)
  BY DEF PullInit, Init
<1>4. pin.record = 0 /\ Held(pin.sums) = {}
  BY <1>3 DEF Unpinned, Held, NoFiles
<1>5. Tracked /\ Served
  BY <1>4, IdleIs, NoPullIs DEF PullInit, Init, Tracked, Served, At, PullAt
<1> QED BY <1>1, <1>2, <1>5 DEF Known

LEMMA KnownNext ==
    ASSUME ~Overlap, Known, [PullNext]_pullVars
    PROVE  Known'
<1>1. /\ Base' /\ Remembers
      /\ \/ Turns /\ (Turn \/ Around) /\ UNCHANGED <<pull, pulls>>
         \/ PullStep /\ Aside
         \/ UNCHANGED pullVars
  BY BaseStep DEF Known
<1>2. Numbered' /\ PullNumbered' /\ Tracked'
  BY NumberedNext, TrackedNext DEF Known
<1>3. ASSUME UNCHANGED pullVars PROVE Filled' /\ Served'
  <2>1. UNCHANGED <<pull, pin, versions, draft, run, faults, swapped>>
    BY <1>3 DEF pullVars, vars, archive, user, history, counters
  <2> QED BY <2>1 DEF Known, Filled, Served, Fits, Version, At, In, Kind, Latest, PullAt
<1>4. ASSUME Turns \/ Aside PROVE Filled'
  BY <1>1, <1>4, FilledStep DEF Known, Base
<1>5. ASSUME Turns, Turn \/ Around, UNCHANGED <<pull, pulls>> PROVE Served'
  BY <1>1, <1>5, ServedTurn
<1>6. ASSUME PullStep, Aside PROVE Served'
  BY <1>1, <1>6, ServedPull
<1> QED BY <1>1, <1>2, <1>3, <1>4, <1>5, <1>6 DEF Known

(* Where nobody overlaps, the pinned checksums fit the pinned version, or  *)
(* one later version once a call has failed, after any publishes, pulls    *)
(* and crashes.                                                            *)
THEOREM PinsServedAlways ==
    ASSUME ~Overlap
    PROVE  PullSpec => []PinsServed
<1>1. PullInit => Known
  BY KnownInit
<1>2. Known /\ [PullNext]_pullVars => Known'
  BY KnownNext
<1>3. Known => PinsServed
  BY DEF Known, Served, PinsServed, Fits, Matches
<1> QED BY <1>1, <1>2, <1>3, PTL DEF PullSpec

(* ...and IN_SYNC is said only of files that the latest version has with   *)
(* the same content, or does not have at all, whichever calls failed.      *)
THEOREM InSyncIsPublishedAlways ==
    ASSUME ~Overlap
    PROVE  PullSpec => []InSyncIsPublished
<1>1. PullInit => Known
  BY KnownInit
<1>2. Known /\ [PullNext]_pullVars => Known'
  BY KnownNext
<1>3. Known => InSyncIsPublished
  <2> SUFFICES ASSUME Known, DatasetState = "IN_SYNC", Kind = "invenio",
                      NEW k \in Held(local) \ swapped
               PROVE  Latest(pin.record)[k] \in {None, local[k]}
    BY DEF InSyncIsPublished
  <2>1. pin.record # 0 /\ ~LocalChanged /\ ~RemoteNewer
    BY DEF DatasetState
  <2>2. Undisturbed
    BY DEF Undisturbed
  <2>3. pin.version = pin.index /\ pin.index \in 1..Len(versions[pin.record])
    BY <2>1, <2>2 DEF Known, Numbered, Numbers, PinNamesVersion
  <2>4. Len(versions[pin.record]) \in Nat
    BY <2>1, ValuesAre DEF Known, Base
  <2>5. pin.index = Len(versions[pin.record])
    BY <2>1, <2>3, <2>4 DEF RemoteNewer
  <2>6. local[k] = pin.sums[k] /\ k \in Held(pin.sums) \ swapped
    BY <2>1 DEF LocalChanged, Held
  <2>7. PICK v \in pin.index..(IF faults = 0 THEN pin.index ELSE Len(versions[pin.record])) :
            \/ versions[pin.record][v][k] \in {None, pin.sums[k]}
            \/ versions[pin.record][pin.index][k] = pin.sums[k]
    BY <2>1, <2>6 DEF Known, Served, Fits, Matches
  <2>8. v = pin.index
    BY <2>3, <2>4, <2>5, <2>7
  <2> QED BY <2>5, <2>6, <2>7, <2>8 DEF Latest
<1> QED BY <1>1, <1>2, <1>3, PTL DEF PullSpec
=============================================================================
