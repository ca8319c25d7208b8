--------------------------- MODULE WorkspaceProofs ---------------------------
(***************************************************************************)
(* Proofs about Workspace for every value of its constants.  Type          *)
(* correctness holds for any set of clients.  The promise of revertible    *)
(* versions holds when a single client works on the workspace, foreign     *)
(* writes fall between its operations and its Stat calls do not fail: the  *)
(* README lists the counterexample that each restriction keeps away.       *)
(***************************************************************************)
EXTENDS Workspace, FiniteSetTheorems, TLAPS

LEMMA IdleType == Idle \in Task /\ Shaped(Idle)
  BY DEF Idle, Task, MaybeContent, Shaped

LEMMA InitTypeOK == Init => TypeOK
<1>. SUFFICES ASSUME Init  PROVE TypeOK
  OBVIOUS
<1>1. /\ object \in MaybeContent /\ archive \in [Contents -> MaybeContent]
      /\ want \in [Clients -> MaybeContent] /\ got \in [Clients -> Read \union {NoRead}]
      /\ journal \subseteq Event /\ forgone \subseteq Contents
  BY DEF Init, MaybeContent
<1>2. task \in [Clients -> Task] /\ \A c \in Clients : Shaped(task[c])
  BY IdleType DEF Init
<1>3. torn \in BOOLEAN  BY DEF Init
<1>4. /\ crashes \in 0..MaxCrashes /\ foreign \in 0..MaxForeign
      /\ faults \in 0..MaxFaults
  BY BoundsAssumption DEF Init
<1>. QED BY <1>1, <1>2, <1>3, <1>4 DEF TypeOK

(* The first number an operation would try is a positive natural. *)
LEMMA NextSeqsType ==
  ASSUME NEW E \in SUBSET Event
  PROVE  NextSeqs(E) \subseteq Nat \ {0}
  BY DEF NextSeqs, Event

(* The well-formed tasks, and what storing one in task preserves. *)
TaskOK(t) == t \in Task /\ Shaped(t)
TasksOK == task \in [Clients -> Task] /\ \A c \in Clients : Shaped(task[c])

LEMMA StoreTask ==
  ASSUME TasksOK, NEW c \in Clients, NEW t, TaskOK(t), task' = [task EXCEPT ![c] = t]
  PROVE  TasksOK'
  BY DEF TasksOK, TaskOK

(* A step that only moves the program counter and the observed checksum. *)
LEMMA MoveTask ==
  ASSUME NEW t \in Task, Shaped(t), NEW cur \in MaybeContent,
         NEW pc \in {"idle", "stat", "archive", "copy", "put", "restore", "number",
                     "append", "sweep", "fetch", "blob"},
         pc \in {"archive", "copy"} => cur \in Contents,
         pc \in {"archive", "copy", "number", "append"} => t.op \in {"push", "revert"},
         pc = "put" => t.op = "push",
         pc = "restore" => t.op = "revert",
         pc \in {"fetch", "blob"} => t.op = "read"
  PROVE  TaskOK([t EXCEPT !.pc = pc, !.current = cur])
  BY DEF TaskOK, Task, Shaped

LEMMA GotoTask ==
  ASSUME TasksOK, NEW c \in Clients,
         NEW pc \in {"idle", "stat", "archive", "copy", "put", "restore", "number",
                     "append", "sweep", "fetch", "blob"},
         Goto(c, pc),
         pc \in {"archive", "copy"} => task[c].current \in Contents,
         pc \in {"archive", "copy", "number", "append"} => task[c].op \in {"push", "revert"},
         pc = "put" => task[c].op = "push",
         pc = "restore" => task[c].op = "revert",
         pc \in {"fetch", "blob"} => task[c].op = "read"
  PROVE  TasksOK'
<1>1. task[c] \in Task /\ Shaped(task[c])  BY DEF TasksOK
<1>2. TaskOK([task[c] EXCEPT !.pc = pc])  BY <1>1 DEF TaskOK, Task, Shaped
<1>3. task' = [task EXCEPT ![c] = [task[c] EXCEPT !.pc = pc]]  BY DEF Goto
<1>. QED  BY <1>2, <1>3, StoreTask

LEMMA ObserveTask ==
  ASSUME TasksOK, NEW c \in Clients, NEW cur \in MaybeContent,
         NEW pc \in {"idle", "stat", "archive", "copy", "put", "restore", "number",
                     "append", "sweep", "fetch", "blob"},
         task' = [task EXCEPT ![c].pc = pc, ![c].current = cur],
         pc \in {"archive", "copy"} => cur \in Contents,
         pc \in {"archive", "copy", "number", "append"} => task[c].op \in {"push", "revert"},
         pc = "put" => task[c].op = "push",
         pc = "restore" => task[c].op = "revert",
         pc \in {"fetch", "blob"} => task[c].op = "read"
  PROVE  TasksOK'
<1>1. task[c] \in Task /\ Shaped(task[c])  BY DEF TasksOK
<1>2. TaskOK([task[c] EXCEPT !.pc = pc, !.current = cur])  BY <1>1, MoveTask
<1>3. task' = [task EXCEPT ![c] = [task[c] EXCEPT !.pc = pc, !.current = cur]]
  OBVIOUS
<1>. QED  BY <1>2, <1>3, StoreTask

LEMMA QuitTask ==
  ASSUME TasksOK, NEW c \in Clients, Quit(c)
  PROVE  TasksOK'
  BY IdleType, StoreTask DEF Quit, TaskOK

(* Starting an operation stores a well-formed task. *)
LEMMA StartTask ==
  ASSUME TypeOK, NEW c \in Clients, NEW kind \in {"push", "revert", "gc", "read"},
         NEW m \in MaybeContent, NEW seq \in Nat, Start(c, kind, m, seq),
         kind # "gc" => m \in Contents
  PROVE  TasksOK'
<1>1. PICK n \in NextSeqs(journal) :
        task' = [task EXCEPT ![c] =
             [Idle EXCEPT !.pc = "stat", !.op = kind, !.sum = m, !.to = seq,
                          !.known = journal, !.next = n]]
  BY DEF Start
<1>2. n \in Nat \ {0}
  BY NextSeqsType DEF TypeOK
<1>3. TaskOK([Idle EXCEPT !.pc = "stat", !.op = kind, !.sum = m, !.to = seq,
                          !.known = journal, !.next = n])
  BY <1>2 DEF TypeOK, Idle, Task, MaybeContent, TaskOK, Shaped
<1>. QED  BY <1>1, <1>3, StoreTask DEF TypeOK, TasksOK

LEMMA StepType ==
  ASSUME TypeOK, NEW c \in Clients, Step(c)
  PROVE  TypeOK'
<1>. USE DEF store, counters
<1>t. task[c] \in Task /\ Shaped(task[c]) /\ TasksOK
  BY DEF TypeOK, TasksOK
<1>o. /\ object \in MaybeContent /\ None \in MaybeContent /\ Contents \subseteq MaybeContent
      /\ None \notin Contents
  BY ContentsAssumption DEF TypeOK, MaybeContent
<1>s. ASSUME TasksOK', UNCHANGED <<object, archive, journal, torn, want, got, forgone,
                                  crashes, foreign, faults>>
      PROVE  TypeOK'
  BY <1>s DEF TypeOK, TasksOK
<1>g. ASSUME NEW S \in SUBSET Contents, GiveUp(S)  PROVE forgone' \subseteq Contents
  BY <1>g DEF GiveUp, TypeOK
<1>1. CASE PushNoOp(c)
  BY <1>1, <1>t, <1>o, QuitTask DEF PushNoOp, TypeOK, TasksOK
<1>2. CASE PushStatSettled(c)
  <2>1. PICK step \in {"put", "number"} :
          task' = [task EXCEPT ![c].pc = step, ![c].current = object]
    BY <1>2 DEF PushStatSettled
  <2>2. task[c].op = "push"  BY <1>2 DEF PushStatSettled, AtStat
  <2>3. TasksOK'  BY <2>1, <2>2, <1>t, <1>o, ObserveTask
  <2>. QED BY <1>2, <2>3, <1>s DEF PushStatSettled
<1>3. CASE PushStatSupersedes(c)
  <2>1. task' = [task EXCEPT ![c].pc = "archive", ![c].current = object]
    BY <1>3 DEF PushStatSupersedes
  <2>2. task[c].op = "push" /\ object \in Contents
    BY <1>3, <1>o DEF PushStatSupersedes, AtStat, MaybeContent
  <2>3. TasksOK'  BY <2>1, <2>2, <1>t, <1>o, ObserveTask
  <2>. QED BY <1>3, <2>3, <1>s DEF PushStatSupersedes
<1>4. CASE PushPut(c)
  <2>1. task[c].op = "push" /\ task[c].sum \in Contents  BY <1>4, <1>t DEF PushPut, At, Shaped
  <2>2. TasksOK'  BY <1>4, <2>1, <1>t, GotoTask DEF PushPut
  <2>3. forgone' \subseteq Contents  BY <1>4, <1>g DEF PushPut
  <2>. QED BY <1>4, <2>1, <2>2, <2>3, <1>o DEF PushPut, TypeOK, TasksOK
<1>5. CASE ArchiveStat(c)
  <2>1. task[c].op \in {"push", "revert"} /\ task[c].current \in Contents
    BY <1>5, <1>t DEF ArchiveStat, At, Shaped
  <2>2. PICK pc \in {"copy", "put", "restore"} :
          /\ Goto(c, pc)
          /\ pc = "put" => task[c].op = "push"
          /\ pc = "restore" => task[c].op = "revert"
    BY <1>5, <2>1 DEF ArchiveStat, AfterArchive
  <2>3. TasksOK'  BY <2>1, <2>2, <1>t, GotoTask
  <2>. QED BY <1>5, <2>3, <1>s DEF ArchiveStat
<1>6. CASE ArchiveCopy(c)
  <2>1. task[c].op \in {"push", "revert"} /\ task[c].current \in Contents
    BY <1>6, <1>t DEF ArchiveCopy, At, Shaped
  <2>2. PICK pc \in {"put", "restore"} :
          /\ Goto(c, pc)
          /\ pc = "put" => task[c].op = "push"
          /\ pc = "restore" => task[c].op = "revert"
    BY <1>6, <2>1 DEF ArchiveCopy, AfterArchive
  <2>3. TasksOK'  BY <2>1, <2>2, <1>t, GotoTask
  <2>4. archive' \in [Contents -> MaybeContent]
    BY <1>6 DEF ArchiveCopy, TypeOK
  <2>5. forgone' \subseteq Contents  BY <1>6, <1>g DEF ArchiveCopy
  <2>. QED BY <1>6, <2>3, <2>4, <2>5 DEF ArchiveCopy, TypeOK, TasksOK
<1>7. CASE SourceMissing(c)
  BY <1>7, <1>t, <1>s, QuitTask DEF SourceMissing
<1>8. CASE RevertStat(c)
  <2>1. PICK step \in {"number", "restore", "archive"} :
          /\ task' = [task EXCEPT ![c].pc = step, ![c].current = object]
          /\ step = "archive" => object \in Contents
    BY <1>8, <1>o DEF RevertStat, MaybeContent
  <2>2. task[c].op = "revert"  BY <1>8 DEF RevertStat, AtStat
  <2>3. TasksOK'  BY <2>1, <2>2, <1>t, <1>o, ObserveTask
  <2>. QED BY <1>8, <2>3, <1>s DEF RevertStat
<1>9. CASE RevertStatFault(c)
  <2>0. task[c].op = "revert"  BY <1>9 DEF RevertStatFault, AtStat
  <2>1. TasksOK'  BY <1>9, <2>0, <1>t, GotoTask, QuitTask DEF RevertStatFault
  <2>2. faults' \in 0..MaxFaults
    BY <1>9, BoundsAssumption DEF RevertStatFault, TypeOK
  <2>. QED BY <1>9, <2>1, <2>2 DEF RevertStatFault, TypeOK, TasksOK
<1>10. CASE Restore(c)
  <2>1. task[c].op = "revert" /\ task[c].sum \in Contents
    BY <1>10, <1>t DEF Restore, At, Shaped
  <2>2. TasksOK'  BY <1>10, <2>1, <1>t, GotoTask DEF Restore
  <2>3. forgone' \subseteq Contents  BY <1>10, <1>g DEF Restore
  <2>4. object' \in MaybeContent  BY <1>10, <2>1 DEF Restore, TypeOK
  <2>. QED BY <1>10, <2>2, <2>3, <2>4 DEF Restore, TypeOK, TasksOK
<1>11. CASE AppendStat(c)
  <2>1. task[c].op \in {"push", "revert"}  BY <1>11, <1>t DEF AppendStat, At, Shaped
  <2>2. CASE Taken(task[c].next, task[c].sum)
    <3>1. task' = [task EXCEPT ![c] = [task[c] EXCEPT !.next = @ + 1]]
      BY <1>11, <2>2 DEF AppendStat
    <3>2. TaskOK([task[c] EXCEPT !.next = @ + 1])  BY <1>t DEF TaskOK, Task, Shaped
    <3>. QED BY <1>11, <1>s, <1>t, <3>1, <3>2, StoreTask DEF AppendStat
  <2>3. CASE ~Taken(task[c].next, task[c].sum)
    <3>1. TasksOK'  BY <1>11, <2>1, <2>3, <1>t, GotoTask DEF AppendStat
    <3>. QED BY <1>11, <1>s, <3>1 DEF AppendStat
  <2>. QED BY <2>2, <2>3
<1>12. CASE AppendGivesUp(c)
  BY <1>12, <1>t, <1>s, QuitTask DEF AppendGivesUp
<1>13. CASE AppendPut(c)
  <2>1. task[c].op \in {"push", "revert"} /\ task[c].sum \in Contents
    BY <1>13, <1>t DEF AppendPut, At, Shaped
  <2>2. NewEvent(c) \in Event
    BY <1>t, <2>1 DEF NewEvent, Event, Task, OutOfBand
  <2>3. TasksOK'  BY <1>13, <1>t, QuitTask DEF AppendPut
  <2>4. want' \in [Clients -> MaybeContent]  BY <1>13, <1>o DEF AppendPut, TypeOK
  <2>. QED BY <1>13, <2>2, <2>3, <2>4 DEF AppendPut, TypeOK, TasksOK
<1>14. CASE GCStat(c)
  <2>0. task[c].op = "gc"  BY <1>14 DEF GCStat, AtStat
  <2>1. Victims(task[c].known, object, Keep) \subseteq Contents
    BY <1>t DEF Victims, MD5s, Task, Event
  <2>2. TaskOK([task[c] EXCEPT !.pc = "sweep", !.current = object,
                               !.victims = Victims(task[c].known, object, Keep)])
    BY <1>t, <1>o, <2>0, <2>1 DEF TaskOK, Task, Shaped
  <2>3. task' = [task EXCEPT ![c] = [task[c] EXCEPT !.pc = "sweep", !.current = object,
                               !.victims = Victims(task[c].known, object, Keep)]]
    BY <1>14 DEF GCStat
  <2>. QED BY <1>14, <1>s, <1>t, <2>2, <2>3, StoreTask DEF GCStat
<1>15. CASE GCStatFault(c)
  <2>0. task[c].op = "gc"  BY <1>15 DEF GCStatFault, AtStat
  <2>1. Victims(task[c].known, None, Keep) \subseteq Contents
    BY <1>t DEF Victims, MD5s, Task, Event
  <2>2. TaskOK([task[c] EXCEPT !.pc = "sweep",
                               !.victims = Victims(task[c].known, None, Keep)])
    BY <1>t, <2>0, <2>1 DEF TaskOK, Task, Shaped
  <2>3. task' = [task EXCEPT ![c] = [task[c] EXCEPT !.pc = "sweep",
                               !.victims = Victims(task[c].known, None, Keep)]]
    BY <1>15 DEF GCStatFault
  <2>4. faults' \in 0..MaxFaults
    BY <1>15, BoundsAssumption DEF GCStatFault, TypeOK
  <2>5. TasksOK'  BY <1>t, <2>2, <2>3, StoreTask
  <2>. QED BY <1>15, <2>4, <2>5 DEF GCStatFault, TypeOK, TasksOK
<1>16. CASE GCDelete(c)
  <2>1. PICK m \in task[c].victims :
          /\ archive' = [archive EXCEPT ![m] = None]
          /\ task' = [task EXCEPT ![c].victims = @ \ {m}]
          /\ UNCHANGED <<object, journal, torn, want, got, counters>>
          /\ GiveUp({m})
    BY <1>16 DEF GCDelete
  <2>2. m \in Contents  BY <1>t DEF Task
  <2>3. TaskOK([task[c] EXCEPT !.victims = @ \ {m}])  BY <1>t DEF TaskOK, Task, Shaped
  <2>4. task' = [task EXCEPT ![c] = [task[c] EXCEPT !.victims = @ \ {m}]]  BY <2>1
  <2>5. TasksOK'  BY <2>3, <2>4, <1>t, StoreTask
  <2>6. archive' \in [Contents -> MaybeContent]  BY <2>1, <2>2, <1>o DEF TypeOK
  <2>7. forgone' \subseteq Contents  BY <2>1, <2>2, <1>g
  <2>. QED BY <2>1, <2>5, <2>6, <2>7 DEF TypeOK, TasksOK
<1>17. CASE GCDone(c)
  BY <1>17, <1>t, <1>s, QuitTask DEF GCDone
<1>18. CASE ReadStat(c)
  <2>1. task[c].op = "read"  BY <1>18 DEF ReadStat, AtStat
  <2>2. PICK pc \in {"fetch", "blob"} : Goto(c, pc)  BY <1>18 DEF ReadStat
  <2>3. TasksOK'  BY <2>1, <2>2, <1>t, GotoTask
  <2>. QED BY <1>18, <2>3, <1>s DEF ReadStat
<1>19. CASE ReadObject(c)
  <2>1. task[c].sum \in Contents /\ object \in Contents
    BY <1>19, <1>t, <1>o DEF ReadObject, At, Shaped, MaybeContent
  <2>2. got' \in [Clients -> Read \union {NoRead}]
    BY <1>19, <2>1 DEF ReadObject, Deliver, Read, TypeOK
  <2>3. TasksOK'  BY <1>19, <1>t, QuitTask DEF ReadObject
  <2>. QED BY <1>19, <2>2, <2>3 DEF ReadObject, TypeOK, TasksOK
<1>20. CASE ReadBlob(c)
  <2>1. task[c].sum \in Contents
    BY <1>20, <1>t DEF ReadBlob, At, Shaped
  <2>2. got' \in [Clients -> Read \union {NoRead}]
    BY <1>20, <2>1 DEF ReadBlob, Deliver, Read, TypeOK
  <2>3. TasksOK'  BY <1>20, <1>t, QuitTask DEF ReadBlob
  <2>. QED BY <1>20, <2>2, <2>3 DEF ReadBlob, TypeOK, TasksOK
<1>21. CASE ArchiveStatFault(c)
  <2>1. task[c].op \in {"push", "revert"} /\ task[c].current \in Contents
    BY <1>21, <1>t DEF ArchiveStatFault, At, Shaped
  <2>2. TasksOK'  BY <1>21, <2>1, <1>t, GotoTask DEF ArchiveStatFault
  <2>3. faults' \in 0..MaxFaults
    BY <1>21, BoundsAssumption DEF ArchiveStatFault, TypeOK
  <2>. QED BY <1>21, <2>2, <2>3 DEF ArchiveStatFault, TypeOK, TasksOK
<1>22. CASE AppendStatFault(c)
  <2>1. task[c].op \in {"push", "revert"}
    BY <1>22, <1>t DEF AppendStatFault, At, Shaped
  <2>2. TasksOK'  BY <1>22, <2>1, <1>t, GotoTask DEF AppendStatFault
  <2>3. faults' \in 0..MaxFaults
    BY <1>22, BoundsAssumption DEF AppendStatFault, TypeOK
  <2>. QED BY <1>22, <2>2, <2>3 DEF AppendStatFault, TypeOK, TasksOK
<1>23. CASE GCSkip(c)
  <2>1. PICK m \in task[c].victims : task' = [task EXCEPT ![c].victims = @ \ {m}]
    BY <1>23 DEF GCSkip
  <2>2. TaskOK([task[c] EXCEPT !.victims = @ \ {m}])  BY <1>t DEF TaskOK, Task, Shaped
  <2>3. task' = [task EXCEPT ![c] = [task[c] EXCEPT !.victims = @ \ {m}]]  BY <2>1
  <2>4. TasksOK'  BY <2>2, <2>3, <1>t, StoreTask
  <2>5. faults' \in 0..MaxFaults
    BY <1>23, BoundsAssumption DEF GCSkip, TypeOK
  <2>. QED BY <1>23, <2>4, <2>5 DEF GCSkip, TypeOK, TasksOK
<1>. QED
  BY <1>1, <1>2, <1>3, <1>4, <1>5, <1>6, <1>7, <1>8, <1>9, <1>10, <1>11, <1>12,
     <1>13, <1>14, <1>15, <1>16, <1>17, <1>18, <1>19, <1>20, <1>21, <1>22, <1>23 DEF Step

LEMMA NextType ==
  ASSUME TypeOK, [Next]_vars
  PROVE  TypeOK'
<1>. USE DEF store, counters
<1>o. None \in MaybeContent /\ Contents \subseteq MaybeContent /\ TasksOK
  BY DEF MaybeContent, TypeOK, TasksOK
<1>1. ASSUME NEW c \in Clients, NEW m \in Contents, BeginPush(c, m)
      PROVE  TypeOK'
  <2>1. TasksOK'  BY <1>1, <1>o, StartTask DEF BeginPush
  <2>2. want' \in [Clients -> MaybeContent]  BY <1>1, <1>o DEF BeginPush, TypeOK
  <2>. QED BY <1>1, <2>1, <2>2 DEF BeginPush, Start, TypeOK, TasksOK
<1>2. ASSUME NEW c \in Clients, Rerun(c)
      PROVE  TypeOK'
  <2>1. want[c] \in Contents  BY <1>2 DEF Rerun, TypeOK, MaybeContent
  <2>2. TasksOK'  BY <1>2, <1>o, <2>1, StartTask DEF Rerun
  <2>. QED BY <1>2, <2>2 DEF Rerun, Start, TypeOK, TasksOK
<1>3. ASSUME NEW c \in Clients, Abandon(c)
      PROVE  TypeOK'
  BY <1>3, <1>o DEF Abandon, TypeOK
<1>4. ASSUME NEW c \in Clients, BeginRevert(c)
      PROVE  TypeOK'
  <2>1. PICK e \in journal : Start(c, "revert", e.md5, e.seq)  BY <1>4 DEF BeginRevert
  <2>2. e.md5 \in Contents /\ e.seq \in Nat  BY DEF TypeOK, Event
  <2>3. TasksOK'  BY <1>o, <2>1, <2>2, StartTask
  <2>. QED BY <1>4, <2>1, <2>3 DEF BeginRevert, Start, TypeOK, TasksOK
<1>5. ASSUME NEW c \in Clients, BeginGC(c)
      PROVE  TypeOK'
  <2>1. TasksOK'  BY <1>5, <1>o, StartTask DEF BeginGC
  <2>. QED BY <1>5, <2>1 DEF BeginGC, Start, TypeOK, TasksOK
<1>6. ASSUME NEW c \in Clients, BeginRead(c)
      PROVE  TypeOK'
  <2>1. PICK e \in journal : Start(c, "read", e.md5, e.seq)  BY <1>6 DEF BeginRead
  <2>2. e.md5 \in Contents /\ e.seq \in Nat  BY DEF TypeOK, Event
  <2>3. TasksOK'  BY <1>o, <2>1, <2>2, StartTask
  <2>4. got' \in [Clients -> Read \union {NoRead}]  BY <1>6 DEF BeginRead, TypeOK
  <2>. QED BY <1>6, <2>1, <2>3, <2>4 DEF BeginRead, Start, TypeOK, TasksOK
<1>7. ASSUME NEW c \in Clients, Crash(c)
      PROVE  TypeOK'
  <2>1. TasksOK'  BY <1>7, <1>o, QuitTask DEF Crash
  <2>2. crashes' \in 0..MaxCrashes  BY <1>7, BoundsAssumption DEF Crash, TypeOK
  <2>. QED BY <1>7, <2>1, <2>2 DEF Crash, TypeOK, TasksOK
<1>8. CASE ForeignWrite
  <2>1. foreign' \in 0..MaxForeign  BY <1>8, BoundsAssumption DEF ForeignWrite, TypeOK
  <2>2. forgone' \subseteq Contents
    BY <1>8 DEF ForeignWrite, GiveUp, TypeOK, MaybeContent
  <2>3. object' \in MaybeContent  BY <1>8 DEF ForeignWrite
  <2>. QED BY <1>8, <2>1, <2>2, <2>3 DEF ForeignWrite, TypeOK
<1>9. CASE UNCHANGED vars
  BY <1>9 DEF vars, TypeOK
<1>10. ASSUME NEW c \in Clients, JournalCorrupt(c)
       PROVE  TypeOK'
  BY <1>10, <1>o DEF JournalCorrupt, TypeOK
<1>11. ASSUME NEW c \in Clients, AppendDies(c)
       PROVE  TypeOK'
  <2>t. task[c] \in Task /\ Shaped(task[c])  BY DEF TypeOK
  <2>1. task[c].op \in {"push", "revert"} /\ task[c].sum \in Contents
    BY <1>11, <2>t DEF AppendDies, At, Shaped
  <2>2. NewEvent(c) \in Event
    BY <2>t, <2>1 DEF NewEvent, Event, Task, OutOfBand
  <2>3. TasksOK'  BY <1>11, <1>o, QuitTask DEF AppendDies
  <2>4. crashes' \in 0..MaxCrashes  BY <1>11, BoundsAssumption DEF AppendDies, TypeOK
  <2>5. journal' \subseteq Event /\ torn' \in BOOLEAN
    BY <1>11, <2>2 DEF AppendDies, TypeOK
  <2>. QED BY <1>11, <2>3, <2>4, <2>5 DEF AppendDies, TypeOK, TasksOK
<1>. QED
  BY <1>1, <1>2, <1>3, <1>4, <1>5, <1>6, <1>7, <1>8, <1>9, <1>10, <1>11, StepType
     DEF Next, Begin

(* Every reachable state is well typed, whatever the clients, the contents *)
(* and the bounds.                                                         *)
THEOREM TypeCorrect == Spec => []TypeOK
  BY InitTypeOK, NextType, PTL DEF Spec

-----------------------------------------------------------------------------
(* Giving up S keeps every version revertible when the step costs no other *)
(* content than those of S.                                                *)
LEMMA RevertibleKept ==
  ASSUME Revertible, NEW S, GiveUp(S), journal' = journal,
         Available(object, archive) \ S \subseteq Available(object', archive')
  PROVE  Revertible'
  BY DEF Revertible, GiveUp

(* With one client, the invariant follows from what holds of that client.  *)
LEMMA SoloKept ==
  ASSUME Alone, SoloInv, NEW c \in Clients,
         UNCHANGED <<object, archive, journal, forgone>>,
         task'[c].pc = "idle" \/ Safe(task[c])' 
  PROVE  SoloInv'
<1>1. \A d \in Clients : d = c  BY DEF Alone
<1>2. \A d \in Clients : (At(d, "idle") \/ Safe(task[d]))'  BY <1>1 DEF At
<1>3. (\A m \in Contents : archive[m] \in {None, m})'  BY DEF SoloInv
<1>4. Revertible' /\ JournalNumbered'
  BY DEF SoloInv, Revertible, JournalNumbered, MD5s, Available
<1>. QED  BY <1>2, <1>3, <1>4 DEF SoloInv

LEMMA SoloInit == Init => SoloInv
  BY DEF Init, SoloInv, At, Idle, Revertible, JournalNumbered, MD5s

(* An operation starts with the whole journal in hand and the number right *)
(* after the last one.                                                     *)
LEMMA SoloStart ==
  ASSUME Alone, TypeOK, SoloInv, NEW c \in Clients, NEW kind, NEW m, NEW seq,
         Start(c, kind, m, seq)
  PROVE  SoloInv'
<1>1. PICK n \in NextSeqs(journal) :
        task' = [task EXCEPT ![c] =
             [Idle EXCEPT !.pc = "stat", !.op = kind, !.sum = m, !.to = seq,
                          !.known = journal, !.next = n]]
  BY DEF Start
<1>2. UNCHANGED <<object, archive, journal, forgone>>  BY DEF Start, store
<1>3. /\ \A e \in journal : e.seq < n
      /\ n = 1 \/ \E e \in journal : e.seq = n - 1
  <2>1. CASE journal = {}  BY <2>1 DEF NextSeqs
  <2>2. CASE journal # {}
    <3>1. PICK e \in journal : IsLast(e, journal) /\ n = e.seq + 1
      BY <2>2 DEF NextSeqs
    <3>2. \A f \in journal : f.seq \in Nat /\ f.seq <= e.seq
      BY <3>1 DEF IsLast, Newer, TypeOK, Event
    <3>. QED  BY <3>1, <3>2
  <2>. QED  BY <2>1, <2>2
<1>4. task'[c] = [Idle EXCEPT !.pc = "stat", !.op = kind, !.sum = m, !.to = seq,
                              !.known = journal, !.next = n]
  BY <1>1 DEF TypeOK
<1>5. /\ task'[c].pc = "stat" /\ task'[c].known = journal /\ task'[c].next = n
  BY <1>4 DEF Idle
<1>6. Safe(task[c])'  BY <1>2, <1>3, <1>5 DEF Safe
<1>. QED  BY <1>2, <1>6, SoloKept

(* The steps that only look at the store. *)
LEMMA SoloLook ==
  ASSUME Alone, TypeOK, SoloInv, NEW c \in Clients, ~At(c, "idle"),
         UNCHANGED <<store, forgone>>,
         /\ task'[c].known = task[c].known
         /\ task'[c].next = task[c].next,
         task'[c].pc \in {"archive", "copy"} => object = task'[c].current,
         task'[c].pc \in {"put", "restore"} =>
            object \in {None, task'[c].sum} \/ archive[object] = object,
         task'[c].pc \in {"number", "append"} => object = task'[c].sum
  PROVE  SoloInv'
<1>1. Safe(task[c])  BY DEF SoloInv
<1>2. Safe(task[c])'  BY <1>1 DEF Safe, store
<1>. QED  BY <1>2, SoloKept DEF store

LEMMA SoloQuit ==
  ASSUME Alone, TypeOK, SoloInv, NEW c \in Clients, Quit(c),
         UNCHANGED <<store, forgone>>
  PROVE  SoloInv'
<1>1. task'[c].pc = "idle"  BY DEF Quit, Idle, TypeOK
<1>. QED  BY <1>1, SoloKept DEF store

(* The entry the operation is about to write enters the journal. *)
Enters(c) ==
    /\ At(c, "append")
    /\ journal' = {e \in journal : ~(e.seq = task[c].next /\ e.md5 = task[c].sum)}
                     \union {NewEvent(c)}

LEMMA SoloEntry ==
  ASSUME Alone, TypeOK, SoloInv, NEW c \in Clients, Enters(c), Quit(c),
         UNCHANGED <<object, archive, forgone>>
  PROVE  SoloInv'
<1>t. task[c] \in Task /\ Shaped(task[c])  BY DEF TypeOK
<1>h. \A m \in Contents : archive[m] \in {None, m}  BY DEF SoloInv
<1>d. \A d \in Clients : d = c  BY DEF Alone
<1>1. Safe(task[c])  BY DEF SoloInv, Enters, At
<1>2. object = task[c].sum /\ object \in Contents
  BY <1>1, <1>t DEF Enters, At, Safe, Shaped
<1>3. NewEvent(c).seq = task[c].next /\ NewEvent(c).md5 = object
  BY <1>2 DEF NewEvent
<1>4. \A e \in journal : e.seq \in Nat /\ e.seq < task[c].next
  BY <1>1 DEF Safe, TypeOK, Event
<1>5. task[c].next \in Nat  BY <1>t DEF Task
<1>6. journal' = journal \union {NewEvent(c)}
  BY <1>4, <1>5 DEF Enters
<1>7. Revertible'
  <2>1. MD5s(journal') = MD5s(journal) \union {object}  BY <1>6, <1>3 DEF MD5s
  <2>2. object \in Available(object', archive')  BY <1>2 DEF Available
  <2>. QED BY <2>1, <2>2 DEF Revertible, SoloInv, Available
<1>8. JournalNumbered'
  <2>1. \A e, f \in journal' : e.seq = f.seq => e = f
    BY <1>3, <1>4, <1>5, <1>6 DEF SoloInv, JournalNumbered
  <2>2. task[c].next = 1 \/ \E e \in journal : e.seq = task[c].next - 1
    BY <1>1 DEF Safe
  <2>3. \A e \in journal' : e.seq = 1 \/ \E f \in journal' : f.seq = e.seq - 1
    BY <1>3, <1>6, <2>2 DEF SoloInv, JournalNumbered
  <2>. QED BY <2>1, <2>3 DEF JournalNumbered
<1>9. task'[c].pc = "idle"  BY DEF Quit, Idle, TypeOK
<1>. QED BY <1>7, <1>8, <1>9, <1>d, <1>h DEF SoloInv, At

LEMMA SoloStep ==
  ASSUME Alone, TypeOK, SoloInv, NEW c \in Clients, Step(c)
  PROVE  SoloInv'
<1>t. task[c] \in Task /\ Shaped(task[c])  BY DEF TypeOK
<1>s. ~At(c, "idle") => Safe(task[c])  BY DEF SoloInv
<1>o. object \in Contents \/ object = None  BY DEF TypeOK, MaybeContent
<1>h. \A m \in Contents : archive[m] \in {None, m}  BY DEF SoloInv
<1>d. \A d \in Clients : d = c  BY DEF Alone
<1>1. CASE PushNoOp(c)
  BY <1>1, SoloQuit DEF PushNoOp
<1>2. CASE PushStatSettled(c)
  <2>1. PICK step \in {"put", "number"} :
          /\ task' = [task EXCEPT ![c].pc = step, ![c].current = object]
          /\ step = "number" => object = task[c].sum
    BY <1>2, <1>o DEF PushStatSettled
  <2>2. object \in {None, task[c].sum}  BY <1>2 DEF PushStatSettled
  <2>3. /\ task'[c].pc = step /\ task'[c].sum = task[c].sum
        /\ task'[c].known = task[c].known /\ task'[c].next = task[c].next
    BY <2>1, <1>t DEF TypeOK, Task
  <2>4. ~At(c, "idle") /\ UNCHANGED <<store, forgone>>
    BY <1>2 DEF PushStatSettled, AtStat, At
  <2>. QED BY <2>1, <2>2, <2>3, <2>4, SoloLook
<1>3. CASE PushStatSupersedes(c)
  <2>1. /\ task'[c].pc = "archive" /\ task'[c].current = object
        /\ task'[c].known = task[c].known /\ task'[c].next = task[c].next
    BY <1>3, <1>t DEF PushStatSupersedes, TypeOK, Task
  <2>2. ~At(c, "idle") /\ UNCHANGED <<store, forgone>>
    BY <1>3 DEF PushStatSupersedes, AtStat, At
  <2>. QED BY <2>1, <2>2, SoloLook
<1>5. CASE ArchiveStat(c)
  <2>1. PICK pc \in {"copy", "put", "restore"} :
          /\ Goto(c, pc)
          /\ pc # "copy" => archive[task[c].current] # None
    BY <1>5 DEF ArchiveStat, AfterArchive
  <2>2. At(c, "archive") /\ ~At(c, "idle") /\ UNCHANGED <<store, forgone>>
    BY <1>5 DEF ArchiveStat, At
  <2>3. object = task[c].current /\ object \in Contents
    BY <2>2, <1>s, <1>t DEF Safe, Shaped, At
  <2>4. /\ task'[c].pc = pc /\ task'[c].current = task[c].current
        /\ task'[c].known = task[c].known /\ task'[c].next = task[c].next
    BY <2>1, <1>t DEF TypeOK, Task, Goto
  <2>5. pc # "copy" => archive[object] = object  BY <2>1, <2>3, <1>h
  <2>. QED BY <2>2, <2>3, <2>4, <2>5, SoloLook
<1>6. CASE ArchiveCopy(c)
  <2>1. PICK pc \in {"put", "restore"} : Goto(c, pc)
    BY <1>6 DEF ArchiveCopy, AfterArchive
  <2>2. object = task[c].current /\ object \in Contents /\ Safe(task[c])
    BY <1>6, <1>s, <1>t DEF ArchiveCopy, Safe, Shaped, At
  <2>3. archive' = [archive EXCEPT ![object] = object]  BY <1>6, <2>2 DEF ArchiveCopy
  <2>4. UNCHANGED <<object, journal>> /\ GiveUp({})  BY <1>6 DEF ArchiveCopy
  <2>5. \A m \in Contents : archive'[m] \in {None, m}  BY <2>3, <1>h DEF TypeOK
  <2>6. archive'[object] = object  BY <2>2, <2>3 DEF TypeOK
  <2>7. Available(object, archive) \subseteq Available(object', archive')
    BY <2>3, <2>4, <2>6 DEF Available, TypeOK
  <2>8. Revertible'  BY <2>4, <2>7, RevertibleKept DEF SoloInv
  <2>9. JournalNumbered'  BY <2>4 DEF SoloInv, JournalNumbered
  <2>10. /\ task'[c].pc = pc
         /\ task'[c].known = task[c].known /\ task'[c].next = task[c].next
    BY <2>1, <1>t DEF TypeOK, Task, Goto
  <2>11. Safe(task[c])'  BY <2>2, <2>4, <2>6, <2>10 DEF Safe
  <2>. QED BY <2>5, <2>8, <2>9, <2>11, <1>d DEF SoloInv
<1>4. CASE PushPut(c)
  <2>1. task[c].sum \in Contents /\ Safe(task[c]) /\ Goto(c, "number")
    BY <1>4, <1>s, <1>t DEF PushPut, Shaped, At
  <2>2. object' = task[c].sum /\ UNCHANGED <<archive, journal>> /\ GiveUp({})
    BY <1>4 DEF PushPut
  <2>3. object \in {None, task[c].sum} \/ archive[object] = object
    BY <1>4, <2>1 DEF PushPut, Safe, At
  <2>4. Available(object, archive) \subseteq Available(object', archive')
    BY <2>2, <2>3, ContentsAssumption DEF Available
  <2>5. Revertible'  BY <2>2, <2>4, RevertibleKept DEF SoloInv
  <2>6. JournalNumbered'  BY <2>2 DEF SoloInv, JournalNumbered
  <2>7. /\ task'[c].pc = "number" /\ task'[c].sum = task[c].sum
        /\ task'[c].known = task[c].known /\ task'[c].next = task[c].next
    BY <2>1, <1>t DEF TypeOK, Task, Goto
  <2>8. Safe(task[c])'  BY <2>1, <2>2, <2>7 DEF Safe
  <2>. QED BY <2>2, <2>5, <2>6, <2>8, <1>d, <1>h DEF SoloInv
<1>7. CASE SourceMissing(c)
  BY <1>7, SoloQuit DEF SourceMissing
<1>8. CASE RevertStat(c)
  <2>1. PICK step \in {"number", "restore", "archive"} :
          /\ task' = [task EXCEPT ![c].pc = step, ![c].current = object]
          /\ step = "number" => object = task[c].sum
          /\ step = "restore" => object = None
    BY <1>8 DEF RevertStat
  <2>2. /\ task'[c].pc = step /\ task'[c].sum = task[c].sum /\ task'[c].current = object
        /\ task'[c].known = task[c].known /\ task'[c].next = task[c].next
    BY <2>1, <1>t DEF TypeOK, Task
  <2>3. ~At(c, "idle") /\ UNCHANGED <<store, forgone>>
    BY <1>8 DEF RevertStat, AtStat, At
  <2>. QED BY <2>1, <2>2, <2>3, SoloLook
<1>9. CASE RevertStatFault(c) \/ ArchiveStatFault(c) \/ AppendStatFault(c) \/ GCSkip(c)
  BY <1>9 DEF RevertStatFault, ArchiveStatFault, AppendStatFault, GCSkip, Alone, TypeOK
<1>10. CASE Restore(c)
  <2>1. task[c].sum \in Contents /\ Safe(task[c]) /\ Goto(c, "number")
    BY <1>10, <1>s, <1>t DEF Restore, Shaped, At
  <2>2. object' = task[c].sum /\ UNCHANGED <<archive, journal>> /\ GiveUp({})
    BY <1>10, <2>1, <1>h DEF Restore
  <2>3. object \in {None, task[c].sum} \/ archive[object] = object
    BY <1>10, <2>1 DEF Restore, Safe, At
  <2>4. Available(object, archive) \subseteq Available(object', archive')
    BY <2>2, <2>3, ContentsAssumption DEF Available
  <2>5. Revertible'  BY <2>2, <2>4, RevertibleKept DEF SoloInv
  <2>6. JournalNumbered'  BY <2>2 DEF SoloInv, JournalNumbered
  <2>7. /\ task'[c].pc = "number" /\ task'[c].sum = task[c].sum
        /\ task'[c].known = task[c].known /\ task'[c].next = task[c].next
    BY <2>1, <1>t DEF TypeOK, Task, Goto
  <2>8. Safe(task[c])'  BY <2>1, <2>2, <2>7 DEF Safe
  <2>. QED BY <2>2, <2>5, <2>6, <2>8, <1>d, <1>h DEF SoloInv
<1>11. CASE AppendStat(c)
  <2>1. At(c, "number") /\ Safe(task[c]) /\ UNCHANGED <<store, forgone>>
    BY <1>11, <1>s DEF AppendStat, At
  <2>2. ~Taken(task[c].next, task[c].sum)
    BY <2>1, <1>t DEF Taken, Safe, TypeOK, Event, Task
  <2>3. Goto(c, "append")  BY <1>11, <2>2 DEF AppendStat
  <2>4. /\ task'[c].pc = "append" /\ task'[c].sum = task[c].sum
        /\ task'[c].known = task[c].known /\ task'[c].next = task[c].next
    BY <2>3, <1>t DEF TypeOK, Task, Goto
  <2>. QED BY <2>1, <2>4, SoloLook DEF Safe, At
<1>12. CASE AppendGivesUp(c)
  BY <1>12, SoloQuit DEF AppendGivesUp
<1>13. CASE AppendPut(c)
  BY <1>13, SoloEntry DEF AppendPut, Enters
<1>14. CASE GCStat(c)
  <2>1. /\ task'[c].pc = "sweep"
        /\ task'[c].known = task[c].known /\ task'[c].next = task[c].next
    BY <1>14, <1>t DEF GCStat, TypeOK, Task
  <2>2. ~At(c, "idle") /\ UNCHANGED <<store, forgone>>
    BY <1>14 DEF GCStat, AtStat, At
  <2>. QED BY <2>1, <2>2, SoloLook
<1>15. CASE GCStatFault(c)
  BY <1>15 DEF GCStatFault, Alone, TypeOK
<1>16. CASE GCDelete(c)
  <2>1. PICK m \in task[c].victims :
          /\ archive' = [archive EXCEPT ![m] = None]
          /\ task' = [task EXCEPT ![c].victims = @ \ {m}]
          /\ UNCHANGED <<object, journal, torn, want, got, counters>>
          /\ GiveUp({m})
    BY <1>16 DEF GCDelete
  <2>2. m \in Contents  BY <1>t DEF Task
  <2>3. \A n \in Contents : archive'[n] \in {None, n}  BY <2>1, <1>h DEF TypeOK
  <2>4. Available(object, archive) \ {m} \subseteq Available(object', archive')
    BY <2>1, <2>2 DEF Available, TypeOK
  <2>5. Revertible'  BY <2>1, <2>4, RevertibleKept DEF SoloInv
  <2>6. JournalNumbered'  BY <2>1 DEF SoloInv, JournalNumbered
  <2>7. /\ task'[c].pc = task[c].pc
        /\ task'[c].known = task[c].known /\ task'[c].next = task[c].next
    BY <2>1, <1>t DEF TypeOK, Task
  <2>8. At(c, "sweep") /\ Safe(task[c])  BY <1>16, <1>s DEF GCDelete, At
  <2>9. Safe(task[c])'  BY <2>1, <2>7, <2>8 DEF Safe, At
  <2>. QED BY <2>3, <2>5, <2>6, <2>9, <1>d DEF SoloInv
<1>17. CASE GCDone(c)
  BY <1>17, SoloQuit DEF GCDone
<1>18. CASE ReadStat(c)
  <2>1. PICK pc \in {"fetch", "blob"} : Goto(c, pc)  BY <1>18 DEF ReadStat
  <2>2. /\ task'[c].pc = pc
        /\ task'[c].known = task[c].known /\ task'[c].next = task[c].next
    BY <2>1, <1>t DEF TypeOK, Task, Goto
  <2>3. ~At(c, "idle") /\ UNCHANGED <<store, forgone>>
    BY <1>18 DEF ReadStat, AtStat, At
  <2>. QED BY <2>2, <2>3, SoloLook
<1>19. CASE ReadObject(c)
  BY <1>19, SoloQuit DEF ReadObject
<1>20. CASE ReadBlob(c)
  BY <1>20, SoloQuit DEF ReadBlob
<1>. QED
  BY <1>1, <1>2, <1>3, <1>4, <1>5, <1>6, <1>7, <1>8, <1>9, <1>10, <1>11, <1>12,
     <1>13, <1>14, <1>15, <1>16, <1>17, <1>18, <1>19, <1>20 DEF Step

LEMMA SoloNext ==
  ASSUME Alone, TypeOK, SoloInv, [Next]_vars
  PROVE  SoloInv'
<1>1. ASSUME NEW c \in Clients, Begin(c) \/ Rerun(c)
      PROVE  SoloInv'
  BY <1>1, SoloStart DEF Begin, BeginPush, BeginRevert, BeginGC, BeginRead, Rerun
<1>2. ASSUME NEW c \in Clients, Abandon(c)
      PROVE  SoloInv'
  <2>1. UNCHANGED <<object, archive, journal, forgone, task>>  BY <1>2 DEF Abandon, store
  <2>2. task'[c].pc = "idle"  BY <1>2, <2>1 DEF Abandon, At
  <2>. QED BY <2>1, <2>2, SoloKept
<1>3. ASSUME NEW c \in Clients, Crash(c)
      PROVE  SoloInv'
  BY <1>3, SoloQuit DEF Crash
<1>4. CASE ForeignWrite
  <2>1. \A c \in Clients : task'[c].pc = "idle"
    BY <1>4 DEF ForeignWrite, Alone, At
  <2>2. UNCHANGED <<archive, journal>> /\ GiveUp({object} \ {None})
    BY <1>4 DEF ForeignWrite
  <2>3. Available(object, archive) \ ({object} \ {None}) \subseteq Available(object', archive')
    BY <2>2, ContentsAssumption DEF Available
  <2>4. Revertible'  BY <2>2, <2>3, RevertibleKept DEF SoloInv
  <2>5. JournalNumbered'  BY <2>2 DEF SoloInv, JournalNumbered
  <2>. QED BY <2>1, <2>2, <2>4, <2>5 DEF SoloInv, At
<1>6. ASSUME NEW c \in Clients, JournalCorrupt(c)
      PROVE  SoloInv'
  <2>1. UNCHANGED <<object, archive, journal, forgone, task>>
    BY <1>6 DEF JournalCorrupt, store
  <2>2. task'[c].pc = "idle"  BY <1>6, <2>1 DEF JournalCorrupt, At
  <2>. QED BY <2>1, <2>2, SoloKept
<1>7. ASSUME NEW c \in Clients, AppendDies(c)
      PROVE  SoloInv'
  <2>1. Quit(c) /\ UNCHANGED <<object, archive, forgone>>  BY <1>7 DEF AppendDies
  <2>2. CASE journal' = journal
    <3>1. task'[c].pc = "idle"  BY <2>1 DEF Quit, Idle, TypeOK
    <3>. QED BY <2>1, <2>2, <3>1, SoloKept
  <2>3. CASE Enters(c)  BY <2>1, <2>3, SoloEntry
  <2>. QED BY <1>7, <2>2, <2>3 DEF AppendDies, Enters
<1>5. CASE UNCHANGED vars
  <2>1. UNCHANGED <<object, archive, journal, forgone, task>>  BY <1>5 DEF vars, store
  <2>. QED BY <2>1 DEF SoloInv, At, Safe, Revertible, JournalNumbered, MD5s, Available
<1>. QED
  BY <1>1, <1>2, <1>3, <1>4, <1>5, <1>6, <1>7, SoloStep DEF Next

(* The promise of workspace.go: with one client at a time, every version   *)
(* in the journal is current, archived, or was given up on purpose; a      *)
(* crash anywhere in a push, a revert or a gc costs nothing.               *)
THEOREM RevertibleAlone ==
  ASSUME Alone
  PROVE  Spec => []Revertible
<1>1. Spec => []SoloInv
  BY SoloInit, SoloNext, TypeCorrect, PTL DEF Spec
<1>. QED  BY <1>1, PTL DEF SoloInv

(* With one client at a time the journal numbers versions 1, 2, 3, ... so  *)
(* that a number names one version.                                        *)
THEOREM NumberedAlone ==
  ASSUME Alone
  PROVE  Spec => []JournalNumbered
<1>1. Spec => []SoloInv
  BY SoloInit, SoloNext, TypeCorrect, PTL DEF Spec
<1>. QED  BY <1>1, PTL DEF SoloInv

-----------------------------------------------------------------------------
(***************************************************************************)
(* Refinement: a lone client implements VersionStore.                      *)
(***************************************************************************)

(* Steps that leave the store and the count of outside writes alone are    *)
(* stutters.                                                               *)
LEMMA StoreStutters ==
  ASSUME UNCHANGED <<object, archive, journal, foreign>>
  PROVE  UNCHANGED VS!vars
  BY DEF VS!vars, Available

(* An entry that enters the journal is a version recorded. *)
LEMMA EntryRefines ==
  ASSUME Alone, TypeOK, SoloInv, NEW c \in Clients, Enters(c),
         UNCHANGED <<object, archive, foreign>>
  PROVE  VS!Record
<1>t. task[c] \in Task /\ Shaped(task[c])  BY DEF TypeOK
<1>1. Safe(task[c])  BY DEF SoloInv, Enters, At
<1>2. object = task[c].sum /\ object \in Contents
  BY <1>1, <1>t DEF Enters, At, Safe, Shaped
<1>3. NewEvent(c).seq = task[c].next /\ NewEvent(c).md5 = object
  BY <1>2 DEF NewEvent
<1>4. \A e \in journal : e.seq \in Nat /\ e.seq < task[c].next
  BY <1>1 DEF Safe, TypeOK, Event
<1>5. task[c].next \in Nat \ {0}  BY <1>t DEF Task
<1>6. journal' = journal \union {NewEvent(c)}
  BY <1>4, <1>5 DEF Enters
<1> DEFINE H == {<<e.seq, e.md5>> : e \in journal}
           v == <<task[c].next, object>>
<1>7. {<<e.seq, e.md5>> : e \in journal'} = H \union {v}
  BY <1>3, <1>6
<1>8. \A w \in H : w[1] < v[1]  BY <1>4
<1>9. object # None  BY <1>2, ContentsAssumption
<1>10. v \in {<<e.seq, e.md5>> : e \in journal'}  BY <1>7
<1>11. v[2] = object /\ v[1] \in Nat \ {0}  BY <1>5
<1>12. UNCHANGED Available(object, archive)
  BY DEF Available
<1>13. \E u \in {<<e.seq, e.md5>> : e \in journal'} :
          /\ {<<e.seq, e.md5>> : e \in journal'} = H \union {u}
          /\ u[2] = object
          /\ u[1] \in Nat \ {0} /\ \A w \in H : w[1] < u[1]
  <2>. HIDE DEF H, v
  <2>. QED BY <1>7, <1>8, <1>10, <1>11
<1>. QED BY <1>9, <1>12, <1>13 DEF VS!Record

(* A client's step is a stutter or one step of the abstract store. *)
LEMMA StepRefines ==
  ASSUME Alone, TypeOK, SoloInv, NEW c \in Clients, Step(c)
  PROVE  [VS!Next]_(VS!vars)
<1>t. task[c] \in Task /\ Shaped(task[c])  BY DEF TypeOK
<1>s. ~At(c, "idle") => Safe(task[c])  BY DEF SoloInv
<1>h. \A m \in Contents : archive[m] \in {None, m}  BY DEF SoloInv
<1>1. ASSUME NEW m \in Contents, object' = m, UNCHANGED <<archive, journal, foreign>>,
             object \in {None, m} \/ archive[object] = object
      PROVE  VS!Supersede(m)
  BY <1>1, ContentsAssumption DEF VS!Supersede, Available
<1>2. CASE PushPut(c)
  <2>1. task[c].sum \in Contents /\ Safe(task[c])
    BY <1>2, <1>s, <1>t DEF PushPut, Shaped, At
  <2>2. object \in {None, task[c].sum} \/ archive[object] = object
    BY <1>2, <2>1 DEF PushPut, Safe, At
  <2>3. VS!Supersede(task[c].sum)  BY <1>2, <2>1, <2>2, <1>1 DEF PushPut, counters
  <2>. QED BY <2>1, <2>3 DEF VS!Next
<1>3. CASE Restore(c)
  <2>1. task[c].sum \in Contents /\ Safe(task[c])
    BY <1>3, <1>s, <1>t DEF Restore, Shaped, At
  <2>2. object \in {None, task[c].sum} \/ archive[object] = object
    BY <1>3, <2>1 DEF Restore, Safe, At
  <2>3. VS!Supersede(task[c].sum)  BY <1>3, <2>1, <2>2, <1>1, <1>h DEF Restore, counters
  <2>. QED BY <2>1, <2>3 DEF VS!Next
<1>4. CASE ArchiveCopy(c)
  <2>1. object = task[c].current /\ object \in Contents
    BY <1>4, <1>s, <1>t DEF ArchiveCopy, Safe, Shaped, At
  <2>2. archive' = [archive EXCEPT ![object] = object] /\ UNCHANGED <<object, journal, foreign>>
    BY <1>4, <2>1 DEF ArchiveCopy, counters
  <2>3. Available(object', archive') = Available(object, archive)
    BY <2>1, <2>2 DEF Available, TypeOK
  <2>. QED BY <2>2, <2>3 DEF VS!vars
<1>5. CASE AppendPut(c)
  BY <1>5, EntryRefines DEF AppendPut, Enters, counters, VS!Next
<1>6. CASE GCDelete(c)
  <2>1. PICK m \in task[c].victims :
          /\ archive' = [archive EXCEPT ![m] = None]
          /\ UNCHANGED <<object, journal, foreign>>
    BY <1>6 DEF GCDelete, counters
  <2>2. m \in Contents /\ m # None  BY <1>t, ContentsAssumption DEF Task
  <2>3. CASE m = object
    <3>1. Available(object', archive') = Available(object, archive)
      BY <2>1, <2>2, <2>3 DEF Available, TypeOK
    <3>. QED BY <2>1, <3>1 DEF VS!vars
  <2>4. CASE m # object
    <3>1. Available(object', archive') = Available(object, archive) \ {m}
      BY <2>1, <2>2, <2>4 DEF Available, TypeOK
    <3>2. VS!Reclaim(m)  BY <2>1, <2>4, <3>1 DEF VS!Reclaim
    <3>. QED BY <2>2, <3>2 DEF VS!Next
  <2>. QED BY <2>3, <2>4
<1>7. CASE \/ PushNoOp(c) \/ PushStatSettled(c) \/ PushStatSupersedes(c)
           \/ ArchiveStat(c) \/ SourceMissing(c)
           \/ RevertStat(c) \/ RevertStatFault(c) \/ ArchiveStatFault(c)
           \/ AppendStat(c) \/ AppendStatFault(c) \/ AppendGivesUp(c)
           \/ GCStat(c) \/ GCStatFault(c) \/ GCSkip(c) \/ GCDone(c)
           \/ ReadStat(c) \/ ReadObject(c) \/ ReadBlob(c)
  <2>1. UNCHANGED <<object, archive, journal, foreign>>
    BY <1>7 DEF PushNoOp, PushStatSettled, PushStatSupersedes, ArchiveStat, SourceMissing,
       RevertStat, RevertStatFault, ArchiveStatFault, AppendStat, AppendStatFault,
       AppendGivesUp, GCStat, GCStatFault, GCSkip, GCDone, ReadStat, ReadObject,
       ReadBlob, store, counters
  <2>. QED BY <2>1, StoreStutters
<1>. QED  BY <1>2, <1>3, <1>4, <1>5, <1>6, <1>7 DEF Step

LEMMA NextRefines ==
  ASSUME Alone, TypeOK, SoloInv, [Next]_vars
  PROVE  [VS!Next]_(VS!vars)
<1>1. CASE ForeignWrite
  <2>1. PICK m \in MaybeContent \ {object} : object' = m
    BY <1>1 DEF ForeignWrite
  <2>2. UNCHANGED <<archive, journal>> /\ foreign' = foreign + 1  BY <1>1 DEF ForeignWrite
  <2> DEFINE lost == {n \in {object} \ {None} : archive[n] # n}
  <2>3. lost \in SUBSET ({object} \ {m})  BY <2>1
  <2>4. Available(object', archive') =
          (Available(object, archive) \union ({m} \ {None})) \ lost
    BY <2>1, <2>2, ContentsAssumption DEF Available, MaybeContent
  <2>5. VS!Overwrite(m)
    <3>. HIDE DEF lost
    <3>. QED BY <2>1, <2>2, <2>3, <2>4 DEF VS!Overwrite
  <2>. QED BY <2>1, <2>5 DEF VS!Next, MaybeContent
<1>2. ASSUME NEW c \in Clients,
             Begin(c) \/ Rerun(c) \/ Abandon(c) \/ JournalCorrupt(c) \/ Crash(c)
      PROVE  UNCHANGED VS!vars
  <2>1. UNCHANGED <<object, archive, journal, foreign>>
    BY <1>2 DEF Begin, BeginPush, BeginRevert, BeginGC, BeginRead, Rerun, Abandon,
       JournalCorrupt, Crash, Start, store, counters
  <2>. QED BY <2>1, StoreStutters
<1>4. ASSUME NEW c \in Clients, AppendDies(c)
      PROVE  [VS!Next]_(VS!vars)
  <2>1. UNCHANGED <<object, archive, foreign>>  BY <1>4 DEF AppendDies
  <2>2. CASE journal' = journal  BY <2>1, <2>2, StoreStutters
  <2>3. CASE Enters(c)  BY <2>1, <2>3, EntryRefines DEF VS!Next
  <2>. QED BY <1>4, <2>2, <2>3 DEF AppendDies, Enters
<1>3. CASE UNCHANGED vars
  BY <1>3, StoreStutters DEF vars, store, counters
<1>. QED  BY <1>1, <1>2, <1>3, <1>4, StepRefines DEF Next

(* A lone client implements the abstract store: superseding a content never *)
(* costs its bytes, history only grows at its end and names only what was   *)
(* current, and bytes go only by retention or from outside.                 *)
THEOREM RefinesVersionStore ==
  ASSUME Alone
  PROVE  Spec => VersionStoreSpec
<1>1. Init => VS!Init
  BY ContentsAssumption DEF Init, VS!Init, Available
<1>2. Spec => []SoloInv
  BY SoloInit, SoloNext, TypeCorrect, PTL DEF Spec
<1>. QED  BY <1>1, <1>2, NextRefines, TypeCorrect, PTL DEF Spec, VS!Spec, VersionStoreSpec

-----------------------------------------------------------------------------
(***************************************************************************)
(* What the key holds is journaled, for any number of racing clients.      *)
(***************************************************************************)

(* The contents that have a version, or an operation that is about to give *)
(* them one.                                                               *)
Named == MD5s(journal) \union {None}
           \union {task[c].sum : c \in {d \in Clients : task[d].pc \in {"number", "append"}}}

(* While nobody died and nobody wrote from outside, only such contents are *)
(* in the object and in the archive; and a client that counted on past an  *)
(* entry did so because the entry has its content.                         *)
NamedInv ==
    crashes = 0 /\ foreign = 0 =>
        /\ object \in Named
        /\ \A m \in Contents : archive[m] \in Named
        /\ \A c \in Clients :
              \/ task[c].pc = "idle"
              \/ task[c].next \in NextSeqs(task[c].known)
              \/ task[c].sum \in MD5s(journal)

LEMMA NamedInit == Init => NamedInv
  BY DEF Init, NamedInv, Named, Idle

(* Whatever has a name keeps it when the journal loses no content and each  *)
(* client that was about to name one still is, or the journal has it.       *)
LEMMA NamedGrows ==
  ASSUME MD5s(journal) \subseteq MD5s(journal'),
         \A d \in Clients : task[d].pc \in {"number", "append"} =>
             \/ task'[d].pc \in {"number", "append"} /\ task'[d].sum = task[d].sum
             \/ task[d].sum \in MD5s(journal')
  PROVE  Named \subseteq Named'
<1>1. SUFFICES ASSUME NEW x \in Named  PROVE x \in Named'
  OBVIOUS
<1>2. CASE x \in MD5s(journal) \union {None}  BY <1>2 DEF Named
<1>3. CASE x \notin MD5s(journal) \union {None}
  <2>1. PICK d \in Clients : task[d].pc \in {"number", "append"} /\ x = task[d].sum
    BY <1>1, <1>3 DEF Named
  <2>. QED BY <2>1 DEF Named
<1>. QED BY <1>2, <1>3

(* A step of client c that moves only its own task and names what it wrote. *)
LEMMA NamedKept ==
  ASSUME TypeOK, NamedInv, NEW c \in Clients, NEW t, task' = [task EXCEPT ![c] = t],
         UNCHANGED <<crashes, foreign>>,
         MD5s(journal) \subseteq MD5s(journal'),
         task[c].pc \in {"number", "append"} =>
             \/ t.pc \in {"number", "append"} /\ t.sum = task[c].sum
             \/ task[c].sum \in MD5s(journal')
             \/ ~(crashes = 0 /\ foreign = 0),
         \/ object' = object
         \/ crashes = 0 /\ foreign = 0 => object' \in Named
         \/ t.pc = "number" /\ t.sum = object',
         crashes = 0 /\ foreign = 0 =>
             \A m \in Contents : archive'[m] \in {archive[m], object, None},
         \/ t.pc = "idle"
         \/ task[c].pc # "idle" /\ t.next = task[c].next /\ t.known = task[c].known
                               /\ t.sum = task[c].sum
         \/ t.next \in NextSeqs(t.known)
         \/ t.sum \in MD5s(journal')
  PROVE  NamedInv'
<1>. SUFFICES ASSUME crashes = 0, foreign = 0
              PROVE  /\ object' \in Named'
                     /\ \A m \in Contents : archive'[m] \in Named'
                     /\ \A d \in Clients :
                           \/ task'[d].pc = "idle"
                           \/ task'[d].next \in NextSeqs(task'[d].known)
                           \/ task'[d].sum \in MD5s(journal')
  BY DEF NamedInv
<1>1. task'[c] = t /\ \A d \in Clients \ {c} : task'[d] = task[d]  BY DEF TypeOK
<1>2. Named \subseteq Named'
  <2>1. \A d \in Clients : task[d].pc \in {"number", "append"} =>
             \/ task'[d].pc \in {"number", "append"} /\ task'[d].sum = task[d].sum
             \/ task[d].sum \in MD5s(journal')
    BY <1>1
  <2>. QED BY <2>1, NamedGrows
<1>3. object' \in Named'
  <2>1. CASE t.pc = "number" /\ t.sum = object'  BY <2>1, <1>1 DEF Named
  <2>. QED BY <2>1, <1>2 DEF NamedInv
<1>4. \A m \in Contents : archive'[m] \in Named'
  <2>1. None \in Named /\ object \in Named  BY DEF NamedInv, Named
  <2>. QED BY <2>1, <1>2 DEF NamedInv
<1>5. ASSUME NEW d \in Clients
      PROVE  \/ task'[d].pc = "idle"
             \/ task'[d].next \in NextSeqs(task'[d].known)
             \/ task'[d].sum \in MD5s(journal')
  BY <1>1 DEF NamedInv
<1>. QED BY <1>3, <1>4, <1>5

LEMMA NamedStep ==
  ASSUME MaxAttempts > 0, TypeOK, NamedInv, NEW c \in Clients, Step(c)
  PROVE  NamedInv'
<1>t. task[c] \in Task /\ Shaped(task[c])  BY DEF TypeOK
<1>u. crashes' = crashes /\ foreign' = foreign
  BY DEF Step, PushNoOp, PushStatSettled, PushStatSupersedes, PushPut, ArchiveStat,
     ArchiveStatFault, ArchiveCopy, SourceMissing, RevertStat, RevertStatFault, Restore,
     AppendStat, AppendStatFault, AppendGivesUp, AppendPut, GCStat, GCStatFault, GCDelete,
     GCSkip, GCDone, ReadStat, ReadObject, ReadBlob, counters
<1>q. ASSUME Quit(c), UNCHANGED <<object, archive, journal>>,
             task[c].pc \notin {"number", "append"}
      PROVE  NamedInv'
  BY <1>q, <1>u, NamedKept DEF Quit, Idle
<1>g. ASSUME NEW t, task' = [task EXCEPT ![c] = t], UNCHANGED <<object, archive, journal>>,
             task[c].pc # "idle", t.next = task[c].next, t.known = task[c].known,
             t.sum = task[c].sum,
             task[c].pc \in {"number", "append"} => t.pc \in {"number", "append"}
      PROVE  NamedInv'
  BY <1>g, <1>u, NamedKept
<1>1. CASE PushNoOp(c) \/ SourceMissing(c) \/ GCDone(c) \/ ReadObject(c) \/ ReadBlob(c)
  BY <1>1, <1>q DEF PushNoOp, SourceMissing, GCDone, ReadObject, ReadBlob, AtStat, At, store
<1>2. CASE PushStatSettled(c) \/ PushStatSupersedes(c) \/ RevertStat(c) \/ GCStat(c)
  <2>1. PICK t : /\ task' = [task EXCEPT ![c] = t]
                 /\ t.next = task[c].next /\ t.known = task[c].known /\ t.sum = task[c].sum
    <3>3. CASE PushStatSettled(c) \/ PushStatSupersedes(c) \/ RevertStat(c)
      <4>1. PICK pc : task' = [task EXCEPT ![c].pc = pc, ![c].current = object]
        BY <3>3 DEF PushStatSettled, PushStatSupersedes, RevertStat
      <4> DEFINE w == [task[c] EXCEPT !.pc = pc, !.current = object]
      <4>2. task' = [task EXCEPT ![c] = w]  BY <4>1
      <4>3. w.next = task[c].next /\ w.known = task[c].known /\ w.sum = task[c].sum
        BY <1>t DEF Task
      <4>. QED BY <4>2, <4>3
    <3>6. CASE GCStat(c)
      <4> DEFINE w == [task[c] EXCEPT !.pc = "sweep", !.current = object,
                                      !.victims = Victims(task[c].known, object, Keep)]
      <4>1. task' = [task EXCEPT ![c] = w]  BY <3>6 DEF GCStat
      <4>2. w.next = task[c].next /\ w.known = task[c].known /\ w.sum = task[c].sum
        BY <1>t DEF Task
      <4>. QED BY <4>1, <4>2
    <3>. QED BY <1>2, <3>3, <3>6
  <2>2. task[c].pc = "stat" /\ UNCHANGED <<object, archive, journal>>
    BY <1>2 DEF PushStatSettled, PushStatSupersedes, RevertStat, GCStat, AtStat, At, store
  <2>. QED BY <2>1, <2>2, <1>g
<1>3. CASE ArchiveStat(c) \/ ArchiveStatFault(c) \/ AppendStatFault(c) \/ ReadStat(c)
  <2>1. PICK pc : /\ Goto(c, pc)
                  /\ task[c].pc \in {"number", "append"} => pc \in {"number", "append"}
    BY <1>3 DEF ArchiveStat, ArchiveStatFault, AppendStatFault, ReadStat, AtStat, At
  <2> DEFINE t == [task[c] EXCEPT !.pc = pc]
  <2>2. task' = [task EXCEPT ![c] = t]  BY <2>1 DEF Goto
  <2>3. t.next = task[c].next /\ t.known = task[c].known /\ t.sum = task[c].sum /\ t.pc = pc
    BY <1>t DEF Task
  <2>4. task[c].pc # "idle" /\ UNCHANGED <<object, archive, journal>>
    BY <1>3 DEF ArchiveStat, ArchiveStatFault, AppendStatFault, ReadStat, AtStat, At, store
  <2>. HIDE DEF t
  <2>. QED BY <2>1, <2>2, <2>3, <2>4, <1>g
<1>4. CASE PushPut(c) \/ Restore(c)
  <2> DEFINE t == [task[c] EXCEPT !.pc = "number"]
  <2>1. task' = [task EXCEPT ![c] = t]  BY <1>4 DEF PushPut, Restore, Goto
  <2>2. t.next = task[c].next /\ t.known = task[c].known /\ t.sum = task[c].sum
        /\ t.pc = "number"
    BY <1>t DEF Task
  <2>3. task[c].pc \in {"put", "restore"} /\ UNCHANGED <<archive, journal>>
    BY <1>4 DEF PushPut, Restore, At
  <2>4. object' = t.sum \/ (crashes = 0 /\ foreign = 0 => object' \in Named)
    <3>1. CASE PushPut(c)  BY <3>1, <2>2 DEF PushPut
    <3>2. CASE Restore(c)
      <4>1. task[c].sum \in Contents  BY <3>2, <1>t DEF Restore, At, Shaped
      <4>. QED BY <3>2, <4>1 DEF Restore, NamedInv
    <3>. QED BY <1>4, <3>1, <3>2
  <2>. HIDE DEF t
  <2>. QED BY <2>1, <2>2, <2>3, <2>4, <1>u, NamedKept
<1>5. CASE ArchiveCopy(c)
  <2>1. PICK pc \in {"put", "restore"} : Goto(c, pc)
    BY <1>5 DEF ArchiveCopy, AfterArchive
  <2> DEFINE t == [task[c] EXCEPT !.pc = pc]
  <2>2. task' = [task EXCEPT ![c] = t]  BY <2>1 DEF Goto
  <2>3. t.next = task[c].next /\ t.known = task[c].known /\ t.sum = task[c].sum
    BY <1>t DEF Task
  <2>4. task[c].pc = "copy" /\ UNCHANGED <<object, journal>>
        /\ \A m \in Contents : archive'[m] \in {archive[m], object}
    BY <1>5 DEF ArchiveCopy, At, TypeOK
  <2>. HIDE DEF t
  <2>. QED BY <2>2, <2>3, <2>4, <1>u, NamedKept
<1>6. CASE AppendStat(c)
  <2>1. task[c].pc = "number" /\ UNCHANGED <<object, archive, journal>>
    BY <1>6 DEF AppendStat, At, store
  <2>2. CASE Taken(task[c].next, task[c].sum)
    <3> DEFINE t == [task[c] EXCEPT !.next = @ + 1]
    <3>1. task' = [task EXCEPT ![c] = t]  BY <1>6, <2>2 DEF AppendStat
    <3>2. t.pc = "number" /\ t.sum = task[c].sum  BY <2>1, <1>t DEF Task
    <3>3. task[c].sum \in MD5s(journal')  BY <2>1, <2>2 DEF Taken, MD5s
    <3>. HIDE DEF t
    <3>. QED BY <2>1, <3>1, <3>2, <3>3, <1>u, NamedKept
  <2>3. CASE ~Taken(task[c].next, task[c].sum)
    <3> DEFINE t == [task[c] EXCEPT !.pc = "append"]
    <3>1. task' = [task EXCEPT ![c] = t]  BY <1>6, <2>3 DEF AppendStat, Goto
    <3>2. t.pc = "append" /\ t.sum = task[c].sum /\ t.next = task[c].next
          /\ t.known = task[c].known
      BY <1>t DEF Task
    <3>. HIDE DEF t
    <3>. QED BY <2>1, <3>1, <3>2, <1>g
  <2>. QED BY <2>2, <2>3
<1>7. CASE AppendGivesUp(c)
  <2>1. task[c].pc = "number" /\ UNCHANGED <<object, archive, journal>> /\ Quit(c)
    BY <1>7 DEF AppendGivesUp, At, store
  <2>2. task[c].next \notin NextSeqs(task[c].known)
    BY <1>7, <1>t, BoundsAssumption DEF AppendGivesUp, Attempt, Task
  <2>3. crashes = 0 /\ foreign = 0 => task[c].sum \in MD5s(journal')
    BY <2>1, <2>2 DEF NamedInv
  <2>4. task' = [task EXCEPT ![c] = Idle] /\ Idle.pc = "idle"  BY <2>1 DEF Quit, Idle
  <2>. QED BY <2>1, <2>3, <2>4, <1>u, NamedKept
<1>8. CASE AppendPut(c)
  <2>1. UNCHANGED <<object, archive>> /\ Quit(c)  BY <1>8 DEF AppendPut
  <2>2. MD5s(journal) \subseteq MD5s(journal') /\ task[c].sum \in MD5s(journal')
    <3>1. NewEvent(c) \in journal' /\ NewEvent(c).md5 = task[c].sum
      BY <1>8 DEF AppendPut, NewEvent
    <3>2. \A e \in journal : e \in journal' \/ e.md5 = task[c].sum
      BY <1>8 DEF AppendPut
    <3>. QED BY <3>1, <3>2 DEF MD5s
  <2>3. task' = [task EXCEPT ![c] = Idle] /\ Idle.pc = "idle"  BY <2>1 DEF Quit, Idle
  <2>. QED BY <2>1, <2>2, <2>3, <1>u, NamedKept
<1>9. CASE RevertStatFault(c)
  <2>1. task[c].pc = "stat" /\ UNCHANGED <<object, archive, journal>>
    BY <1>9 DEF RevertStatFault, AtStat, At, store
  <2>2. CASE Quit(c)  BY <2>1, <2>2, <1>q
  <2>3. CASE Goto(c, "restore")
    <3> DEFINE t == [task[c] EXCEPT !.pc = "restore"]
    <3>1. task' = [task EXCEPT ![c] = t]  BY <2>3 DEF Goto
    <3>2. t.next = task[c].next /\ t.known = task[c].known /\ t.sum = task[c].sum
      BY <1>t DEF Task
    <3>. HIDE DEF t
    <3>. QED BY <2>1, <3>1, <3>2, <1>g
  <2>. QED BY <1>9, <2>2, <2>3 DEF RevertStatFault
<1>10. CASE GCStatFault(c) \/ GCSkip(c) \/ GCDelete(c)
  <2>1. PICK t : /\ task' = [task EXCEPT ![c] = t]
                 /\ t.next = task[c].next /\ t.known = task[c].known /\ t.sum = task[c].sum
    <3>1. CASE GCStatFault(c)
      <4> DEFINE w == [task[c] EXCEPT !.pc = "sweep",
                                      !.victims = Victims(task[c].known, None, Keep)]
      <4>1. task' = [task EXCEPT ![c] = w]  BY <3>1 DEF GCStatFault
      <4>2. w.next = task[c].next /\ w.known = task[c].known /\ w.sum = task[c].sum
        BY <1>t DEF Task
      <4>. QED BY <4>1, <4>2
    <3>2. CASE GCSkip(c) \/ GCDelete(c)
      <4>1. PICK m : task' = [task EXCEPT ![c].victims = @ \ {m}]
        BY <3>2 DEF GCSkip, GCDelete
      <4> DEFINE w == [task[c] EXCEPT !.victims = @ \ {m}]
      <4>2. task' = [task EXCEPT ![c] = w]  BY <4>1
      <4>3. w.next = task[c].next /\ w.known = task[c].known /\ w.sum = task[c].sum
        BY <1>t DEF Task
      <4>. QED BY <4>2, <4>3
    <3>. QED BY <1>10, <3>1, <3>2
  <2>2. /\ task[c].pc \in {"stat", "sweep"} /\ UNCHANGED <<object, journal>>
        /\ \A m \in Contents : archive'[m] \in {archive[m], None}
    BY <1>10 DEF GCStatFault, GCSkip, GCDelete, AtStat, At, store, TypeOK
  <2>. QED BY <2>1, <2>2, <1>u, NamedKept
<1>. QED BY <1>1, <1>2, <1>3, <1>4, <1>5, <1>6, <1>7, <1>8, <1>9, <1>10 DEF Step

LEMMA NamedNext ==
  ASSUME MaxAttempts > 0, TypeOK, NamedInv, [Next]_vars
  PROVE  NamedInv'
<1>1. ASSUME NEW c \in Clients, Begin(c) \/ Rerun(c)
      PROVE  NamedInv'
  <2>1. PICK kind, m, seq : Start(c, kind, m, seq)
    BY <1>1 DEF Begin, BeginPush, BeginRevert, BeginGC, BeginRead, Rerun
  <2>2. PICK n \in NextSeqs(journal) :
          task' = [task EXCEPT ![c] =
             [Idle EXCEPT !.pc = "stat", !.op = kind, !.sum = m, !.to = seq,
                          !.known = journal, !.next = n]]
    BY <2>1 DEF Start
  <2> DEFINE t == [Idle EXCEPT !.pc = "stat", !.op = kind, !.sum = m, !.to = seq,
                               !.known = journal, !.next = n]
  <2>3. t.next \in NextSeqs(t.known)  BY <2>2 DEF Idle
  <2>4. task[c].pc = "idle" /\ UNCHANGED <<object, archive, journal, crashes, foreign>>
    BY <2>1 DEF Start, At, store, counters
  <2>5. task' = [task EXCEPT ![c] = t]  BY <2>2
  <2>. HIDE DEF t
  <2>. QED BY <2>3, <2>4, <2>5, NamedKept
<1>2. ASSUME NEW c \in Clients, Crash(c) \/ AppendDies(c)
      PROVE  NamedInv'
  <2>1. crashes' # 0  BY <1>2 DEF Crash, AppendDies, TypeOK
  <2>. QED BY <2>1 DEF NamedInv
<1>3. CASE ForeignWrite
  <2>1. foreign' # 0  BY <1>3 DEF ForeignWrite, TypeOK
  <2>. QED BY <2>1 DEF NamedInv
<1>4. ASSUME UNCHANGED vars \/ \E c \in Clients : Abandon(c) \/ JournalCorrupt(c)
      PROVE  NamedInv'
  <2>1. UNCHANGED <<object, archive, journal, task, crashes, foreign>>
    BY <1>4 DEF Abandon, JournalCorrupt, vars, store, counters
  <2>. QED BY <2>1 DEF NamedInv, Named
<1>. QED BY <1>1, <1>2, <1>3, <1>4, NamedStep DEF Next

(* At rest the object is a version of the journal, for any number of       *)
(* clients racing at every store call, any number of failed Stat calls and *)
(* any contents, unless somebody died or wrote from outside.  appendEvent  *)
(* tries at least one number (50 in the code).                             *)
THEOREM ObjectJournaledAlways ==
  ASSUME MaxAttempts > 0
  PROVE  Spec => []ObjectJournaled
<1>1. Spec => []NamedInv
  BY NamedInit, NamedNext, TypeCorrect, PTL DEF Spec
<1>2. NamedInv => ObjectJournaled
  BY DEF NamedInv, Named, ObjectJournaled, At
<1>. QED  BY <1>1, <1>2, PTL

-----------------------------------------------------------------------------
(***************************************************************************)
(* Reads and the Recoverable column, when operations do not overlap.       *)
(***************************************************************************)

(* No other client and no outside write moves the object while an          *)
(* operation runs.  Stat calls may fail.                                   *)
Undisturbed == (\A c, d \in Clients : c = d) /\ ~Overlap

(* What an operation saw of the object is still so when it uses it, and    *)
(* every blob lies under its own address.                                  *)
Seen(t) ==
    /\ t.pc \in {"archive", "copy"} => object = t.current
    /\ t.pc = "fetch" => object = t.sum

LookInv ==
    /\ \A m \in Contents : archive[m] \in {None, m}
    /\ \A c \in Clients : Seen(task[c])
    /\ ReadsRight

LEMMA LookInit == Init => LookInv
  BY DEF Init, LookInv, Seen, Idle, ReadsRight

LEMMA LookKept ==
  ASSUME Undisturbed, LookInv, NEW c \in Clients, Seen(task[c])',
         \A m \in Contents : archive'[m] \in {None, m}, ReadsRight'
  PROVE  LookInv'
<1>1. \A d \in Clients : d = c  BY DEF Undisturbed
<1>. QED  BY <1>1 DEF LookInv

LEMMA LookStep ==
  ASSUME Undisturbed, TypeOK, LookInv, NEW c \in Clients, Step(c)
  PROVE  LookInv'
<1>t. task[c] \in Task /\ Shaped(task[c])  BY DEF TypeOK
<1>h. (\A m \in Contents : archive[m] \in {None, m}) /\ ReadsRight /\ Seen(task[c])
  BY DEF LookInv
<1>q. ASSUME Quit(c)  PROVE Seen(task[c])'
  <2>1. task'[c].pc = "idle"  BY <1>q DEF Quit, Idle, TypeOK
  <2>. QED BY <2>1 DEF Seen
<1>g. ASSUME UNCHANGED got  PROVE ReadsRight'
  BY <1>g, <1>h DEF ReadsRight
<1>p. ASSUME NEW pc, pc \notin {"archive", "copy", "fetch"}, task'[c].pc = pc
      PROVE  Seen(task[c])'
  BY <1>p DEF Seen
<1>1. CASE PushNoOp(c) \/ SourceMissing(c) \/ AppendGivesUp(c) \/ AppendPut(c) \/ GCDone(c)
  <2>1. Quit(c) /\ UNCHANGED <<archive, got>>
    BY <1>1 DEF PushNoOp, SourceMissing, AppendGivesUp, AppendPut, GCDone, store
  <2>. QED BY <2>1, <1>h, <1>q, <1>g, LookKept
<1>2. CASE PushStatSettled(c)
  <2>1. PICK step \in {"put", "number"} :
          task' = [task EXCEPT ![c].pc = step, ![c].current = object]
    BY <1>2 DEF PushStatSettled
  <2>2. task'[c].pc = step  BY <2>1, <1>t DEF TypeOK, Task
  <2>. QED BY <1>2, <2>2, <1>h, <1>p, <1>g, LookKept DEF PushStatSettled, store
<1>3. CASE PushStatSupersedes(c)
  <2>1. task'[c].pc = "archive" /\ task'[c].current = object /\ UNCHANGED <<store, got>>
    BY <1>3, <1>t DEF PushStatSupersedes, TypeOK, Task
  <2>. QED BY <2>1, <1>h, <1>g, LookKept DEF Seen, store
<1>4. CASE PushPut(c) \/ RevertStatFault(c) \/ Restore(c)
  <2>1. PICK pc \in {"number", "restore", "idle"} : task'[c].pc = pc
    BY <1>4, <1>t DEF PushPut, RevertStatFault, Restore, Goto, Quit, Idle, TypeOK, Task
  <2>. QED BY <1>4, <2>1, <1>h, <1>p, <1>g, LookKept
           DEF PushPut, RevertStatFault, Restore, store
<1>5. CASE ArchiveStat(c) \/ ArchiveStatFault(c)
  <2>1. PICK pc \in {"copy", "put", "restore"} : Goto(c, pc)
    BY <1>5 DEF ArchiveStat, ArchiveStatFault, AfterArchive
  <2>2. task'[c].pc = pc /\ task'[c].current = task[c].current
    BY <2>1, <1>t DEF Goto, TypeOK, Task
  <2>3. object = task[c].current /\ UNCHANGED <<store, got>>
    BY <1>5, <1>h DEF ArchiveStat, ArchiveStatFault, At, Seen
  <2>. QED BY <2>2, <2>3, <1>h, <1>g, LookKept DEF Seen, store
<1>6. CASE ArchiveCopy(c)
  <2>1. PICK pc \in {"put", "restore"} : Goto(c, pc)
    BY <1>6 DEF ArchiveCopy, AfterArchive
  <2>2. task'[c].pc = pc  BY <2>1, <1>t DEF Goto, TypeOK, Task
  <2>3. object = task[c].current  BY <1>6, <1>h DEF ArchiveCopy, At, Seen
  <2>4. \A m \in Contents : archive'[m] \in {None, m}
    BY <1>6, <2>3, <1>h DEF ArchiveCopy, TypeOK
  <2>. QED BY <1>6, <2>2, <2>4, <1>p, <1>g, LookKept DEF ArchiveCopy
<1>7. CASE RevertStat(c)
  <2>1. PICK step \in {"number", "restore", "archive"} :
          task' = [task EXCEPT ![c].pc = step, ![c].current = object]
    BY <1>7 DEF RevertStat
  <2>2. task'[c].pc = step /\ task'[c].current = object  BY <2>1, <1>t DEF TypeOK, Task
  <2>3. UNCHANGED <<store, got>>  BY <1>7 DEF RevertStat
  <2>. QED BY <2>2, <2>3, <1>h, <1>g, LookKept DEF Seen, store
<1>8. CASE AppendStat(c) \/ AppendStatFault(c)
  <2>1. task'[c].pc \in {"number", "append"}
    BY <1>8, <1>t DEF AppendStat, AppendStatFault, Goto, At, TypeOK, Task
  <2>2. UNCHANGED <<store, got>>  BY <1>8 DEF AppendStat, AppendStatFault
  <2>. QED BY <2>1, <2>2, <1>h, <1>p, <1>g, LookKept DEF store
<1>9. CASE GCStat(c) \/ GCStatFault(c)
  <2>1. task'[c].pc = "sweep"  BY <1>9, <1>t DEF GCStat, GCStatFault, TypeOK, Task
  <2>2. UNCHANGED <<store, got>>  BY <1>9 DEF GCStat, GCStatFault
  <2>. QED BY <2>1, <2>2, <1>h, <1>p, <1>g, LookKept DEF store
<1>10. CASE GCDelete(c)
  <2>1. PICK m \in task[c].victims :
          /\ archive' = [archive EXCEPT ![m] = None]
          /\ task' = [task EXCEPT ![c].victims = @ \ {m}]
          /\ UNCHANGED <<object, got>>
    BY <1>10 DEF GCDelete
  <2>2. task'[c].pc = "sweep"  BY <1>10, <2>1, <1>t DEF GCDelete, At, TypeOK, Task
  <2>3. \A n \in Contents : archive'[n] \in {None, n}  BY <2>1, <1>h DEF TypeOK
  <2>. QED BY <2>1, <2>2, <2>3, <1>p, <1>g, LookKept
<1>11. CASE ReadStat(c)
  <2>1. PICK pc \in {"fetch", "blob"} : Goto(c, pc) /\ (pc = "fetch" => object = task[c].sum)
    BY <1>11 DEF ReadStat
  <2>2. task'[c].pc = pc /\ task'[c].sum = task[c].sum
    BY <2>1, <1>t DEF Goto, TypeOK, Task
  <2>3. UNCHANGED <<store, got>>  BY <1>11 DEF ReadStat
  <2>. QED BY <2>1, <2>2, <2>3, <1>h, <1>g, LookKept DEF Seen, store
<1>12. CASE ReadObject(c) \/ ReadBlob(c)
  <2>1. PICK from \in {"object", "archive"} : Deliver(c, task[c].sum, from)
    BY <1>12, <1>h DEF ReadObject, ReadBlob, Seen, At
  <2>2. ReadsRight'
    BY <2>1, <1>h DEF Deliver, ReadsRight, TypeOK
  <2>3. Quit(c) /\ UNCHANGED archive  BY <1>12 DEF ReadObject, ReadBlob, store
  <2>. QED BY <2>2, <2>3, <1>h, <1>q, LookKept
<1>13. CASE GCSkip(c)
  <2>1. task'[c].pc = "sweep"  BY <1>13, <1>t DEF GCSkip, At, TypeOK, Task
  <2>2. UNCHANGED <<store, got>>  BY <1>13 DEF GCSkip
  <2>. QED BY <2>1, <2>2, <1>h, <1>p, <1>g, LookKept DEF store
<1>. QED BY <1>1, <1>2, <1>3, <1>4, <1>5, <1>6, <1>7, <1>8, <1>9, <1>10, <1>11, <1>12,
            <1>13 DEF Step

LEMMA LookNext ==
  ASSUME Undisturbed, TypeOK, LookInv, [Next]_vars
  PROVE  LookInv'
<1>1. ASSUME NEW c \in Clients, Begin(c) \/ Rerun(c)
      PROVE  LookInv'
  <2>1. PICK kind, m, seq : Start(c, kind, m, seq)
    BY <1>1 DEF Begin, BeginPush, BeginRevert, BeginGC, BeginRead, Rerun
  <2>2. task'[c].pc = "stat" /\ UNCHANGED store
    BY <2>1 DEF Start, TypeOK, Idle
  <2>3. \A d \in Clients : got'[d] = got[d] \/ got'[d] = NoRead
    BY <1>1 DEF Begin, BeginPush, BeginRevert, BeginGC, BeginRead, Rerun, TypeOK
  <2>4. ReadsRight'  BY <2>3 DEF LookInv, ReadsRight
  <2>. QED BY <2>2, <2>4, LookKept DEF Seen, LookInv, store
<1>2. ASSUME NEW c \in Clients, Crash(c) \/ AppendDies(c)
      PROVE  LookInv'
  <2>1. task'[c].pc = "idle"  BY <1>2 DEF Crash, AppendDies, Quit, Idle, TypeOK
  <2>2. ReadsRight' /\ UNCHANGED archive
    BY <1>2 DEF Crash, AppendDies, LookInv, ReadsRight, store
  <2>. QED BY <2>1, <2>2, LookKept DEF Seen, LookInv
<1>3. CASE ForeignWrite
  <2>1. \A c \in Clients : task'[c].pc = "idle"
    BY <1>3 DEF ForeignWrite, Undisturbed, At
  <2>. QED BY <1>3, <2>1 DEF ForeignWrite, LookInv, Seen, ReadsRight
<1>4. ASSUME UNCHANGED vars \/ \E c \in Clients : Abandon(c) \/ JournalCorrupt(c)
      PROVE  LookInv'
  <2>1. UNCHANGED <<object, archive, task, got>>
    BY <1>4 DEF Abandon, JournalCorrupt, vars, store
  <2>. QED BY <2>1 DEF LookInv, Seen, ReadsRight
<1>. QED BY <1>1, <1>2, <1>3, <1>4, LookStep DEF Next

(* GetVersion (workspace.go:186) hands out the bytes of the version it was *)
(* asked for when nothing writes the key between its Stat and its Get,     *)
(* whatever happened to the store before.                                  *)
THEOREM ReadsRightUndisturbed ==
  ASSUME Undisturbed
  PROVE  Spec => []ReadsRight
<1>1. Spec => []LookInv
  BY LookInit, LookNext, TypeCorrect, PTL DEF Spec
<1>. QED  BY <1>1, PTL DEF LookInv

(* What Versions lists as recoverable GetBlob really delivers: operations  *)
(* that are not disturbed never file bytes under a foreign address, even   *)
(* when a Stat fails.                                                      *)
THEOREM RecoverableHonestUndisturbed ==
  ASSUME Undisturbed
  PROVE  Spec => []RecoverableHonest
<1>1. Spec => []LookInv
  BY LookInit, LookNext, TypeCorrect, PTL DEF Spec
<1>2. TypeOK /\ LookInv => RecoverableHonest
  BY DEF TypeOK, LookInv, RecoverableHonest, Available, Event
<1>. QED  BY <1>1, <1>2, TypeCorrect, PTL

-----------------------------------------------------------------------------
(***************************************************************************)
(* The retention budget of gc, for a lone client.                          *)
(***************************************************************************)

(* A finite, non-empty set of events has one with the highest number: of   *)
(* the sets of events numbered at least e.seq a smallest one exists.       *)
LEMMA LatestExists ==
  ASSUME NEW X \in SUBSET Event, IsFiniteSet(X), X # {}
  PROVE  \E e \in X : \A f \in X : f.seq <= e.seq
<1> DEFINE Up(e) == {f \in X : f.seq >= e.seq}
           F == {Up(e) : e \in X}
<1>1. \A e \in X : e.seq \in Nat  BY DEF Event
<1>2. F \subseteq FiniteSubsetsOf(X) /\ F # {}
  <2>1. FiniteSubsetsOf(X) = SUBSET X  BY FS_FiniteSubsetsOfFinite
  <2>2. F \subseteq SUBSET X  OBVIOUS
  <2>3. F # {}  OBVIOUS
  <2>. QED BY <2>1, <2>2, <2>3
<1>3. PICK U \in F : \A V \in F : <<V, U>> \notin StrictSubsetOrdering(X)
  <2>. HIDE DEF F
  <2>. QED BY <1>2, FS_StrictSubsetOrderingWellFounded, WFMin
<1>4. PICK e \in X : U = Up(e)  BY <1>3
<1>5. ASSUME NEW f \in X, ~(f.seq <= e.seq)  PROVE FALSE
  <2>1. Up(f) \subseteq Up(e)  BY <1>1, <1>5
  <2>2. e \in Up(e) /\ e \notin Up(f)  BY <1>1, <1>5
  <2>3. <<Up(f), U>> \in StrictSubsetOrdering(X)
    BY <1>4, <2>1, <2>2 DEF StrictSubsetOrdering
  <2>. QED BY <1>3, <2>3
<1>. QED BY <1>5

(* The versions ahead of m in the order gc counts in: later than m in the  *)
(* journal, and not current.                                               *)
Later(m) == {n \in MD5s(journal) \ {m} : MoreRecent(n, m, journal)}
Ahead(m) == Later(m) \ {object}

(* While nothing crashed and nothing outside datapin wrote, the Keep       *)
(* versions that come first are archived, the object is the head of the    *)
(* journal except between its write and its entry, and a sweep deletes     *)
(* only what the current journal puts beyond the budget.                   *)
BudgetKept ==
    \A m \in MD5s(journal) \ {object} : Cardinality(Ahead(m)) < Keep => archive[m] = m

HeadCurrent == IF journal = {} THEN object = None ELSE IsHeadMD5(object, journal)

Counted(t) ==
    /\ t.pc \notin {"number", "append"} => HeadCurrent
    /\ t.pc = "idle" \/ t.next \in NextSeqs(t.known)
    /\ t.pc = "sweep" => t.victims \subseteq Victims(journal, object, Keep)

BudgetInv ==
    /\ IsFiniteSet(journal)
    /\ crashes = 0 /\ foreign = 0 => BudgetKept /\ \A c \in Clients : Counted(task[c])

LEMMA BudgetInit == Init => BudgetInv
  BY FS_EmptySet DEF Init, BudgetInv, BudgetKept, Counted, HeadCurrent, MD5s, Idle

LEMMA FiniteContents ==
  ASSUME IsFiniteSet(journal)
  PROVE  IsFiniteSet(MD5s(journal))
<1>1. PICK f : f = [e \in journal |-> e.md5]  OBVIOUS
<1>2. f \in Surjection(journal, MD5s(journal))
  BY <1>1 DEF Surjection, MD5s
<1>. QED BY <1>2, FS_Surjection

(* With one client, the invariant follows from what holds of that client.  *)
LEMMA BudgetOf ==
  ASSUME Alone, IsFiniteSet(journal'), NEW c \in Clients,
         crashes' = 0 /\ foreign' = 0 => BudgetKept' /\ Counted(task[c])'
  PROVE  BudgetInv'
<1>1. \A d \in Clients : d = c  BY DEF Alone
<1>. QED BY <1>1 DEF BudgetInv

(* Steps that leave the store alone. *)
LEMMA BudgetLook ==
  ASSUME Alone, BudgetInv, NEW c \in Clients,
         UNCHANGED <<object, archive, journal, crashes, foreign>>,
         task[c].pc \in {"number", "append"} => task'[c].pc \in {"number", "append"},
         \/ task'[c].pc = "idle"
         \/ task'[c].next \in NextSeqs(task'[c].known)
         \/ ~At(c, "idle") /\ task'[c].next = task[c].next /\ task'[c].known = task[c].known,
         task'[c].pc # "sweep"
  PROVE  BudgetInv'
<1>1. IsFiniteSet(journal') /\ (BudgetKept => BudgetKept') /\ (HeadCurrent => HeadCurrent')
  BY DEF BudgetInv, BudgetKept, HeadCurrent, Ahead, Later, MD5s
<1>2. ASSUME Counted(task[c])  PROVE Counted(task[c])'
  BY <1>1, <1>2 DEF Counted, At
<1>. QED BY <1>1, <1>2, BudgetOf DEF BudgetInv

(* Writing x over the head of the journal, once the head is archived, puts *)
(* the head in front of every other version and so moves none of them      *)
(* inside the budget.                                                      *)
LEMMA SwapCurrent ==
  ASSUME Alone, TypeOK, BudgetInv, NEW c \in Clients,
         NEW x \in Contents, object' = x,
         UNCHANGED <<archive, journal, crashes, foreign>>,
         object \in {None, x} \/ archive[object] = object,
         ~At(c, "idle"), task[c].pc \notin {"number", "append"},
         task'[c].pc = "number",
         task'[c].next = task[c].next, task'[c].known = task[c].known
  PROVE  BudgetInv'
<1>. SUFFICES ASSUME crashes = 0, foreign = 0
              PROVE  BudgetKept' /\ Counted(task[c])'
  BY BudgetOf DEF BudgetInv
<1>1. BudgetKept /\ Counted(task[c]) /\ HeadCurrent  BY DEF BudgetInv, Counted
<1>2. IsFiniteSet(MD5s(journal))  BY FiniteContents DEF BudgetInv
<1>3. ASSUME NEW m \in MD5s(journal) \ {x}, Cardinality(Ahead(m)') < Keep
      PROVE  archive[m] = m
  <2>1. m \in Contents /\ m # None  BY ContentsAssumption DEF MD5s, TypeOK, Event
  <2>2. CASE m = object  BY <2>1, <2>2, <1>3
  <2>3. CASE m # object
    <3>1. IsFiniteSet(Later(m))  BY <1>2, FS_Subset DEF Later
    <3>2. Ahead(m)' = Later(m) \ {x}
      BY DEF Ahead, Later, MD5s
    <3>3. object \in Later(m)
      <4>1. PICK e \in journal : IsLast(e, journal) /\ e.md5 = object
        BY <1>1 DEF HeadCurrent, IsHeadMD5, MD5s
      <4>2. MoreRecent(object, m, journal)
        BY <4>1, <2>3 DEF MoreRecent, IsLast
      <4>. QED BY <4>1, <4>2, <2>3 DEF Later, MD5s
    <3>4. Cardinality(Ahead(m)) = Cardinality(Later(m)) - 1
      BY <3>1, <3>3, FS_RemoveElement DEF Ahead
    <3>6. Cardinality(Later(m)) \in Nat  BY <3>1, FS_CardinalityType
    <3>5. Cardinality(Ahead(m)') >= Cardinality(Later(m)) - 1
      <4>1. Cardinality(Later(m) \ {x}) =
               IF x \in Later(m) THEN Cardinality(Later(m)) - 1 ELSE Cardinality(Later(m))
        BY <3>1, FS_RemoveElement
      <4>. QED BY <4>1, <3>2, <3>6
    <3>7. Cardinality(Ahead(m)') \in Nat
      BY <3>1, <3>2, FS_RemoveElement, FS_CardinalityType
    <3>8. Cardinality(Ahead(m)) < Keep  BY <3>4, <3>5, <3>6, <3>7, <1>3, BoundsAssumption
    <3>. QED BY <3>8, <1>1, <2>3 DEF BudgetKept
  <2>. QED BY <2>2, <2>3
<1>4. BudgetKept'  BY <1>3 DEF BudgetKept, MD5s
<1>5. Counted(task[c])'  BY <1>1 DEF Counted, At
<1>. QED BY <1>4, <1>5

LEMMA BudgetStep ==
  ASSUME Alone, MaxAttempts > 0, TypeOK, SoloInv, BudgetInv, NEW c \in Clients, Step(c)
  PROVE  BudgetInv'
<1>t. task[c] \in Task /\ Shaped(task[c])  BY DEF TypeOK
<1>s. ~At(c, "idle") => Safe(task[c])  BY DEF SoloInv
<1>h. \A m \in Contents : archive[m] \in {None, m}  BY DEF SoloInv
<1>c. crashes = 0 /\ foreign = 0 => BudgetKept /\ Counted(task[c])  BY DEF BudgetInv
<1>f. IsFiniteSet(journal)  BY DEF BudgetInv
<1>q. ASSUME Quit(c), UNCHANGED <<object, archive, journal, crashes, foreign>>,
             task[c].pc \notin {"number", "append"}
      PROVE  BudgetInv'
  <2>1. task'[c].pc = "idle"  BY <1>q DEF Quit, Idle, TypeOK
  <2>. QED BY <1>q, <2>1, BudgetLook
<1>g. ASSUME NEW pc, pc # "sweep", task'[c].pc = pc, ~At(c, "idle"),
             task'[c].known = task[c].known, task'[c].next = task[c].next,
             UNCHANGED <<object, archive, journal, crashes, foreign>>,
             task[c].pc \in {"number", "append"} => pc \in {"number", "append"}
      PROVE  BudgetInv'
  BY <1>g, BudgetLook
<1>1. CASE PushNoOp(c) \/ SourceMissing(c) \/ GCDone(c) \/ ReadObject(c) \/ ReadBlob(c)
  BY <1>1, <1>q DEF PushNoOp, SourceMissing, GCDone, ReadObject, ReadBlob, AtStat, At,
     store, counters
<1>2. CASE PushStatSettled(c)
  <2>1. PICK step \in {"put", "number"} :
          task' = [task EXCEPT ![c].pc = step, ![c].current = object]
    BY <1>2 DEF PushStatSettled
  <2>2. task'[c].pc = step /\ task'[c].known = task[c].known /\ task'[c].next = task[c].next
    BY <2>1, <1>t DEF TypeOK, Task
  <2>. QED BY <1>2, <2>2, <1>g DEF PushStatSettled, AtStat, At, store, counters
<1>3. CASE PushStatSupersedes(c)
  <2>1. task'[c].pc = "archive" /\ task'[c].known = task[c].known
        /\ task'[c].next = task[c].next
    BY <1>3, <1>t DEF PushStatSupersedes, TypeOK, Task
  <2>. QED BY <1>3, <2>1, <1>g DEF PushStatSupersedes, AtStat, At, store, counters
<1>4. CASE PushPut(c) \/ Restore(c)
  <2>1. task[c].sum \in Contents /\ Safe(task[c])
    BY <1>4, <1>s, <1>t DEF PushPut, Restore, Shaped, At
  <2>2. object' = task[c].sum /\ Goto(c, "number")
        /\ UNCHANGED <<archive, journal, crashes, foreign>>
    BY <1>4, <2>1, <1>h DEF PushPut, Restore, counters
  <2>3. object \in {None, task[c].sum} \/ archive[object] = object
    BY <1>4, <2>1 DEF PushPut, Restore, Safe, At
  <2>4. task'[c].pc = "number" /\ task'[c].known = task[c].known
        /\ task'[c].next = task[c].next
    BY <2>2, <1>t DEF Goto, TypeOK, Task
  <2>5. task[c].pc \notin {"idle", "number", "append"}  BY <1>4 DEF PushPut, Restore, At
  <2>. QED BY <2>1, <2>2, <2>3, <2>4, <2>5, SwapCurrent DEF At
<1>5. CASE ArchiveStat(c)
  <2>1. PICK pc \in {"copy", "put", "restore"} : Goto(c, pc)
    BY <1>5 DEF ArchiveStat, AfterArchive
  <2>2. task'[c].pc = pc /\ task'[c].known = task[c].known /\ task'[c].next = task[c].next
    BY <2>1, <1>t DEF Goto, TypeOK, Task
  <2>. QED BY <1>5, <2>2, <1>g DEF ArchiveStat, At, store, counters
<1>6. CASE ArchiveCopy(c)
  <2>1. PICK pc \in {"put", "restore"} : Goto(c, pc)
    BY <1>6 DEF ArchiveCopy, AfterArchive
  <2>2. task'[c].pc = pc /\ task'[c].known = task[c].known /\ task'[c].next = task[c].next
    BY <2>1, <1>t DEF Goto, TypeOK, Task
  <2>3. object = task[c].current /\ object \in Contents
    BY <1>6, <1>s, <1>t DEF ArchiveCopy, Safe, Shaped, At
  <2>4. archive' = [archive EXCEPT ![object] = object]
        /\ UNCHANGED <<object, journal, crashes, foreign>>
    BY <1>6, <2>3 DEF ArchiveCopy, counters
  <2>5. \A m \in Contents : archive[m] = m => archive'[m] = m  BY <2>3, <2>4 DEF TypeOK
  <2>6. BudgetKept => BudgetKept'
    BY <2>4, <2>5 DEF BudgetKept, Ahead, Later, MD5s, TypeOK, Event
  <2>7. Counted(task[c]) => Counted(task[c])'
    BY <1>6, <2>2, <2>4 DEF Counted, HeadCurrent, ArchiveCopy, At
  <2>. QED BY <2>4, <2>6, <2>7, <1>c, <1>f, BudgetOf
<1>7. CASE RevertStat(c)
  <2>1. PICK step \in {"number", "restore", "archive"} :
          task' = [task EXCEPT ![c].pc = step, ![c].current = object]
    BY <1>7 DEF RevertStat
  <2>2. task'[c].pc = step /\ task'[c].known = task[c].known /\ task'[c].next = task[c].next
    BY <2>1, <1>t DEF TypeOK, Task
  <2>. QED BY <1>7, <2>2, <1>g DEF RevertStat, AtStat, At, store, counters
<1>8. CASE AppendStat(c)
  <2>1. At(c, "number") /\ Safe(task[c])  BY <1>8, <1>s DEF AppendStat, At
  <2>2. ~Taken(task[c].next, task[c].sum)
    BY <2>1, <1>t DEF Taken, Safe, TypeOK, Event, Task
  <2>3. Goto(c, "append")  BY <1>8, <2>2 DEF AppendStat
  <2>4. task'[c].pc = "append" /\ task'[c].known = task[c].known
        /\ task'[c].next = task[c].next
    BY <2>3, <1>t DEF Goto, TypeOK, Task
  <2>. QED BY <1>8, <2>1, <2>4, <1>g DEF AppendStat, At, store, counters
<1>9. CASE AppendGivesUp(c)
  <2>1. UNCHANGED <<object, archive, journal, crashes, foreign>>
    BY <1>9 DEF AppendGivesUp, store, counters
  <2>2. task[c].next \in NextSeqs(task[c].known) => Attempt(c)
    BY <1>t, BoundsAssumption DEF Attempt, Task
  <2>3. ~(crashes = 0 /\ foreign = 0)
    BY <1>9, <2>2, <1>c DEF AppendGivesUp, Counted, At
  <2>. QED BY <2>1, <2>3, <1>f, BudgetOf
<1>10. CASE AppendPut(c)
  <2>1. Safe(task[c]) /\ UNCHANGED <<object, archive, crashes, foreign>> /\ Quit(c)
    BY <1>10, <1>s DEF AppendPut, At, counters
  <2>2. object = task[c].sum /\ object \in Contents
    BY <1>10, <2>1, <1>t DEF AppendPut, At, Safe, Shaped
  <2> DEFINE n == NewEvent(c)
  <2>3. n.seq = task[c].next /\ n.md5 = object
    BY <2>2 DEF NewEvent
  <2>4. task[c].next \in Nat /\ \A e \in journal : e.seq \in Nat /\ e.seq < task[c].next
    BY <2>1, <1>t DEF Safe, TypeOK, Event, Task
  <2>5. journal' = journal \union {n}
    BY <1>10, <2>4 DEF AppendPut
  <2>. HIDE DEF n
  <2>6. IsFiniteSet(journal')  BY <2>5, <1>f, FS_AddElement
  <2>7. HeadCurrent'
    <3>1. IsLast(n, journal')  BY <2>3, <2>4, <2>5 DEF IsLast, Newer
    <3>. QED BY <3>1, <2>1, <2>3, <2>5 DEF HeadCurrent, IsHeadMD5
  <2>8. \A m \in MD5s(journal') \ {object} : m \in MD5s(journal) /\ Ahead(m)' = Ahead(m)
    <3>1. MD5s(journal') = MD5s(journal) \union {object}  BY <2>3, <2>5 DEF MD5s
    <3>2. ASSUME NEW m \in MD5s(journal) \ {object}, NEW k \in MD5s(journal) \ {object, m}
          PROVE  MoreRecent(k, m, journal') <=> MoreRecent(k, m, journal)
      BY <2>3, <2>5 DEF MoreRecent
    <3>. QED BY <2>1, <3>1, <3>2 DEF Ahead, Later
  <2>9. BudgetKept => BudgetKept'  BY <2>1, <2>8 DEF BudgetKept
  <2>10. task'[c].pc = "idle"  BY <2>1 DEF Quit, Idle, TypeOK
  <2>11. Counted(task[c])'  BY <2>7, <2>10 DEF Counted
  <2>. QED BY <2>1, <2>6, <2>9, <2>11, <1>c, BudgetOf
<1>11. CASE GCStat(c)
  <2>1. UNCHANGED <<object, archive, journal, crashes, foreign>>
    BY <1>11 DEF GCStat, store, counters
  <2>2. /\ task'[c].pc = "sweep" /\ task'[c].known = task[c].known
        /\ task'[c].next = task[c].next
        /\ task'[c].victims = Victims(task[c].known, object, Keep)
    BY <1>11, <1>t DEF GCStat, TypeOK, Task
  <2>3. task[c].known = journal /\ At(c, "stat")
    BY <1>11, <1>s DEF GCStat, AtStat, At, Safe
  <2>4. BudgetKept => BudgetKept'
    BY <2>1 DEF BudgetKept, Ahead, Later, MD5s
  <2>5. Counted(task[c]) => Counted(task[c])'
    BY <2>1, <2>2, <2>3 DEF Counted, HeadCurrent, At
  <2>. QED BY <2>1, <2>4, <2>5, <1>c, <1>f, BudgetOf
<1>12. CASE \/ RevertStatFault(c) \/ GCStatFault(c) \/ ArchiveStatFault(c)
            \/ AppendStatFault(c) \/ GCSkip(c)
  BY <1>12 DEF RevertStatFault, GCStatFault, ArchiveStatFault, AppendStatFault, GCSkip,
     Alone, TypeOK
<1>13. CASE GCDelete(c)
  <2>1. PICK m \in task[c].victims :
          /\ archive' = [archive EXCEPT ![m] = None]
          /\ task' = [task EXCEPT ![c].victims = @ \ {m}]
          /\ UNCHANGED <<object, journal, crashes, foreign>>
    BY <1>13 DEF GCDelete, counters
  <2>2. /\ task'[c].pc = task[c].pc /\ task'[c].known = task[c].known
        /\ task'[c].next = task[c].next /\ task'[c].victims = task[c].victims \ {m}
    BY <2>1, <1>t DEF TypeOK, Task
  <2>3. ASSUME crashes = 0, foreign = 0  PROVE BudgetKept' /\ Counted(task[c])'
    <3>1. BudgetKept /\ Counted(task[c])  BY <2>3, <1>c
    <3>2. m \in Victims(journal, object, Keep)  BY <1>13, <3>1 DEF Counted, GCDelete, At
    <3>3. Cardinality(Ahead(m)) >= Keep
      <4>1. Ahead(m) = {n \in MD5s(journal) \ {object, m} : MoreRecent(n, m, journal)}
        BY DEF Ahead, Later
      <4>. QED BY <3>2, <4>1 DEF Victims
    <3>4. IsFiniteSet(Ahead(m))
      BY <1>f, FiniteContents, FS_Subset DEF Ahead, Later
    <3>5. ~(Cardinality(Ahead(m)) < Keep)
      BY <3>3, <3>4, FS_CardinalityType, BoundsAssumption
    <3>6. \A k \in MD5s(journal) : Ahead(k)' = Ahead(k)
      BY <2>1 DEF Ahead, Later, MD5s
    <3>7. \A k \in MD5s(journal) : k # m => archive'[k] = archive[k]
      BY <2>1 DEF MD5s, TypeOK, Event
    <3>8. BudgetKept'  BY <2>1, <3>1, <3>5, <3>6, <3>7 DEF BudgetKept, MD5s
    <3>9. Counted(task[c])'  BY <2>1, <2>2, <3>1 DEF Counted, HeadCurrent
    <3>. QED BY <3>8, <3>9
  <2>. QED BY <2>1, <2>3, <1>f, BudgetOf
<1>14. CASE ReadStat(c)
  <2>1. PICK pc \in {"fetch", "blob"} : Goto(c, pc)  BY <1>14 DEF ReadStat
  <2>2. task'[c].pc = pc /\ task'[c].known = task[c].known /\ task'[c].next = task[c].next
    BY <2>1, <1>t DEF Goto, TypeOK, Task
  <2>. QED BY <1>14, <2>2, <1>g DEF ReadStat, AtStat, At, store, counters
<1>. QED BY <1>1, <1>2, <1>3, <1>4, <1>5, <1>6, <1>7, <1>8, <1>9, <1>10, <1>11, <1>12,
            <1>13, <1>14 DEF Step

LEMMA BudgetNext ==
  ASSUME Alone, MaxAttempts > 0, TypeOK, SoloInv, BudgetInv, [Next]_vars
  PROVE  BudgetInv'
<1>1. ASSUME NEW c \in Clients, Begin(c) \/ Rerun(c)
      PROVE  BudgetInv'
  <2>1. PICK kind, m, seq : Start(c, kind, m, seq)
    BY <1>1 DEF Begin, BeginPush, BeginRevert, BeginGC, BeginRead, Rerun
  <2>2. PICK n \in NextSeqs(journal) :
          task' = [task EXCEPT ![c] =
             [Idle EXCEPT !.pc = "stat", !.op = kind, !.sum = m, !.to = seq,
                          !.known = journal, !.next = n]]
    BY <2>1 DEF Start
  <2>3. task'[c] = [Idle EXCEPT !.pc = "stat", !.op = kind, !.sum = m, !.to = seq,
                                !.known = journal, !.next = n]
    BY <2>2 DEF TypeOK
  <2>4. task'[c].pc = "stat" /\ task'[c].known = journal /\ task'[c].next = n
    BY <2>3 DEF Idle
  <2>5. At(c, "idle") /\ UNCHANGED <<object, archive, journal, crashes, foreign>>
    BY <2>1 DEF Start, store, counters
  <2>. QED BY <2>4, <2>5, BudgetLook DEF At
<1>2. ASSUME NEW c \in Clients, Crash(c)
      PROVE  BudgetInv'
  <2>1. crashes' # 0 /\ journal' = journal  BY <1>2 DEF Crash, TypeOK, store
  <2>. QED BY <2>1, BudgetOf DEF BudgetInv
<1>5. ASSUME NEW c \in Clients, AppendDies(c)
      PROVE  BudgetInv'
  <2>1. crashes' # 0  BY <1>5 DEF AppendDies, TypeOK
  <2>2. IsFiniteSet(journal')
    <3>1. IsFiniteSet(journal)  BY DEF BudgetInv
    <3>2. IsFiniteSet({e \in journal : ~(e.seq = task[c].next /\ e.md5 = task[c].sum)}
                        \union {NewEvent(c)})
      BY <3>1, FS_Subset, FS_AddElement
    <3>. QED BY <1>5, <3>1, <3>2 DEF AppendDies
  <2>. QED BY <2>1, <2>2, BudgetOf
<1>3. CASE ForeignWrite
  <2>1. foreign' # 0 /\ journal' = journal  BY <1>3 DEF ForeignWrite, TypeOK
  <2>. QED BY <2>1 DEF BudgetInv
<1>4. ASSUME UNCHANGED vars \/ \E c \in Clients : Abandon(c) \/ JournalCorrupt(c)
      PROVE  BudgetInv'
  <2>1. UNCHANGED <<object, archive, journal, task, crashes, foreign>>
    BY <1>4 DEF Abandon, JournalCorrupt, vars, store, counters
  <2>. QED BY <2>1 DEF BudgetInv, BudgetKept, Counted, HeadCurrent, Ahead, Later, MD5s
<1>. QED BY <1>1, <1>2, <1>3, <1>4, <1>5, BudgetStep DEF Next

(* Of the versions beyond the budget the most recent one has only versions *)
(* within the budget ahead of it, and at least Keep of them: so as soon as *)
(* one version is beyond the budget, Keep versions are within it.          *)
LEMMA BudgetFilled ==
  ASSUME TypeOK, JournalNumbered, IsFiniteSet(journal),
         NEW m \in MD5s(journal) \ {object}, Cardinality(Ahead(m)) >= Keep,
         NEW W, W = {n \in MD5s(journal) \ {object} : Cardinality(Ahead(n)) < Keep}
  PROVE  Cardinality(W) >= Keep
<1> DEFINE B == {e \in journal : e.md5 # object /\ e.md5 \notin W}
<1>1. IsFiniteSet(MD5s(journal)) /\ IsFiniteSet(W) /\ IsFiniteSet(B)
  BY FiniteContents, FS_Subset
<1>2. \A n \in MD5s(journal) : Cardinality(Ahead(n)) \in Nat
  BY <1>1, FS_Subset, FS_CardinalityType DEF Ahead, Later
<1>3. B # {} /\ B \subseteq Event
  <2>1. m \notin W  BY <1>2, BoundsAssumption
  <2>. QED BY <2>1 DEF MD5s, TypeOK
<1>4. PICK e \in B : \A f \in B : f.seq <= e.seq
  <2>. HIDE DEF B
  <2>. QED BY <1>1, <1>3, LatestExists
<1>5. Ahead(e.md5) \subseteq W
  <2>1. SUFFICES ASSUME NEW n \in Ahead(e.md5), n \notin W  PROVE FALSE
    OBVIOUS
  <2>2. PICK f \in journal : f.md5 = n /\ Newer(f, e)
    BY <1>4, <2>1 DEF Ahead, Later, MoreRecent
  <2>3. f \in B  BY <2>1, <2>2 DEF Ahead
  <2>4. f.seq = e.seq  BY <1>4, <2>2, <2>3 DEF Newer, TypeOK, Event
  <2>5. f = e  BY <2>4, <2>2, <1>4 DEF JournalNumbered
  <2>. QED BY <2>1, <2>2, <2>5 DEF Ahead, Later
<1>6. e.md5 \in MD5s(journal) /\ Cardinality(Ahead(e.md5)) >= Keep
  BY <1>2, <1>4, BoundsAssumption DEF MD5s
<1>7. Cardinality(Ahead(e.md5)) <= Cardinality(W)  BY <1>1, <1>5, FS_Subset
<1>8. Cardinality(W) \in Nat  BY <1>1, FS_CardinalityType
<1>. QED BY <1>2, <1>6, <1>7, <1>8, BoundsAssumption

(* workspace.go:287: a sweep that takes a blob away leaves Keep versions   *)
(* other than the current one recoverable, for any budget and any number   *)
(* of versions, when one client works on the key and nothing crashed and   *)
(* nothing wrote from outside.  appendEvent tries at least one number (50  *)
(* in the code).                                                           *)
THEOREM GCKeepsBudgetAlone ==
  ASSUME Alone, MaxAttempts > 0
  PROVE  Spec => GCKeepsBudget
<1> DEFINE Swept(m) == archive[m] # None /\ archive'[m] = None /\ crashes = 0 /\ foreign = 0
<1>1. Spec => [](SoloInv /\ TypeOK)
  BY SoloInit, SoloNext, TypeCorrect, PTL DEF Spec
<1>2. Spec => []BudgetInv
  BY <1>1, BudgetInit, BudgetNext, PTL DEF Spec
<1>3. ASSUME TypeOK, SoloInv, BudgetInv, [Next]_vars, NEW m \in Contents, Swept(m)
      PROVE  Cardinality(Recoverables(object', archive')) >= Keep
  <2>1. PICK c \in Clients : GCDelete(c)
    <3>1. ASSUME NEW c \in Clients, ArchiveCopy(c)  PROVE FALSE
      BY <3>1, <1>3, ContentsAssumption DEF ArchiveCopy, TypeOK
    <3>2. UNCHANGED vars \/ ForeignWrite => archive' = archive
      BY DEF vars, store, ForeignWrite
    <3>3. ASSUME NEW c \in Clients,
                 \/ Begin(c) \/ Rerun(c) \/ Abandon(c)
                 \/ JournalCorrupt(c) \/ Crash(c) \/ AppendDies(c)
          PROVE  archive' = archive
      BY <3>3 DEF Begin, BeginPush, BeginRevert, BeginGC, BeginRead, Rerun, Abandon,
         JournalCorrupt, Crash, AppendDies, Start, store
    <3>4. ASSUME NEW c \in Clients, Step(c), ~GCDelete(c), ~ArchiveCopy(c)
          PROVE  archive' = archive
      BY <3>4 DEF Step, PushNoOp, PushStatSettled, PushStatSupersedes, PushPut, ArchiveStat,
         ArchiveStatFault, SourceMissing, RevertStat, RevertStatFault, Restore, AppendStat,
         AppendStatFault, AppendGivesUp, AppendPut, GCStat, GCStatFault, GCSkip, GCDone,
         ReadStat, ReadObject, ReadBlob, store
    <3>. QED BY <1>3, <3>1, <3>2, <3>3, <3>4 DEF Next
  <2>2. PICK v \in task[c].victims :
          archive' = [archive EXCEPT ![v] = None] /\ UNCHANGED <<object, journal>>
    BY <2>1 DEF GCDelete
  <2>3. v = m  BY <2>2, <1>3 DEF TypeOK
  <2>4. BudgetKept /\ m \in Victims(journal, object, Keep)
    BY <2>1, <2>2, <2>3, <1>3 DEF BudgetInv, Counted, GCDelete, At
  <2>5. m \in MD5s(journal) \ {object} /\ Cardinality(Ahead(m)) >= Keep
    <3>1. Ahead(m) = {n \in MD5s(journal) \ {object, m} : MoreRecent(n, m, journal)}
      BY DEF Ahead, Later
    <3>. QED BY <2>4, <3>1 DEF Victims
  <2> DEFINE W == {n \in MD5s(journal) \ {object} : Cardinality(Ahead(n)) < Keep}
  <2>6. Cardinality(W) >= Keep /\ IsFiniteSet(MD5s(journal))
    BY <1>3, <2>5, BudgetFilled, FiniteContents DEF SoloInv, BudgetInv
  <2>7. IsFiniteSet(Ahead(m))  BY <2>6, FS_Subset DEF Ahead, Later
  <2>8. m \notin W  BY <2>5, <2>7, FS_CardinalityType, BoundsAssumption
  <2>9. W \subseteq Recoverables(object', archive')
    <3>1. \A n \in W : n \in Contents /\ archive[n] = n /\ n # m
      BY <2>4, <2>8, <1>3 DEF BudgetKept, MD5s, TypeOK, Event
    <3>2. \A n \in W : archive'[n] = n  BY <2>2, <2>3, <3>1, <1>3 DEF TypeOK
    <3>. QED BY <2>2, <3>1, <3>2 DEF Recoverables, Available, MD5s
  <2>10. Recoverables(object', archive') \subseteq MD5s(journal)
    BY <2>2 DEF Recoverables, MD5s
  <2>11. IsFiniteSet(Recoverables(object', archive')) /\ IsFiniteSet(W)
    BY <2>6, <2>10, FS_Subset
  <2>12. Cardinality(W) <= Cardinality(Recoverables(object', archive'))
    <3>. HIDE DEF W
    <3>. QED BY <2>9, <2>11, FS_Subset
  <2>. QED BY <2>6, <2>11, <2>12, FS_CardinalityType, BoundsAssumption
<1>4. TypeOK /\ SoloInv /\ BudgetInv /\ [Next]_vars =>
         \A m \in Contents : Swept(m) => Cardinality(Recoverables(object', archive')) >= Keep
  BY <1>3
<1>. QED  BY <1>1, <1>2, <1>4, PTL DEF Spec, GCKeepsBudget
=============================================================================
