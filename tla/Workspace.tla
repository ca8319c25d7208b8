------------------------------ MODULE Workspace ------------------------------
(***************************************************************************)
(* One key of a datapin workspace (internal/workspace/workspace.go): the   *)
(* object itself, the content-addressed archive under .datapin/versions/   *)
(* and the journal under .datapin/journal/, driven by clients that share   *)
(* nothing but the store.  Every store call is one atomic step; between    *)
(* two of them any other client may run, the client may crash, and a       *)
(* program that knows nothing of datapin may write the object.             *)
(*                                                                         *)
(* A content stands for its bytes and for their MD5; contents are numbers  *)
(* so that they have an order, the one in which the drivers list journal   *)
(* entries that carry the same sequence number.                            *)
(***************************************************************************)
EXTENDS Naturals, FiniteSets

CONSTANTS
    Clients,      \* processes running datapin against the same workspace
    Contents,     \* the contents the key may hold
    None,         \* absent: no object, no archived blob, no checksum
    Keep,         \* the retention budget given to gc
    MaxAttempts,  \* sequence numbers appendEvent tries (50 in the code)
    MaxEvents,    \* bound: no operation starts once the journal is this long
    MaxCrashes,   \* bound on client crashes
    MaxForeign,   \* bound on writes by something other than datapin
    Overlap,      \* whether such a write may land in the middle of an operation
    MaxFaults,    \* bound on Stat and Get calls that fail where the code ignores it
    TempFiles     \* a Put goes through a temporary file beside its target: on a
                  \* directory and on SFTP, not on S3

ASSUME ContentsAssumption == Contents \subseteq Nat /\ None \notin Contents
ASSUME BoundsAssumption ==
    /\ Keep \in Nat /\ MaxAttempts \in Nat /\ MaxEvents \in Nat
    /\ MaxCrashes \in Nat /\ MaxForeign \in Nat /\ MaxFaults \in Nat
    /\ Overlap \in BOOLEAN /\ TempFiles \in BOOLEAN

VARIABLES
    object,   \* the content at the key, or None
    archive,  \* archive[m]: the bytes stored under the address m, or None
    journal,  \* the set of journal entries
    torn,     \* the journal's directory holds a file that is not a whole entry
    task,     \* task[c]: the operation client c is in, with its locals
    want,     \* want[c]: the content c's user set out to push, until told it is done
    got,      \* got[c]: what the last GetVersion of c delivered
    forgone,  \* contents deliberately given up: reclaimed, or overwritten from outside
    crashes, foreign, faults

store == <<object, archive, journal, torn>>
counters == <<crashes, foreign, faults>>
vars == <<store, task, want, got, forgone, counters>>

MaybeContent == Contents \union {None}

Event == [seq : Nat \ {0}, action : {"push", "revert"}, md5 : Contents,
          to : Nat, oob : BOOLEAN]

Task == [pc : {"idle", "stat", "archive", "copy", "put", "restore", "number",
               "append", "sweep", "fetch", "blob"},
         op : {"none", "push", "revert", "gc", "read"},
         sum : MaybeContent,        \* content to write, restore or read
         to : Nat,                  \* revert: the sequence number restored
         known : SUBSET Event,      \* the journal as read at the start
         next : Nat \ {0},          \* next sequence number to try
         current : MaybeContent,    \* the object's checksum as observed
         victims : SUBSET Contents] \* gc: blobs still to delete

(* What the locals of an operation hold at each of its steps. *)
Shaped(t) ==
    /\ t.op \in {"push", "revert", "read"} => t.sum \in Contents
    /\ t.pc \in {"archive", "copy"} => t.current \in Contents
    /\ t.pc \in {"archive", "copy", "number", "append"} => t.op \in {"push", "revert"}
    /\ t.pc = "put" => t.op = "push"
    /\ t.pc = "restore" => t.op = "revert"
    /\ t.pc \in {"fetch", "blob"} => t.op = "read"

Idle == [pc |-> "idle", op |-> "none", sum |-> None, to |-> 0, known |-> {},
         next |-> 1, current |-> None, victims |-> {}]

Read == [asked : Contents, bytes : Contents, from : {"object", "archive"}]
NoRead == [from |-> "nowhere"]

-----------------------------------------------------------------------------
(* The order of journal() and what the operations read off it.             *)

Newer(e, f) == e.seq > f.seq \/ (e.seq = f.seq /\ e.md5 > f.md5)

IsLast(e, E) == e \in E /\ \A f \in E \ {e} : Newer(e, f)

IsHeadMD5(m, E) == \E e \in E : IsLast(e, E) /\ e.md5 = m

(* The event toSeq names: the last of those that carry the number. *)
IsVersion(e, E) == IsLast(e, {f \in E : f.seq = e.seq})

(* Where appendEvent starts counting: the last known number, plus one. *)
NextSeqsSkewed(E) == IF E = {} THEN {1} ELSE {e.seq : e \in {f \in E : IsLast(f, E)}}
NextSeqs(E) == IF E = {} THEN {1} ELSE {e.seq + 1 : e \in {f \in E : IsLast(f, E)}}

MD5s(E) == {e.md5 : e \in E}

MoreRecent(n, m, E) ==
    \E e \in E : e.md5 = n /\ \A f \in E : f.md5 = m => Newer(e, f)

(* GC's candidates beyond the budget: of the distinct checksums other than *)
(* the current one, newest event first, those from position keep on.       *)
VictimsCountingCurrent(E, cur, keep) ==
    {m \in MD5s(E) \ {cur} :
        Cardinality({n \in MD5s(E) \ {m} : MoreRecent(n, m, E)}) >= keep}
Victims(E, cur, keep) ==
    {m \in MD5s(E) \ {cur} :
        Cardinality({n \in MD5s(E) \ {cur, m} : MoreRecent(n, m, E)}) >= keep}

(* The contents GetBlob can deliver from an object and an archive. *)
Available(o, a) == {m \in Contents : o = m \/ a[m] = m}

(* Bookkeeping of forgone: a step that gives up S on purpose. *)
GiveUp(S) == forgone' = (forgone \union S) \ Available(object', archive')

-----------------------------------------------------------------------------
Init ==
    /\ object = None
    /\ archive = [m \in Contents |-> None]
    /\ journal = {}
    /\ torn = FALSE
    /\ task = [c \in Clients |-> Idle]
    /\ want = [c \in Clients |-> None]
    /\ got = [c \in Clients |-> NoRead]
    /\ forgone = {}
    /\ crashes = 0 /\ foreign = 0 /\ faults = 0

At(c, label) == task[c].pc = label
Goto(c, label) == task' = [task EXCEPT ![c].pc = label]
Quit(c) == task' = [task EXCEPT ![c] = Idle]

(* Every operation starts by reading the key's journal, all of it. *)
Start(c, kind, m, seq) ==
    /\ At(c, "idle") /\ ~torn
    /\ \E n \in NextSeqs(journal) :
          task' = [task EXCEPT ![c] =
             [Idle EXCEPT !.pc = "stat", !.op = kind, !.sum = m, !.to = seq,
                          !.known = journal, !.next = n]]
    /\ UNCHANGED <<store, forgone, counters>>

Room == Cardinality(journal) < MaxEvents

BeginPush(c, m) ==
    /\ Room /\ want[c] = None
    /\ Start(c, "push", m, 0)
    /\ want' = [want EXCEPT ![c] = m]
    /\ UNCHANGED got

(* A file in the journal's directory that is no whole entry: journal() fails *)
(* and the operation with it, a push as any other.                         *)
JournalCorrupt(c) ==
    /\ At(c, "idle") /\ torn /\ want[c] = None
    /\ \E m \in Contents : want' = [want EXCEPT ![c] = m]
    /\ UNCHANGED <<store, task, got, forgone, counters>>

(* The user of a push that crashed or failed runs it again, or gives up. *)
Rerun(c) ==
    /\ want[c] # None
    /\ Start(c, "push", want[c], 0)
    /\ UNCHANGED <<want, got>>

Abandon(c) ==
    /\ At(c, "idle") /\ want[c] # None
    /\ want' = [want EXCEPT ![c] = None]
    /\ UNCHANGED <<store, task, got, forgone, counters>>

BeginRevert(c) ==
    /\ Room /\ want[c] = None
    /\ \E e \in journal : IsVersion(e, journal) /\ Start(c, "revert", e.md5, e.seq)
    /\ UNCHANGED <<want, got>>

BeginGC(c) ==
    /\ want[c] = None
    /\ Start(c, "gc", None, 0)
    /\ UNCHANGED <<want, got>>

BeginRead(c) ==
    /\ want[c] = None
    /\ \E e \in journal : IsVersion(e, journal) /\ Start(c, "read", e.md5, e.seq)
    /\ got' = [got EXCEPT ![c] = NoRead]
    /\ UNCHANGED want

-----------------------------------------------------------------------------
(* Push: observe the object.                                               *)

AtStat(c, kind) == At(c, "stat") /\ task[c].op = kind

(* Identical content and a journal that agrees: nothing to do. *)
PushNoOp(c) ==
    /\ AtStat(c, "push")
    /\ object = task[c].sum /\ IsHeadMD5(object, task[c].known)
    /\ Quit(c)
    /\ want' = [want EXCEPT ![c] = None]
    /\ UNCHANGED <<store, got, forgone, counters>>

(* The object is absent or already holds the content.  In the second case  *)
(* a store that reports checksums lets the push skip the Put; one that     *)
(* does not (SFTP, an S3 multipart object) has it written again.           *)
PushStatSettled(c) ==
    /\ AtStat(c, "push")
    /\ \/ object = None
       \/ object = task[c].sum /\ ~IsHeadMD5(object, task[c].known)
    /\ \E step \in IF object = None THEN {"put"} ELSE {"put", "number"} :
          task' = [task EXCEPT ![c].pc = step, ![c].current = object]
    /\ UNCHANGED <<store, want, got, forgone, counters>>

PushStatSupersedesUnarchived(c) ==
    /\ AtStat(c, "push")
    /\ object \notin {None, task[c].sum}
    /\ task' = [task EXCEPT ![c].pc = IF IsHeadMD5(object, task[c].known)
                                      THEN "put" ELSE "archive",
                            ![c].current = object]
    /\ UNCHANGED <<store, want, got, forgone, counters>>
PushStatSupersedes(c) ==
    /\ AtStat(c, "push")
    /\ object \notin {None, task[c].sum}
    /\ task' = [task EXCEPT ![c].pc = "archive", ![c].current = object]
    /\ UNCHANGED <<store, want, got, forgone, counters>>

-----------------------------------------------------------------------------
(* archiveIfAbsent, shared by Push and Revert: Stat the archive, then Copy *)
(* whatever the object holds by then.                                      *)

AfterArchive(c) == IF task[c].op = "push" THEN "put" ELSE "restore"

ArchiveStatRefuses(c) ==
    /\ At(c, "archive")
    /\ IF archive[task[c].current] = None THEN Goto(c, "copy") ELSE Quit(c)
    /\ UNCHANGED <<store, want, got, forgone, counters>>
ArchiveStat(c) ==
    /\ At(c, "archive")
    /\ Goto(c, IF archive[task[c].current] = None THEN "copy" ELSE AfterArchive(c))
    /\ UNCHANGED <<store, want, got, forgone, counters>>

(* That Stat fails: the bytes are copied, whether they are there or not. *)
ArchiveStatFault(c) ==
    /\ At(c, "archive")
    /\ faults < MaxFaults /\ faults' = faults + 1
    /\ Goto(c, "copy")
    /\ UNCHANGED <<store, want, got, forgone, crashes, foreign>>

ArchiveCopyToNewAddress(c) ==
    /\ At(c, "copy") /\ object # None
    /\ archive' = [archive EXCEPT ![task[c].sum] = object]
    /\ Goto(c, AfterArchive(c))
    /\ UNCHANGED <<object, journal, torn, want, got, counters>>
    /\ GiveUp({})
ArchiveCopy(c) ==
    /\ At(c, "copy") /\ object # None
    /\ archive' = [archive EXCEPT ![task[c].current] = object]
    /\ Goto(c, AfterArchive(c))
    /\ UNCHANGED <<object, journal, torn, want, got, counters>>
    /\ GiveUp({})

(* The source of a Copy or a Get is gone: the operation returns the error. *)
SourceMissing(c) ==
    /\ \/ At(c, "copy") /\ object = None
       \/ At(c, "restore") /\ archive[task[c].sum] = None
       \/ At(c, "fetch") /\ object = None
       \/ At(c, "blob") /\ archive[task[c].sum] # task[c].sum
    /\ Quit(c)
    /\ UNCHANGED <<store, want, got, forgone, counters>>

PushPut(c) ==
    /\ At(c, "put")
    /\ object' = task[c].sum
    /\ Goto(c, "number")
    /\ UNCHANGED <<archive, journal, torn, want, got, counters>>
    /\ GiveUp({})

-----------------------------------------------------------------------------
(* Revert: archive the current object by the same rule, copy the archived  *)
(* target back over it without looking at what it holds.                   *)

RevertStat(c) ==
    /\ AtStat(c, "revert")
    /\ task' = [task EXCEPT
          ![c].pc = IF object = task[c].sum THEN "number"
                    ELSE IF object = None THEN "restore" ELSE "archive",
          ![c].current = object]
    /\ UNCHANGED <<store, want, got, forgone, counters>>

(* Stat fails: Revert treats the object as absent.  The hashing of an       *)
(* object whose store reports no checksum fails: Revert archives it under   *)
(* the empty address, where nothing looks for it (S3), or fails at that     *)
(* because the address is the archive's directory (SFTP).                   *)
RevertStatFault(c) ==
    /\ AtStat(c, "revert")
    /\ faults < MaxFaults /\ faults' = faults + 1
    /\ \/ Goto(c, "restore")
       \/ object # None /\ Quit(c)
    /\ UNCHANGED <<store, want, got, forgone, crashes, foreign>>

Restore(c) ==
    /\ At(c, "restore") /\ archive[task[c].sum] # None
    /\ object' = archive[task[c].sum]
    /\ Goto(c, "number")
    /\ UNCHANGED <<archive, journal, torn, want, got, counters>>
    /\ GiveUp({})

-----------------------------------------------------------------------------
(* appendEvent: find a free entry name by Stat, then Put it.  A name is    *)
(* the number AND the checksum, so only an entry with both collides.       *)

Taken(n, m) == \E e \in journal : e.seq = n /\ e.md5 = m

Attempt(c) == \E n \in NextSeqs(task[c].known) : task[c].next < n + MaxAttempts

AppendStat(c) ==
    /\ At(c, "number") /\ Attempt(c)
    /\ IF Taken(task[c].next, task[c].sum)
       THEN task' = [task EXCEPT ![c].next = @ + 1]
       ELSE Goto(c, "append")
    /\ UNCHANGED <<store, want, got, forgone, counters>>

AppendGivesUp(c) ==
    /\ At(c, "number") /\ ~Attempt(c)
    /\ Quit(c)
    /\ UNCHANGED <<store, want, got, forgone, counters>>

(* The Stat fails: the name is taken to be free. *)
AppendStatFault(c) ==
    /\ At(c, "number") /\ Attempt(c)
    /\ faults < MaxFaults /\ faults' = faults + 1
    /\ Goto(c, "append")
    /\ UNCHANGED <<store, want, got, forgone, crashes, foreign>>

(* The object found before the write did not match the journal head. *)
OutOfBand(c) ==
    /\ task[c].op = "push" /\ task[c].current # None
    /\ ~IsHeadMD5(task[c].current, task[c].known)

NewEvent(c) == [seq |-> task[c].next, action |-> task[c].op, md5 |-> task[c].sum,
                to |-> task[c].to, oob |-> OutOfBand(c)]

AppendPutByNumber(c) ==
    /\ At(c, "append")
    /\ journal' = {e \in journal : e.seq # task[c].next} \union {NewEvent(c)}
    /\ want' = [want EXCEPT ![c] = IF task[c].op = "push" THEN None ELSE @]
    /\ Quit(c)
    /\ UNCHANGED <<object, archive, torn, got, forgone, counters>>
AppendPut(c) ==
    /\ At(c, "append")
    /\ journal' = {e \in journal : ~(e.seq = task[c].next /\ e.md5 = task[c].sum)}
                     \union {NewEvent(c)}
    /\ want' = [want EXCEPT ![c] = IF task[c].op = "push" THEN None ELSE @]
    /\ Quit(c)
    /\ UNCHANGED <<object, archive, torn, got, forgone, counters>>

(* The client dies in that Put, or the Put's last step fails.  The entry is *)
(* there, under its own name or whole in the temporary file, and the user   *)
(* was not told; or what is there is a part of it.                          *)
AppendDies(c) ==
    /\ At(c, "append")
    /\ crashes < MaxCrashes /\ crashes' = crashes + 1
    /\ \/ /\ journal' = {e \in journal : ~(e.seq = task[c].next /\ e.md5 = task[c].sum)}
                            \union {NewEvent(c)}
          /\ UNCHANGED torn
       \/ /\ TempFiles /\ torn' = TRUE
          /\ UNCHANGED journal
    /\ Quit(c)
    /\ UNCHANGED <<object, archive, want, got, forgone, foreign, faults>>

-----------------------------------------------------------------------------
(* GC: observe the object, then Stat and Delete the victims, newest first. *)

GCStat(c) ==
    /\ AtStat(c, "gc")
    /\ task' = [task EXCEPT ![c].pc = "sweep", ![c].current = object,
                            ![c].victims = Victims(task[c].known, object, Keep)]
    /\ UNCHANGED <<store, want, got, forgone, counters>>

(* Stat fails: GC takes the key to have no current content. *)
GCStatFault(c) ==
    /\ AtStat(c, "gc")
    /\ faults < MaxFaults /\ faults' = faults + 1
    /\ task' = [task EXCEPT ![c].pc = "sweep",
                            ![c].victims = Victims(task[c].known, None, Keep)]
    /\ UNCHANGED <<store, want, got, forgone, crashes, foreign>>

GCDelete(c) ==
    /\ At(c, "sweep")
    /\ \E m \in task[c].victims :
          /\ \A n \in task[c].victims \ {m} : MoreRecent(m, n, task[c].known)
          /\ archive' = [archive EXCEPT ![m] = None]
          /\ task' = [task EXCEPT ![c].victims = @ \ {m}]
          /\ UNCHANGED <<object, journal, torn, want, got, counters>>
          /\ GiveUp({m})

(* The Stat of a blob fails: it is left where it is. *)
GCSkip(c) ==
    /\ At(c, "sweep")
    /\ faults < MaxFaults /\ faults' = faults + 1
    /\ \E m \in task[c].victims :
          /\ \A n \in task[c].victims \ {m} : MoreRecent(m, n, task[c].known)
          /\ task' = [task EXCEPT ![c].victims = @ \ {m}]
    /\ UNCHANGED <<store, want, got, forgone, crashes, foreign>>

GCDone(c) ==
    /\ At(c, "sweep") /\ task[c].victims = {}
    /\ Quit(c)
    /\ UNCHANGED <<store, want, got, forgone, counters>>

-----------------------------------------------------------------------------
(* GetVersion and GetBlob: the object when its checksum matches, else the  *)
(* archived blob, whose stream is hashed on the way out.                   *)

ReadStatByJournal(c) ==
    /\ AtStat(c, "read")
    /\ Goto(c, IF object # None /\ IsHeadMD5(task[c].sum, task[c].known)
                THEN "fetch" ELSE "blob")
    /\ UNCHANGED <<store, want, got, forgone, counters>>
ReadStat(c) ==
    /\ AtStat(c, "read")
    /\ Goto(c, IF object = task[c].sum THEN "fetch" ELSE "blob")
    /\ UNCHANGED <<store, want, got, forgone, counters>>

Deliver(c, bytes, from) ==
    got' = [got EXCEPT ![c] = [asked |-> task[c].sum, bytes |-> bytes, from |-> from]]

ReadObject(c) ==
    /\ At(c, "fetch") /\ object # None
    /\ Deliver(c, object, "object")
    /\ Quit(c)
    /\ UNCHANGED <<store, want, forgone, counters>>

ReadBlob(c) ==
    /\ At(c, "blob") /\ archive[task[c].sum] = task[c].sum
    /\ Deliver(c, archive[task[c].sum], "archive")
    /\ Quit(c)
    /\ UNCHANGED <<store, want, forgone, counters>>

-----------------------------------------------------------------------------
(* What happens around the clients.                                        *)

Crash(c) ==
    /\ ~At(c, "idle")
    /\ crashes < MaxCrashes /\ crashes' = crashes + 1
    /\ Quit(c)
    /\ UNCHANGED <<store, want, got, forgone, foreign, faults>>

ForeignWrite ==
    /\ foreign < MaxForeign /\ foreign' = foreign + 1
    /\ Overlap \/ \A c \in Clients : At(c, "idle")
    /\ \E m \in MaybeContent \ {object} : object' = m
    /\ UNCHANGED <<archive, journal, torn, task, want, got, crashes, faults>>
    /\ GiveUp({object} \ {None})

(* A step the running client takes by itself once an operation started. *)
Step(c) ==
    \/ PushNoOp(c) \/ PushStatSettled(c) \/ PushStatSupersedes(c) \/ PushPut(c)
    \/ ArchiveStat(c) \/ ArchiveStatFault(c) \/ ArchiveCopy(c) \/ SourceMissing(c)
    \/ RevertStat(c) \/ RevertStatFault(c) \/ Restore(c)
    \/ AppendStat(c) \/ AppendStatFault(c) \/ AppendGivesUp(c) \/ AppendPut(c)
    \/ GCStat(c) \/ GCStatFault(c) \/ GCDelete(c) \/ GCSkip(c) \/ GCDone(c)
    \/ ReadStat(c) \/ ReadObject(c) \/ ReadBlob(c)

Begin(c) ==
    \/ \E m \in Contents : BeginPush(c, m)
    \/ BeginRevert(c) \/ BeginGC(c) \/ BeginRead(c)

Next ==
    \/ \E c \in Clients :
          \/ Begin(c) \/ Step(c) \/ Rerun(c) \/ Abandon(c)
          \/ JournalCorrupt(c) \/ Crash(c) \/ AppendDies(c)
    \/ ForeignWrite

Spec == Init /\ [][Next]_vars

(* A running client is scheduled, and a user re-runs a push that failed.   *)
(* Nothing obliges a user to start or abandon an operation.                *)
Fairness == \A c \in Clients : WF_vars(Step(c)) /\ WF_vars(Rerun(c))
FairSpec == Spec /\ Fairness

-----------------------------------------------------------------------------
(***************************************************************************)
(* Properties.                                                             *)
(***************************************************************************)

(* Every variable stays in its range and an operation's locals fit its step. *)
TypeOK ==
    /\ object \in MaybeContent
    /\ archive \in [Contents -> MaybeContent]
    /\ journal \subseteq Event /\ torn \in BOOLEAN
    /\ task \in [Clients -> Task] /\ \A c \in Clients : Shaped(task[c])
    /\ want \in [Clients -> MaybeContent]
    /\ got \in [Clients -> Read \union {NoRead}]
    /\ forgone \subseteq Contents
    /\ crashes \in 0..MaxCrashes /\ foreign \in 0..MaxForeign /\ faults \in 0..MaxFaults

(* workspace.go:8 "every version datapin wrote is revertible": the bytes   *)
(* of every journaled version are the current object or archived under     *)
(* their address, unless gc reclaimed them or something that is not        *)
(* datapin overwrote them, whatever crashed in between.                    *)
Revertible == MD5s(journal) \subseteq Available(object, archive) \union forgone

(* Each entry has a number of its own and the numbers run from 1 without a *)
(* gap: GetVersion and Revert name exactly one event by its number.        *)
JournalNumbered ==
    /\ \A e, f \in journal : e.seq = f.seq => e = f
    /\ \A e \in journal : e.seq = 1 \/ \E f \in journal : f.seq = e.seq - 1

(* Versions reports a version Recoverable when its address exists; GetBlob *)
(* delivers it when the bytes there also hash to it.  The two agree.       *)
RecoverableHonest ==
    \A e \in journal :
        (e.md5 = object \/ archive[e.md5] # None) => e.md5 \in Available(object, archive)

(* workspace.go:283 gc keeps the most recent Keep distinct archived        *)
(* versions and the current object never counts: whenever a client sweeps  *)
(* a blob away, Keep versions other than the current remain recoverable.   *)
(* (A version lost to a crash or an outside write still takes a place.)    *)
Recoverables(o, a) == (MD5s(journal) \intersect Available(o, a)) \ {o}
GCKeepsBudget ==
    [][\A m \in Contents :
          archive[m] # None /\ archive'[m] = None /\ crashes = 0 /\ foreign = 0 =>
          Cardinality(Recoverables(object', archive')) >= Keep]_vars

(* Observed state and journal agree again whenever nobody is at work: what  *)
(* the key holds is a version one can name, whatever clients raced for the  *)
(* object, for its archive and for an entry's number, and whichever Stat    *)
(* failed.  Each client journals what it put, at the latest with the last   *)
(* step of its operation (workspace.go:153); only a death in between, or a  *)
(* program that knows no journal, leaves bytes without a version.           *)
ObjectJournaled ==
    (\A c \in Clients : At(c, "idle")) /\ crashes = 0 /\ foreign = 0 =>
        object \in MD5s(journal) \union {None}

(* GetVersion delivers the bytes of the version asked for. *)
ReadsRight == \A c \in Clients : got[c] # NoRead => got[c].bytes = got[c].asked

(* A push that keeps being re-run is answered, whatever crashed before and  *)
(* wherever.  The one thing that stops it is a death that tears the journal *)
(* entry it was writing: from then on no operation on the key succeeds, and *)
(* "recovery from any crash is re-run the push" (workspace.go:93) is not so *)
(* (row 22 of the README).                                                  *)
PushAnswered == \A c \in Clients : want[c] # None ~> (want[c] = None \/ torn)

(* The inductive invariant behind Revertible and JournalNumbered when one  *)
(* client works on the workspace: every blob sits under its own address,   *)
(* the journal does not move under a running operation, and before the     *)
(* object is overwritten its bytes are safe in the archive.                *)
Alone == (\A c, d \in Clients : c = d) /\ ~Overlap /\ MaxFaults = 0

Safe(t) ==
    /\ t.known = journal
    /\ \A e \in journal : e.seq < t.next
    /\ t.next = 1 \/ \E e \in journal : e.seq = t.next - 1
    /\ t.pc \in {"archive", "copy"} => object = t.current
    /\ t.pc \in {"put", "restore"} =>
          object \in {None, t.sum} \/ archive[object] = object
    /\ t.pc \in {"number", "append"} => object = t.sum

SoloInv ==
    /\ \A m \in Contents : archive[m] \in {None, m}
    /\ \A c \in Clients : At(c, "idle") \/ Safe(task[c])
    /\ Revertible
    /\ JournalNumbered

(* A lone client refines the abstract store. *)
VS == INSTANCE VersionStore WITH
        current <- object,
        history <- {<<e.seq, e.md5>> : e \in journal},
        avail   <- Available(object, archive),
        outside <- foreign
VersionStoreSpec == VS!Spec
=============================================================================
