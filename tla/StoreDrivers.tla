---------------------------- MODULE StoreDrivers ----------------------------
(***************************************************************************)
(* The three stores under a workspace, below the atomic Put and Copy that  *)
(* Workspace takes for granted: a directory (localdir.go), an SFTP server  *)
(* (sftpws.go) and an S3 bucket (s3ws.go), with writers of the same names  *)
(* side by side.  The first two write a temporary file beside the target   *)
(* and rename it; S3 stores and copies objects in one request.  Every file *)
(* system call is a step.  A name is an object, an archived version or a   *)
(* journal entry of a key; what a journal lists is what datapin will read  *)
(* as its events.                                                          *)
(***************************************************************************)
EXTENDS Naturals, FiniteSets

CONSTANTS
    Drivers,     \* the drivers checked: of {"dir", "sftp", "s3"}
    Posix,       \* SFTP: whether the server has posix-rename
    Rooted,      \* S3: whether the remote's URL has a path after the bucket
    Together,    \* drivers whose writers may write one name at the same time
    Names,       \* names: <<key, "object" | "archive" | "journal">>
    Longer,      \* pairs of keys, the text of the second beginning with the first
    Contents,    \* contents of objects, archived versions and entries
    None,        \* no file
    Torn,        \* a file written in part, or a mix of two writers' bytes
    Writers,     \* processes that write
    MaxTemps,    \* bound on temporary files of one name at a time
    MaxLeft,     \* bound on temporary files left behind
    MaxCrashes,  \* bound on writers that die
    MaxFaults    \* bound on calls that fail

ASSUME DriverAssumption ==
    /\ Drivers \subseteq {"dir", "sftp", "s3"} /\ Together \subseteq Drivers
    /\ Posix \subseteq BOOLEAN /\ Rooted \subseteq BOOLEAN
    /\ Names # {}
    /\ None \notin Contents /\ Torn \notin Contents /\ None # Torn
    /\ None \notin Names \X Contents
    /\ {MaxTemps, MaxLeft, MaxCrashes, MaxFaults} \subseteq Nat /\ MaxTemps # 0

VARIABLES
    server,      \* the driver in use and what the far side can do
    files,       \* files[n][0] is the object, files[n][t] temporary file t of it
    put,         \* put[w] is the Put or Copy a writer is in
    removed,     \* turns over when Delete, or Put before a plain rename, removes an object
    left,        \* temporary files whose writer died or could not rename them
    crashes, faults

vars == <<server, files, put, removed, left, crashes, faults>>
counters == <<left, crashes, faults>>

(* A capability that is not the driver's is left at one value. *)
Servers == {f \in [driver : Drivers, posix : Posix, rooted : Rooted] :
                /\ f.driver # "sftp" => f.posix = CHOOSE x \in Posix : TRUE
                /\ f.driver # "s3" => f.rooted = CHOOSE x \in Rooted : TRUE}

Slots == 0..MaxTemps
Gone == MaxTemps + 1     \* the file an open descriptor refers to has no name

Put == [pc : {"idle", "create", "write", "rename", "plain", "store"},
        name : Names,
        content : Contents \union {Torn},
        slot : Slots,              \* the temporary name
        fd : Slots \union {Gone}]  \* where the open file is by now

Idle == [pc |-> "idle", name |-> CHOOSE n \in Names : TRUE,
         content |-> Torn, slot |-> 0, fd |-> Gone]

Init ==
    /\ server \in Servers
    /\ files = [n \in Names |-> [s \in Slots |-> None]]
    /\ put = [w \in Writers |-> Idle]
    /\ removed = FALSE /\ left = {} /\ crashes = 0 /\ faults = 0

Is(driver) == server.driver = driver
At(w, label) == put[w].pc = label
Busy(n) == {w \in Writers : ~At(w, "idle") /\ put[w].name = n}
Object(n) == files[n][0]
HasTemp(w) == put[w].pc \in {"write", "rename", "plain"}

(* The temporary file of a put stays where listings find it. *)
Leaves(w) ==
    /\ Cardinality(left) < MaxLeft
    /\ left' = left \union {<<put[w].name, put[w].slot>>}

Returns(w) == [put EXCEPT ![w] = Idle]
Fault == faults < MaxFaults /\ faults' = faults + 1 /\ UNCHANGED crashes

(* Descriptors follow a file that is renamed and survive one that is gone. *)
Moved(p, n, from, to) ==
    [w \in Writers |->
        IF p[w].name # n THEN p[w]
        ELSE [p[w] EXCEPT !.fd = IF @ = from THEN to ELSE IF @ = to THEN Gone ELSE @]]
Unlinked(p, n, s) == Moved(p, n, s, Gone)

-----------------------------------------------------------------------------
(* Put and Copy.  Copy opens its source, so it delivers what was in place  *)
(* then, also when the source is replaced meanwhile.                       *)

Begin(w, n, m) ==
    /\ At(w, "idle")
    /\ server.driver \in Together \/ Busy(n) = {}
    /\ put' = [put EXCEPT ![w] = [Idle EXCEPT !.pc = IF Is("s3") THEN "store" ELSE "create",
                                              !.name = n, !.content = m]]
    /\ UNCHANGED <<server, files, removed, counters>>

BeginPut(w) == \E n \in Names, m \in Contents : Begin(w, n, m)

(* Between a key's object and its archive, either way. *)
BeginCopy(w) ==
    \E src, dst \in Names :
        /\ src[1] = dst[1] /\ {src[2], dst[2]} = {"object", "archive"}
        /\ Object(src) # None
        /\ Begin(w, dst, Object(src))

(* A directory gives the temporary file a name of its own; SFTP always the *)
(* same one, so that a file already there is emptied and shared.           *)
Created(w, t) ==
    /\ files' = [files EXCEPT ![put[w].name][t] = Torn]
    /\ put' = [put EXCEPT ![w].pc = "write", ![w].slot = t, ![w].fd = t]
    /\ left' = left \ {<<put[w].name, t>>}
    /\ UNCHANGED <<server, removed, crashes, faults>>

CreateFixed(w) == At(w, "create") /\ Created(w, 1)
CreateTemp(w) ==
    /\ Is("dir") /\ At(w, "create")
    /\ \E t \in Slots \ {0} :
          /\ files[put[w].name][t] = None
          /\ \A s \in 1..(t - 1) : files[put[w].name][s] # None
          /\ Created(w, t)
Create(w) == Is("sftp") /\ CreateFixed(w)

(* The last byte is written and the file closed.  Over another writer's    *)
(* bytes the result is the longer tail of the two.                         *)
Write(w) ==
    /\ At(w, "write")
    /\ LET p == put[w] IN
       /\ IF p.fd = Gone THEN UNCHANGED files
          ELSE \E m \in {p.content} \union
                        (IF files[p.name][p.fd] \in {p.content, Torn} THEN {} ELSE {Torn}) :
                  files' = [files EXCEPT ![p.name][p.fd] = m]
       /\ put' = [put EXCEPT ![w].pc = "rename", ![w].fd = Gone]
    /\ UNCHANGED <<server, removed, counters>>

(* The copy fails: the temporary name is removed, whoever's it is by now. *)
WriteFailsUnclean(w) ==
    /\ At(w, "write") /\ Fault
    /\ put' = Returns(w)
    /\ UNCHANGED <<server, files, removed, left>>
WriteFails(w) ==
    /\ At(w, "write") /\ Fault
    /\ files' = [files EXCEPT ![put[w].name][put[w].slot] = None]
    /\ put' = Unlinked(Returns(w), put[w].name, put[w].slot)
    /\ UNCHANGED <<server, removed, left>>

(* The temporary file takes the place of the object in one step. *)
InPlace(w) ==
    LET p == put[w] IN
    /\ files[p.name][p.slot] # None
    /\ files' = [files EXCEPT ![p.name][0] = files[p.name][p.slot], ![p.name][p.slot] = None]
    /\ put' = Moved(Returns(w), p.name, p.slot, 0)
    /\ UNCHANGED <<server, removed, counters>>

Rename(w) == At(w, "rename") /\ (Is("dir") \/ (Is("sftp") /\ server.posix)) /\ InPlace(w)

(* In a directory a rename that fails ends the put with an error and       *)
(* leaves the temporary file, whole, where listings find it.               *)
RenameFails(w) ==
    /\ At(w, "rename") /\ Is("dir") /\ Fault
    /\ put' = Returns(w)
    /\ Leaves(w)
    /\ UNCHANGED <<server, files, removed>>

(* SFTP without posix-rename, or one that failed: the object is removed... *)
RenameRefused(w) ==
    LET p == put[w] IN
    /\ At(w, "rename") /\ Is("sftp")
    /\ IF server.posix /\ files[p.name][p.slot] # None THEN Fault
       ELSE UNCHANGED <<crashes, faults>>
    /\ files' = [files EXCEPT ![p.name][0] = None]
    /\ removed' = IF Object(p.name) = None THEN removed ELSE ~removed
    /\ put' = Unlinked([put EXCEPT ![w].pc = "plain"], p.name, 0)
    /\ UNCHANGED <<server, left>>

(* ...or stays when that fails, which is not looked at... *)
RemovalFails(w) ==
    /\ At(w, "rename") /\ Is("sftp") /\ ~server.posix
    /\ Object(put[w].name) # None /\ Fault
    /\ put' = [put EXCEPT ![w].pc = "plain"]
    /\ UNCHANGED <<server, files, removed, left>>

(* ...and the temporary file renamed to a name that must be free. *)
PlainRename(w) == At(w, "plain") /\ Object(put[w].name) = None /\ InPlace(w)

PlainRenameFails(w) ==
    LET p == put[w] IN
    /\ At(w, "plain")
    /\ IF Object(p.name) = None /\ files[p.name][p.slot] # None
       THEN Fault ELSE UNCHANGED <<crashes, faults>>
    /\ files' = [files EXCEPT ![p.name][p.slot] = None]
    /\ put' = Unlinked(Returns(w), p.name, p.slot)
    /\ UNCHANGED <<server, removed, left>>

(* S3: PutObject and CopyObject, each one request. *)
Store(w) ==
    /\ At(w, "store")
    /\ files' = [files EXCEPT ![put[w].name][0] = put[w].content]
    /\ put' = Returns(w)
    /\ UNCHANGED <<server, removed, counters>>

(* The file cannot be made, or the request to S3 fails: nothing is there.  *)
Refused(w) ==
    /\ At(w, "create") \/ At(w, "store")
    /\ Fault
    /\ put' = Returns(w)
    /\ UNCHANGED <<server, files, removed, left>>

(* The process dies, or loses the connection and with it the clean-up.     *)
Crash(w) ==
    /\ ~At(w, "idle")
    /\ crashes < MaxCrashes /\ crashes' = crashes + 1
    /\ put' = Returns(w)
    /\ IF HasTemp(w) THEN Leaves(w) ELSE UNCHANGED left
    /\ UNCHANGED <<server, files, removed, faults>>

(* gc deletes archived versions, and nothing else is deleted. *)
Delete(n) ==
    /\ n[2] = "archive" /\ Object(n) # None
    /\ files' = [files EXCEPT ![n][0] = None]
    /\ put' = Unlinked(put, n, 0)
    /\ removed' = ~removed
    /\ UNCHANGED <<server, counters>>

Next ==
    \/ \E w \in Writers :
          \/ BeginPut(w) \/ BeginCopy(w) \/ CreateTemp(w) \/ Create(w)
          \/ Write(w) \/ WriteFails(w) \/ Rename(w) \/ RenameFails(w)
          \/ RenameRefused(w) \/ RemovalFails(w) \/ PlainRename(w) \/ PlainRenameFails(w)
          \/ Store(w) \/ Refused(w) \/ Crash(w)
    \/ \E n \in Names : Delete(n)

Spec == Init /\ [][Next]_vars

-----------------------------------------------------------------------------
(* ListPrefix of a key's journal, and List.  Files of every name in the    *)
(* directory are listed; S3 compares the text of names, and joining the    *)
(* remote's path to the prefix loses the slash that ended the key.         *)
Listed(n) == {<<n, s>> : s \in {t \in Slots : files[n][t] # None}}
InJournal(n, k) ==
    n[2] = "journal" /\ (n[1] = k \/ (Is("s3") /\ server.rooted /\ <<k, n[1]>> \in Longer))
Journal(k) == UNION {Listed(n) : n \in {x \in Names : InJournal(x, k)}}
List == UNION {Listed(n) : n \in {x \in Names : x[2] = "object"}}

-----------------------------------------------------------------------------
(***************************************************************************)
(* Properties.                                                             *)
(***************************************************************************)

AllIdle == \A w \in Writers : At(w, "idle")
KeysUsed == {n[1] : n \in Names}

(* Ranges; and the temporary file of a put to a directory stays where the  *)
(* put left it, whatever other writers of the name do.                     *)
TypeOK ==
    /\ server \in Servers
    /\ files \in [Names -> [Slots -> Contents \union {None, Torn}]]
    /\ put \in [Writers -> Put]
    /\ removed \in BOOLEAN /\ left \subseteq Names \X Slots
    /\ \A w \in Writers :
          Is("dir") /\ (At(w, "write") \/ At(w, "rename")) =>
              /\ put[w].slot # 0 /\ files[put[w].name][put[w].slot] # None
              /\ At(w, "write") => put[w].fd = put[w].slot

(* sftpws.go:222 "readers never see a torn object", localdir.go:151        *)
(* "atomically": what Workspace takes a driver's Put and Copy to be.  SFTP *)
(* keeps it as long as two writers do not write one name at a time.        *)
OS == INSTANCE ObjectStore WITH
          objects <- [n \in Names |-> Object(n)],
          asked <- [w \in Writers |->
                       IF At(w, "idle") THEN None ELSE <<put[w].name, put[w].content>>]
ObjectStoreSpec == OS!Spec

(* workspace.go:379 "journal reads a key's events": with no call under way *)
(* every file a journal lists can be read as an event.  Not so after a     *)
(* writer died: README.md, divergence 22.                                  *)
JournalReadable ==
    AllIdle => \A k \in KeysUsed : \A f \in Journal(k) : files[f[1]][f[2]] \in Contents

(* The same comment: every name a journal lists is an entry of that key.   *)
(* Not so on S3 with a path in the URL: README.md, divergence 23.          *)
JournalIsOwn ==
    \A k \in KeysUsed : \A f \in Journal(k) : f[1][1] = k

(* What puts leave in the listings.  With none under way, every temporary  *)
(* file in a journal or among the objects is one whose writer died or, in  *)
(* a directory, failed to rename it (localdir.go:174): no other call that  *)
(* fails leaves one, and SFTP's fixed name is taken over by the next put.  *)
(* As long as nobody died all that is listed is whole, on S3 with a path   *)
(* in the URL the entries of longer keys too: a failed rename shows a      *)
(* complete entry a second time, never one that cannot be read.            *)
ListingsClean ==
    AllIdle =>
        /\ \A f \in List \union UNION {Journal(k) : k \in KeysUsed} : f[2] # 0 => f \in left
        /\ crashes = 0 => /\ JournalReadable
                          /\ \A f \in List : files[f[1]][f[2]] \in Contents
=============================================================================
