------------------------ MODULE WorkspaceFilesProofs ------------------------
(***************************************************************************)
(* Proofs about WorkspaceFiles, for any number of users, files, contents,  *)
(* edits and faults.  Type correctness holds as the module stands; that    *)
(* the commands status asks for lose nothing and work holds when no file   *)
(* changes between the hash and the upload of a push (~EditsOverlap: the   *)
(* code does not detect such a change).                                    *)
(***************************************************************************)
EXTENDS WorkspaceFiles, TLAPS

(***************************************************************************)
(* What holds of a user's command between its steps.                       *)
(***************************************************************************)

(* A pull looks and fetches, the writing commands put and journal. *)
Stepping(u) == Running(u) => (run[u].cmd = "pull" <=> run[u].step \in {"look", "fetch"})

TypeInv ==
    /\ FilesTypeOK
    /\ \A u \in Users : Stepping(u)
    /\ edits \in Nat /\ faults \in Nat

(* No content the journal names is lost but by gc or from outside. *)
Recoverable == \A k \in Keys :
    Recorded(k) \subseteq Available(object[k], archive[k]) \union forgone[k]

(* A write is in place when it is journaled. *)
InPlace(u) == At(u, "journal") => \A k \in Keys : IsAt(u, k) => object[k] = run[u].sums[k]

(* A push puts what it hashed, has put it for the files it is through      *)
(* with, and while status said that nothing needs pulling the files it     *)
(* still has to push hold nothing that the workspace moved past.           *)
Pushing(u) == Running(u) /\ run[u].cmd = "push" =>
    /\ \A k \in Keys : local[u][k] \in {None, run[u].sums[k]}
    /\ run[u].shown # "moot" =>
          /\ \A k \in Keys : local[u][k] = run[u].sums[k]
          /\ \A k \in Keys \ run[u].todo : object[k] = run[u].sums[k]
    /\ run[u].shown \in {"AHEAD", "NOT_PUSHED"} => \A k \in run[u].todo :
          object[k] \in {None, run[u].sums[k]} \/ run[u].sums[k] \notin Recorded(k)

(* A pull that status asked for overwrites only what the journal names, and *)
(* agrees with the workspace on the files it is through with.              *)
Pulling(u) ==
    Running(u) /\ run[u].cmd = "pull" /\ run[u].shown \in {"BEHIND", "MISSING", "IN_SYNC"} =>
        /\ \A k \in Keys : object[k] = None => local[u][k] = None
        /\ \E k \in Keys : object[k] # None
        /\ \A k \in run[u].todo : local[u][k] \in Recorded(k) \union {None, object[k]}
        /\ \A k \in Keys \ run[u].todo : local[u][k] = object[k]
        /\ run[u].step = "fetch" => \A k \in Keys : IsAt(u, k) => object[k] # None

WorkInv == Recoverable /\ \A u \in Users : InPlace(u) /\ Pushing(u) /\ Pulling(u)

-----------------------------------------------------------------------------
(* What the parts of a step do to the commands that run.                   *)

Steps == {"put", "journal", "look", "fetch"}
RunsOK == run \in [Users -> Run \union {Idle}]

LEMMA IdleIsNoRun == Idle \notin Run
  BY DEF Idle, Run

LEMMA RunningType ==
  ASSUME RunsOK, NEW u \in Users
  PROVE  Running(u) <=> run[u] \in Run
  BY IdleIsNoRun DEF RunsOK, Running

(* The command of v goes on as it was, or is no longer alone. *)
Same(v) ==
    /\ Running(v)' <=> Running(v)
    /\ Running(v) => /\ run'[v].cmd = run[v].cmd /\ run'[v].step = run[v].step
                     /\ run'[v].sums = run[v].sums /\ run'[v].todo = run[v].todo
                     /\ run'[v].shown \in {run[v].shown, "moot"}
                     /\ run'[v].asked => run[v].asked

LEMMA OnwardRun ==
  ASSUME RunsOK, NEW u \in Users, Running(u), NEW k, NEW step \in Steps,
         Onward(u, k, step)
  PROVE  /\ RunsOK'
         /\ \A v \in Users \ {u} : Same(v) /\ run'[v] = run[v]
         /\ run[u].todo = {k} => ~Running(u)' /\ run'[u] = Idle
         /\ run[u].todo # {k} =>
              /\ Running(u)' /\ run'[u].step = step /\ run'[u].todo = run[u].todo \ {k}
              /\ run'[u].cmd = run[u].cmd /\ run'[u].sums = run[u].sums
              /\ run'[u].shown = run[u].shown /\ run'[u].asked = run[u].asked
<1>1. run[u] \in Run  BY RunningType
<1>2. CASE run[u].todo = {k}
  <2>1. run' = [run EXCEPT ![u] = Idle]  BY <1>2 DEF Onward
  <2>. QED BY <2>1, <1>2 DEF RunsOK, Same, Running
<1>3. CASE run[u].todo # {k}
  <2> DEFINE r == [run[u] EXCEPT !.step = step, !.todo = @ \ {k}]
  <2>1. run' = [run EXCEPT ![u] = r]
    <3>1. run' = [run EXCEPT ![u] = IF run[u].todo = {k} THEN Idle ELSE r]  BY DEF Onward
    <3>. QED BY <1>3, <3>1
  <2>2. r \in Run /\ r.step = step /\ r.todo = run[u].todo \ {k} /\ r.cmd = run[u].cmd
        /\ r.sums = run[u].sums /\ r.shown = run[u].shown /\ r.asked = run[u].asked
    BY <1>1 DEF Run, Steps
  <2>. HIDE DEF r
  <2>3. run'[u] = r /\ \A v \in Users \ {u} : run'[v] = run[v]  BY <2>1 DEF RunsOK
  <2>4. RunsOK'  BY <2>1, <2>2 DEF RunsOK
  <2>. QED BY <1>3, <2>2, <2>3, <2>4, IdleIsNoRun DEF Same, Running
<1>. QED BY <1>2, <1>3

LEMMA QuitRun ==
  ASSUME RunsOK, NEW u \in Users, Quit(u)
  PROVE  /\ RunsOK' /\ ~Running(u)' /\ run'[u] = Idle
         /\ \A v \in Users \ {u} : Same(v) /\ run'[v] = run[v]
  BY DEF Quit, RunsOK, Same, Running

(* One command's record with its status set to moot. *)
LEMMA Mooted ==
  ASSUME NEW r \in Run
  PROVE  LET m == [r EXCEPT !.shown = "moot"]
         IN  /\ m \in Run /\ m.shown = "moot" /\ m.cmd = r.cmd /\ m.step = r.step
             /\ m.sums = r.sums /\ m.todo = r.todo /\ m.asked = r.asked
  BY DEF Run

LEMMA PlacedRun ==
  ASSUME RunsOK, NEW u \in Users, Running(u), Placed(u)
  PROVE  /\ RunsOK'
         /\ \A v \in Users \ {u} : Same(v)
         /\ \A v \in Users \ {u} : object' = object \/ (Running(v) => run'[v].shown = "moot")
         /\ Running(u)' /\ run'[u].step = "journal" /\ run'[u].todo = run[u].todo
         /\ run'[u].cmd = run[u].cmd /\ run'[u].sums = run[u].sums
         /\ run'[u].shown = run[u].shown
<1> DEFINE r == [run[u] EXCEPT !.step = "journal"]
<1>1. run[u] \in Run  BY RunningType
<1>2. r \in Run /\ r.step = "journal" /\ r.todo = run[u].todo /\ r.cmd = run[u].cmd
      /\ r.sums = run[u].sums /\ r.shown = run[u].shown
  BY <1>1 DEF Run
<1>3. run'[u] = r  BY DEF Placed
<1>. HIDE DEF r
<1>4. ASSUME NEW v \in Users \ {u}
      PROVE  /\ run'[v] \in Run \union {Idle} /\ Same(v)
             /\ object' = object \/ (Running(v) => run'[v].shown = "moot")
  <2>1. CASE Running(v) /\ object' # object
    <3>1. run'[v] = [run[v] EXCEPT !.shown = "moot"]  BY <2>1 DEF Placed
    <3>2. run[v] \in Run  BY <2>1, RunningType
    <3>. QED BY <2>1, <3>1, <3>2, Mooted, IdleIsNoRun DEF Same, Running
  <2>2. CASE ~(Running(v) /\ object' # object)
    <3>1. run'[v] = run[v]  BY <2>2 DEF Placed
    <3>. QED BY <2>2, <3>1 DEF Same, Running, RunsOK
  <2>. QED BY <2>1, <2>2
<1>5. RunsOK'
  <2>1. run' = [v \in Users |-> run'[v]]  BY DEF Placed
  <2>. QED BY <2>1, <1>2, <1>3, <1>4 DEF RunsOK
<1>. QED BY <1>2, <1>3, <1>4, <1>5, IdleIsNoRun DEF Running

LEMMA ForeignRun ==
  ASSUME RunsOK,
         run' = [u \in Users |-> IF Running(u) THEN [run[u] EXCEPT !.shown = "moot"] ELSE run[u]]
  PROVE  /\ RunsOK'
         /\ \A v \in Users : Same(v) /\ (Running(v) => run'[v].shown = "moot")
<1>1. ASSUME NEW v \in Users
      PROVE  /\ run'[v] \in Run \union {Idle} /\ Same(v)
             /\ Running(v) => run'[v].shown = "moot"
  <2>1. CASE Running(v)
    <3>1. run'[v] = [run[v] EXCEPT !.shown = "moot"]  BY <2>1
    <3>2. run[v] \in Run  BY <2>1, RunningType
    <3>. QED BY <2>1, <3>1, <3>2, Mooted, IdleIsNoRun DEF Same, Running
  <2>2. CASE ~Running(v)
    <3>1. run'[v] = run[v]  BY <2>2
    <3>. QED BY <2>2, <3>1 DEF Same, Running, RunsOK
  <2>. QED BY <2>1, <2>2
<1>2. RunsOK'
  <2>1. run' = [v \in Users |-> run'[v]]  OBVIOUS
  <2>. QED BY <2>1, <1>1 DEF RunsOK
<1>. QED BY <1>1, <1>2

LEMMA EditRun ==
  ASSUME RunsOK, NEW u \in Users,
         run' = IF Running(u) THEN [run EXCEPT ![u].shown = "moot", ![u].asked = FALSE] ELSE run
  PROVE  /\ RunsOK'
         /\ \A v \in Users : Same(v)
         /\ Running(u) => run'[u].shown = "moot" /\ ~run'[u].asked
<1>1. CASE Running(u)
  <2> DEFINE r == [run[u] EXCEPT !.shown = "moot", !.asked = FALSE]
  <2>1. run[u] \in Run  BY <1>1, RunningType
  <2>2. run' = [run EXCEPT ![u] = r]  BY <1>1 DEF RunsOK
  <2>3. /\ r \in Run /\ r.shown = "moot" /\ r.cmd = run[u].cmd /\ r.step = run[u].step
        /\ r.sums = run[u].sums /\ r.todo = run[u].todo /\ ~r.asked
    BY <2>1 DEF Run
  <2>. HIDE DEF r
  <2>4. run'[u] = r /\ \A v \in Users \ {u} : run'[v] = run[v]  BY <2>2 DEF RunsOK
  <2>5. RunsOK'  BY <2>2, <2>3 DEF RunsOK
  <2>. QED BY <1>1, <2>3, <2>4, <2>5, IdleIsNoRun DEF Same, Running
<1>2. CASE ~Running(u)
  BY <1>2 DEF Same, Running, RunsOK
<1>. QED BY <1>1, <1>2

(* The status of a dataset is one of its states, and what it says of files. *)
LEMMA AggregateSays ==
  ASSUME NEW u \in Users
  PROVE  /\ Aggregate(u) \in States
         /\ Aggregate(u) \in {"BEHIND", "MISSING", "IN_SYNC"} =>
              /\ \A k \in Keys : /\ KeyState(u, k) # "AHEAD"
                                 /\ KeyState(u, k) = "NOT_PUSHED" => local[u][k] = None
              /\ \E k \in Keys : KeyState(u, k) \in {"BEHIND", "MISSING", "IN_SYNC"}
         /\ Aggregate(u) \in {"AHEAD", "NOT_PUSHED"} =>
              \A k \in Keys : KeyState(u, k) \notin {"BEHIND", "MISSING"}
         /\ /\ \A k \in Keys : \/ KeyState(u, k) = "IN_SYNC"
                               \/ KeyState(u, k) = "NOT_PUSHED" /\ local[u][k] = None
            /\ \E k \in Keys : KeyState(u, k) = "IN_SYNC"
            => Aggregate(u) = "IN_SYNC"
  BY DEF Aggregate, States, KeyStates

LEMMA StartsRun ==
  ASSUME RunsOK, NEW u \in Users, NEW cmd \in {"push", "revert", "pull"}, NEW step \in Steps,
         NEW sums \in [Keys -> MaybeContent], NEW todo \in SUBSET Keys,
         Starts(u, cmd, step, sums, todo)
  PROVE  /\ RunsOK'
         /\ \A v \in Users \ {u} : Same(v) /\ run'[v] = run[v]
         /\ ~Running(u) /\ Running(u)'
         /\ run'[u].cmd = cmd /\ run'[u].step = step /\ run'[u].sums = sums
         /\ run'[u].todo = todo
         /\ run'[u].shown = IF cmd = "revert" THEN "moot" ELSE Aggregate(u)
         /\ run'[u].asked => NoPushNeeded(u)
<1> DEFINE a == cmd = "pull" /\ NoPushNeeded(u)
           says == IF cmd = "revert" THEN "moot" ELSE Aggregate(u)
           r == [cmd |-> cmd, step |-> step, sums |-> sums, todo |-> todo,
                 shown |-> says, asked |-> a]
<1>0. a \in BOOLEAN /\ (a => NoPushNeeded(u))  OBVIOUS
<1>s. says \in States \union {"moot"} /\ says = IF cmd = "revert" THEN "moot" ELSE Aggregate(u)
  BY AggregateSays
<1>2. run' = [run EXCEPT ![u] = r] /\ ~Running(u)  BY DEF Starts
<1>. HIDE DEF a, says
<1>1. r \in Run  BY <1>0, <1>s DEF Run, Steps
<1>3. /\ r.cmd = cmd /\ r.step = step /\ r.sums = sums /\ r.todo = todo
      /\ r.shown = says /\ r.asked = a
  OBVIOUS
<1>. HIDE DEF r
<1>. QED BY <1>0, <1>s, <1>1, <1>2, <1>3, IdleIsNoRun DEF RunsOK, Same, Running

(* Journaling m under k. *)
LEMMA RecordAdds ==
  ASSUME journal \in [Keys -> Seq(Contents)], NEW k \in Keys, NEW m \in Contents,
         journal' = [journal EXCEPT ![k] = Append(@, m)]
  PROVE  /\ journal' \in [Keys -> Seq(Contents)]
         /\ Recorded(k)' = Recorded(k) \union {m}
         /\ \A j \in Keys \ {k} : Recorded(j)' = Recorded(j)
<1>1. journal'[k] = Append(journal[k], m)  OBVIOUS
<1>2. \A j \in Keys \ {k} : journal'[j] = journal[j]  OBVIOUS
<1>3. DOMAIN journal'[k] = DOMAIN journal[k] \union {Len(journal[k]) + 1}
      /\ \A i \in DOMAIN journal[k] : journal'[k][i] = journal[k][i]
      /\ journal'[k][Len(journal[k]) + 1] = m
  BY <1>1
<1>. QED BY <1>2, <1>3 DEF Recorded

-----------------------------------------------------------------------------
(***************************************************************************)
(* Type correctness, for any users, keys and contents, with or without     *)
(* edits that overlap a push.                                              *)
(***************************************************************************)

LEMMA TypeInit == Init => TypeInv
<1>. SUFFICES ASSUME Init PROVE TypeInv
  OBVIOUS
<1>1. FilesTypeOK
  BY DatasetAssumption DEF Init, FilesTypeOK, MaybeContent, Writing, Running
<1>2. \A u \in Users : Stepping(u)  BY DEF Init, Stepping, Running
<1>. QED BY <1>1, <1>2 DEF Init, TypeInv

(* One writer at a time, who hashed every file it works on. *)
OneWriter ==
    \A u \in Users : Writing(u) => /\ run[u].sums \in [Keys -> Contents]
                                   /\ \A v \in Users \ {u} : ~Writing(v)

(* A step after which the writers are among those of before. *)
LEMMA WritersKept ==
  ASSUME OneWriter,
         \A u \in Users : Writing(u)' => Writing(u) /\ run'[u].sums = run[u].sums
  PROVE  OneWriter'
  BY DEF OneWriter

LEMMA SameWrites ==
  ASSUME NEW u \in Users, Same(u), Stepping(u)
  PROVE  /\ Writing(u)' => Writing(u) /\ run'[u].sums = run[u].sums
         /\ Stepping(u)'
  BY DEF Same, Writing, Stepping

LEMMA TypeOf ==
  ASSUME local' \in [Users -> [Keys -> MaybeContent]],
         object' \in [Keys -> MaybeContent],
         archive' \in [Keys -> SUBSET Contents],
         journal' \in [Keys -> Seq(Contents)],
         RunsOK', forgone' \in [Keys -> SUBSET Contents], OneWriter',
         \A u \in Users : Stepping(u)',
         edits' \in Nat, faults' \in Nat
  PROVE  TypeInv'
  BY DEF TypeInv, FilesTypeOK, RunsOK, OneWriter

(* What the state gives a step of u to start from. *)
LEMMA TypeGives ==
  ASSUME TypeInv
  PROVE  /\ local \in [Users -> [Keys -> MaybeContent]]
         /\ object \in [Keys -> MaybeContent]
         /\ archive \in [Keys -> SUBSET Contents]
         /\ journal \in [Keys -> Seq(Contents)]
         /\ RunsOK /\ forgone \in [Keys -> SUBSET Contents] /\ OneWriter
         /\ \A u \in Users : Stepping(u)
         /\ edits \in Nat /\ faults \in Nat
         /\ \A u \in Users : Running(u) => run[u] \in Run
  BY RunningType DEF TypeInv, FilesTypeOK, RunsOK, OneWriter

LEMMA ForgoType ==
  ASSUME TypeInv, NEW k \in Keys, NEW S \in SUBSET Contents, Forgo(k, S)
  PROVE  forgone' \in [Keys -> SUBSET Contents]
  BY DEF Forgo, TypeInv, FilesTypeOK

(* An event journaled or a file handled: the command goes on or ends. *)
LEMMA TypeOnward ==
  ASSUME TypeInv, NEW u \in Users, NEW k, NEW step \in Steps, Running(u), Onward(u, k, step),
         run[u].cmd = "pull" <=> step \in {"look", "fetch"}
  PROVE  RunsOK' /\ OneWriter' /\ \A v \in Users : Stepping(v)'
<1>1. RunsOK /\ OneWriter /\ \A v \in Users : Stepping(v)  BY TypeGives
<1>2. /\ RunsOK'
      /\ \A v \in Users \ {u} : Same(v)
      /\ Running(u)' => run'[u].step = step /\ run'[u].cmd = run[u].cmd
                        /\ run'[u].sums = run[u].sums
  BY <1>1, OnwardRun
<1>3. Stepping(u)' /\ (Writing(u)' => Writing(u) /\ run'[u].sums = run[u].sums)
  BY <1>2 DEF Stepping, Writing
<1>4. \A v \in Users : Stepping(v)' /\ (Writing(v)' => Writing(v) /\ run'[v].sums = run[v].sums)
  BY <1>1, <1>2, <1>3, SameWrites
<1>. QED BY <1>1, <1>2, <1>4, WritersKept

LEMMA TypeQuit ==
  ASSUME TypeInv, NEW u \in Users, Quit(u)
  PROVE  RunsOK' /\ OneWriter' /\ \A v \in Users : Stepping(v)'
<1>1. RunsOK /\ OneWriter /\ \A v \in Users : Stepping(v)  BY TypeGives
<1>2. RunsOK' /\ ~Running(u)' /\ \A v \in Users \ {u} : Same(v)  BY <1>1, QuitRun
<1>3. Stepping(u)' /\ ~Writing(u)'  BY <1>2 DEF Stepping, Writing
<1>4. \A v \in Users : Stepping(v)' /\ (Writing(v)' => Writing(v) /\ run'[v].sums = run[v].sums)
  BY <1>1, <1>2, <1>3, SameWrites
<1>. QED BY <1>1, <1>2, <1>4, WritersKept

LEMMA TypePlaced ==
  ASSUME TypeInv, NEW u \in Users, Writing(u), Placed(u)
  PROVE  RunsOK' /\ OneWriter' /\ \A v \in Users : Stepping(v)'
<1>1. RunsOK /\ OneWriter /\ \A v \in Users : Stepping(v)  BY TypeGives
<1>2. /\ RunsOK' /\ \A v \in Users \ {u} : Same(v)
      /\ Running(u)' /\ run'[u].step = "journal" /\ run'[u].cmd = run[u].cmd
      /\ run'[u].sums = run[u].sums
  BY <1>1, PlacedRun DEF Writing
<1>3. Stepping(u)' /\ (Writing(u)' => Writing(u) /\ run'[u].sums = run[u].sums)
  BY <1>2 DEF Stepping, Writing
<1>4. \A v \in Users : Stepping(v)' /\ (Writing(v)' => Writing(v) /\ run'[v].sums = run[v].sums)
  BY <1>1, <1>2, <1>3, SameWrites
<1>. QED BY <1>1, <1>2, <1>4, WritersKept

LEMMA StepType ==
  ASSUME TypeInv, NEW u \in Users, Step(u)
  PROVE  TypeInv'
<1>t. /\ local \in [Users -> [Keys -> MaybeContent]]
      /\ object \in [Keys -> MaybeContent]
      /\ archive \in [Keys -> SUBSET Contents]
      /\ journal \in [Keys -> Seq(Contents)]
      /\ RunsOK /\ forgone \in [Keys -> SUBSET Contents] /\ OneWriter
      /\ edits \in Nat /\ faults \in Nat /\ Stepping(u)
      /\ Running(u) => run[u] \in Run
  BY TypeGives
<1>s. \A m : m \in MaybeContent <=> m \in Contents \/ m = None  BY DEF MaybeContent
<1>1. CASE PushUnchanged(u)
  <2>1. PICK k \in Keys : Onward(u, k, "put")  BY <1>1 DEF PushUnchanged
  <2>2. RunsOK' /\ OneWriter' /\ \A v \in Users : Stepping(v)'
    BY <1>1, <2>1, TypeOnward DEF PushUnchanged, At, Steps
  <2>. QED BY <1>1, <1>t, <2>2, TypeOf DEF PushUnchanged, store, counters
<1>2. CASE PushPut(u)
  <2>1. PICK k \in Keys :
          /\ local[u][k] # None
          /\ archive' = [archive EXCEPT ![k] = @ \union ({object[k]} \ {None, run[u].sums[k]})]
          /\ \E bytes \in {local[u][k]} \union ({object[k]} \intersect {run[u].sums[k]}) :
                object' = [object EXCEPT ![k] = bytes]
          /\ Placed(u)
          /\ Forgo(k, {})
    BY <1>2 DEF PushPut
  <2>2. Writing(u)  BY <1>2 DEF PushPut, At, Writing
  <2>3. RunsOK' /\ OneWriter' /\ \A v \in Users : Stepping(v)'
    BY <2>1, <2>2, TypePlaced
  <2>4. object' \in [Keys -> MaybeContent]  BY <2>1, <1>t
  <2>5. archive' \in [Keys -> SUBSET Contents]  BY <2>1, <1>t, <1>s
  <2>6. forgone' \in [Keys -> SUBSET Contents]  BY <2>1, ForgoType
  <2>. QED BY <1>2, <1>t, <2>3, <2>4, <2>5, <2>6, TypeOf DEF PushPut, counters
<1>3. CASE PushNoFile(u) \/ PullFetchFails(u)
  <2>1. Quit(u) /\ UNCHANGED <<local, store, forgone, counters>>
    BY <1>3 DEF PushNoFile, PullFetchFails
  <2>2. RunsOK' /\ OneWriter' /\ \A v \in Users : Stepping(v)'  BY <2>1, TypeQuit
  <2>. QED BY <2>1, <1>t, <2>2, TypeOf DEF store, counters
<1>4. CASE Record(u)
  <2>1. PICK k \in Keys :
          /\ journal' = [journal EXCEPT ![k] = Append(@, run[u].sums[k])]
          /\ Onward(u, k, "put")
    BY <1>4 DEF Record
  <2>2. run[u].cmd # "pull" /\ Writing(u)
    BY <1>4, <1>t DEF Record, At, Stepping, Writing, Run
  <2>3. RunsOK' /\ OneWriter' /\ \A v \in Users : Stepping(v)'
    BY <1>4, <2>1, <2>2, TypeOnward DEF Record, At, Steps
  <2>4. run[u].sums[k] \in Contents  BY <2>2, <1>t DEF OneWriter
  <2>5. journal' \in [Keys -> Seq(Contents)]  BY <1>t, <2>1, <2>4, RecordAdds
  <2>. QED BY <1>4, <1>t, <2>3, <2>5, TypeOf DEF Record, counters
<1>5. CASE Restore(u)
  <2>1. PICK k \in Keys :
          /\ archive' = [archive EXCEPT ![k] = @ \union ({object[k]} \ {None, run[u].sums[k]})]
          /\ object' = [object EXCEPT ![k] = run[u].sums[k]]
          /\ Placed(u)
          /\ Forgo(k, {})
    BY <1>5 DEF Restore
  <2>2. Writing(u)  BY <1>5 DEF Restore, At, Writing
  <2>3. RunsOK' /\ OneWriter' /\ \A v \in Users : Stepping(v)'
    BY <2>1, <2>2, TypePlaced
  <2>4. run[u].sums[k] \in Contents  BY <2>2, <1>t DEF OneWriter
  <2>5. object' \in [Keys -> MaybeContent]  BY <2>1, <2>4, <1>t, <1>s
  <2>6. archive' \in [Keys -> SUBSET Contents]  BY <2>1, <1>t, <1>s
  <2>7. forgone' \in [Keys -> SUBSET Contents]  BY <2>1, ForgoType
  <2>. QED BY <1>5, <1>t, <2>3, <2>5, <2>6, <2>7, TypeOf DEF Restore, counters
<1>6. CASE PullSkips(u)
  <2>1. PICK k \in Keys : Onward(u, k, "look")  BY <1>6 DEF PullSkips
  <2>2. Running(u) /\ run[u].cmd = "pull"  BY <1>6, <1>t DEF PullSkips, At, Stepping
  <2>3. RunsOK' /\ OneWriter' /\ \A v \in Users : Stepping(v)'
    BY <2>1, <2>2, TypeOnward DEF Steps
  <2>. QED BY <1>6, <1>t, <2>3, TypeOf DEF PullSkips, store, counters
<1>7. CASE PullLooks(u)
  <2>1. run' = [run EXCEPT ![u].step = "fetch"]  BY <1>7 DEF PullLooks
  <2>2. Running(u) /\ run[u].cmd = "pull"  BY <1>7, <1>t DEF PullLooks, At, Stepping
  <2>3. run'[u] = [run[u] EXCEPT !.step = "fetch"]  BY <2>1, <1>t DEF RunsOK
  <2>4. run'[u] \in Run /\ run'[u].cmd = "pull" /\ run'[u].step = "fetch"
    BY <2>2, <2>3, <1>t DEF Run
  <2>5. \A v \in Users \ {u} : run'[v] = run[v]  BY <2>1, <1>t DEF RunsOK
  <2>6. RunsOK'  BY <2>1, <2>3, <2>4, <2>5, <1>t DEF RunsOK
  <2>7. Stepping(u)' /\ ~Writing(u)'  BY <2>4 DEF Stepping, Writing
  <2>8. \A v \in Users : Stepping(v)' /\ (Writing(v)' => Writing(v) /\ run'[v].sums = run[v].sums)
    BY <2>5, <2>7, TypeGives DEF Stepping, Writing, Running
  <2>9. OneWriter'  BY <1>t, <2>8, WritersKept
  <2>. QED BY <1>7, <1>t, <2>6, <2>8, <2>9, TypeOf DEF PullLooks, store, counters
<1>8. CASE PullFetches(u)
  <2>1. PICK k \in Keys : Onward(u, k, "look") /\ local' = [local EXCEPT ![u][k] = object[k]]
    BY <1>8 DEF PullFetches
  <2>2. Running(u) /\ run[u].cmd = "pull"  BY <1>8, <1>t DEF PullFetches, At, Stepping
  <2>3. RunsOK' /\ OneWriter' /\ \A v \in Users : Stepping(v)'
    BY <2>1, <2>2, TypeOnward DEF Steps
  <2>4. local' \in [Users -> [Keys -> MaybeContent]]  BY <2>1, <1>t
  <2>. QED BY <1>8, <1>t, <2>3, <2>4, TypeOf DEF PullFetches, store, counters
<1>. QED BY <1>1, <1>2, <1>3, <1>4, <1>5, <1>6, <1>7, <1>8 DEF Step

LEMMA TypeNext ==
  ASSUME TypeInv, [Next]_vars
  PROVE  TypeInv'
<1>t. /\ local \in [Users -> [Keys -> MaybeContent]]
      /\ object \in [Keys -> MaybeContent]
      /\ archive \in [Keys -> SUBSET Contents]
      /\ journal \in [Keys -> Seq(Contents)]
      /\ RunsOK /\ forgone \in [Keys -> SUBSET Contents] /\ OneWriter
      /\ edits \in Nat /\ faults \in Nat /\ \A u \in Users : Stepping(u)
      /\ \A u \in Users : Running(u) => run[u] \in Run
  BY TypeGives
<1>s. \A m : m \in MaybeContent <=> m \in Contents \/ m = None  BY DEF MaybeContent
<1>1. ASSUME NEW u \in Users, NEW cmd \in {"push", "revert", "pull"}, NEW step \in Steps,
             NEW sums \in [Keys -> MaybeContent], NEW todo \in SUBSET Keys,
             Starts(u, cmd, step, sums, todo),
             cmd = "pull" <=> step \in {"look", "fetch"},
             cmd # "pull" => NobodyWrites /\ sums \in [Keys -> Contents]
      PROVE  TypeInv'
  <2>1. /\ RunsOK' /\ \A v \in Users \ {u} : Same(v)
        /\ Running(u)' /\ run'[u].cmd = cmd /\ run'[u].step = step /\ run'[u].sums = sums
    <3>1. Starts(u, cmd, step, sums, todo) /\ RunsOK  BY <1>1, <1>t
    <3>. QED BY <3>1, StartsRun
  <2>2. Stepping(u)'  BY <1>1, <2>1 DEF Stepping
  <2>3. \A v \in Users \ {u} :
          Stepping(v)' /\ (Writing(v)' => Writing(v) /\ run'[v].sums = run[v].sums)
    BY <1>t, <2>1, SameWrites
  <2>4. OneWriter'
    <3>1. CASE cmd = "pull"
      BY <3>1, <1>t, <2>1, <2>3, WritersKept DEF Writing
    <3>2. CASE cmd # "pull"
      BY <3>2, <1>1, <2>1, <2>3 DEF OneWriter, NobodyWrites
    <3>. QED BY <3>1, <3>2
  <2>. QED BY <1>1, <1>t, <2>1, <2>2, <2>3, <2>4, TypeOf DEF Starts, store, counters
<1>2. ASSUME NEW u \in Users, BeginPush(u)  PROVE TypeInv'
  <2>1. local[u] \in [Keys -> Contents]  BY <1>2, <1>t, <1>s DEF BeginPush
  <2>. QED BY <1>2, <2>1, <1>1, <1>t DEF BeginPush, Steps
<1>3. ASSUME NEW u \in Users, BeginRevert(u)  PROVE TypeInv'
  <2>1. PICK k \in Keys : \E m \in Recorded(k) :
          Starts(u, "revert", "put", [j \in Keys |-> m], {k})
    BY <1>3 DEF BeginRevert
  <2>2. PICK m \in Recorded(k) : Starts(u, "revert", "put", [j \in Keys |-> m], {k})
    BY <2>1
  <2>3. m \in Contents  BY <1>t DEF Recorded
  <2>4. [j \in Keys |-> m] \in [Keys -> Contents]
        /\ [j \in Keys |-> m] \in [Keys -> MaybeContent]
    BY <2>3, <1>s
  <2>. QED BY <1>3, <2>2, <2>4, <1>1 DEF BeginRevert, Steps
<1>4. ASSUME NEW u \in Users, BeginPull(u)  PROVE TypeInv'
  <2>1. [k \in Keys |-> None] \in [Keys -> MaybeContent]  BY <1>s
  <2>. QED BY <1>4, <2>1, <1>1 DEF BeginPull, Steps
<1>5. ASSUME NEW u \in Users, Crash(u)  PROVE TypeInv'
  <2>1. RunsOK' /\ OneWriter' /\ \A v \in Users : Stepping(v)'
    BY <1>5, TypeQuit DEF Crash
  <2>. QED BY <1>5, <2>1, <1>t, TypeOf DEF Crash, store
<1>6. ASSUME NEW u \in Users, Edit(u)  PROVE TypeInv'
  <2>1. PICK k \in Keys, m \in MaybeContent : local' = [local EXCEPT ![u][k] = m]
    BY <1>6 DEF Edit
  <2>2. RunsOK' /\ \A v \in Users : Same(v)  BY <1>6, <1>t, EditRun DEF Edit
  <2>3. \A v \in Users : Stepping(v)' /\ (Writing(v)' => Writing(v) /\ run'[v].sums = run[v].sums)
    BY <1>t, <2>2, SameWrites
  <2>4. OneWriter'  BY <1>t, <2>3, WritersKept
  <2>5. local' \in [Users -> [Keys -> MaybeContent]]  BY <2>1, <1>t
  <2>. QED BY <1>6, <1>t, <2>2, <2>3, <2>4, <2>5, TypeOf DEF Edit, store
<1>7. CASE GC
  <2>1. archive' \in [Keys -> SUBSET Contents]
    <3>1. archive' = [k \in Keys |-> archive[k] \ Victims(k)]  BY <1>7 DEF GC
    <3>. QED BY <3>1, <1>t
  <2>2. forgone' \in [Keys -> SUBSET Contents]
    <3>1. forgone' = [k \in Keys |-> forgone[k] \union (archive[k] \intersect Victims(k))]
      BY <1>7 DEF GC
    <3>. QED BY <3>1, <1>t
  <2>3. UNCHANGED <<local, object, journal, run, edits, faults>>  BY <1>7 DEF GC, counters
  <2>4. RunsOK' /\ OneWriter' /\ \A v \in Users : Stepping(v)'
    BY <1>t, <2>3 DEF RunsOK, OneWriter, Stepping, Writing, Running
  <2>. QED BY <1>t, <2>1, <2>2, <2>3, <2>4, TypeOf
<1>8. CASE ForeignWrite
  <2>1. PICK k \in Keys, m \in MaybeContent :
          /\ object' = [object EXCEPT ![k] = m]
          /\ Forgo(k, {object[k]} \ {None})
    BY <1>8 DEF ForeignWrite
  <2>2. RunsOK' /\ \A v \in Users : Same(v)  BY <1>8, <1>t, ForeignRun DEF ForeignWrite
  <2>3. \A v \in Users : Stepping(v)' /\ (Writing(v)' => Writing(v) /\ run'[v].sums = run[v].sums)
    BY <1>t, <2>2, SameWrites
  <2>4. OneWriter'  BY <1>t, <2>3, WritersKept
  <2>5. {object[k]} \ {None} \in SUBSET Contents  BY <1>t, <1>s
  <2>6. forgone' \in [Keys -> SUBSET Contents]  BY <2>1, <2>5, ForgoType
  <2>7. object' \in [Keys -> MaybeContent]  BY <2>1, <1>t
  <2>. QED BY <1>8, <1>t, <2>2, <2>3, <2>4, <2>6, <2>7, TypeOf DEF ForeignWrite
<1>9. CASE UNCHANGED vars
  <2>1. UNCHANGED <<local, object, archive, journal, run, forgone, edits, faults>>
    BY <1>9 DEF vars, store, counters
  <2>2. RunsOK' /\ OneWriter' /\ \A v \in Users : Stepping(v)'
    BY <1>t, <2>1 DEF RunsOK, OneWriter, Stepping, Writing, Running
  <2>. QED BY <1>t, <2>1, <2>2, TypeOf
<1>. QED BY <1>2, <1>3, <1>4, <1>5, <1>6, <1>7, <1>8, <1>9, StepType DEF Next

(* Every reachable state of the shared dataset is well typed, one command  *)
(* writes at a time, and what a writing command hashed are contents.       *)
THEOREM FilesTypeCorrect == Spec => []FilesTypeOK
<1>1. Spec => []TypeInv
  BY TypeInit, TypeNext, PTL DEF Spec
<1>. QED  BY <1>1, PTL DEF TypeInv

-----------------------------------------------------------------------------
(***************************************************************************)
(* The working invariant, when no file changes between the hash and the    *)
(* upload of a push.                                                       *)
(***************************************************************************)

Upholds(u) == InPlace(u) /\ Pushing(u) /\ Pulling(u)

LEMMA WorkInit == Init => WorkInv
  BY DEF Init, WorkInv, Recoverable, Recorded, InPlace, Pushing, Pulling, At, Running

LEMMA WorkOf ==
  ASSUME Recoverable', \A u \in Users : Upholds(u)'
  PROVE  WorkInv'
  BY DEF WorkInv, Upholds

LEMMA Unfinished ==
  ASSUME NEW u \in Users, Running(u), run[u].todo \subseteq Keys,
         NEW j \in Keys, NEW k \in Keys, IsAt(u, j), IsAt(u, k)
  PROVE  j = k
  BY DatasetAssumption DEF IsAt

(* Another user's step: it either leaves the objects alone or is seen.     *)
LEMMA Bystander ==
  ASSUME TypeInv, NEW v \in Users, Upholds(v), Same(v),
         local'[v] = local[v],
         object' = object \/ (Running(v) => run'[v].shown = "moot"),
         \A k \in Keys : Recorded(k) \subseteq Recorded(k)',
         Writing(v) => UNCHANGED <<object, journal>>
  PROVE  Upholds(v)'
<1>. USE DEF Same
<1>1. \A k : IsAt(v, k)' /\ Running(v) => IsAt(v, k)  BY DEF IsAt
<1>2. InPlace(v)'
  <2>1. SUFFICES ASSUME At(v, "journal")', NEW k \in Keys, IsAt(v, k)'
                 PROVE  object'[k] = run'[v].sums[k]
    BY DEF InPlace
  <2>2. Running(v) /\ At(v, "journal") /\ IsAt(v, k)  BY <2>1, <1>1 DEF At
  <2>3. Writing(v)
    BY <2>2, TypeGives DEF Stepping, Writing, At, Run
  <2>. QED BY <2>2, <2>3 DEF Upholds, InPlace, At
<1>3. Pushing(v)'
  <2>1. SUFFICES ASSUME Running(v), run[v].cmd = "push"  PROVE Pushing(v)'
    BY DEF Pushing
  <2>2. UNCHANGED <<object, journal>> /\ \A k : Recorded(k)' = Recorded(k)
    BY <2>1 DEF Writing, Recorded
  <2>. QED BY <2>1, <2>2 DEF Upholds, Pushing
<1>4. Pulling(v)'
  <2>1. SUFFICES ASSUME Running(v), run[v].cmd = "pull",
                        run'[v].shown \in {"BEHIND", "MISSING", "IN_SYNC"}
                 PROVE  Pulling(v)'
    BY DEF Pulling
  <2>2. run[v].shown = run'[v].shown /\ object' = object  BY <2>1
  <2>3. /\ \A k \in Keys : object[k] = None => local[v][k] = None
        /\ \E k \in Keys : object[k] # None
        /\ \A k \in run[v].todo : local[v][k] \in Recorded(k) \union {None, object[k]}
        /\ \A k \in Keys \ run[v].todo : local[v][k] = object[k]
        /\ run[v].step = "fetch" => \A k \in Keys : IsAt(v, k) => object[k] # None
    BY <2>1, <2>2 DEF Upholds, Pulling
  <2>4. run[v].todo \subseteq Keys  BY <2>1, TypeGives DEF Run
  <2>5. \A k \in run'[v].todo : local'[v][k] \in Recorded(k)' \union {None, object'[k]}
    BY <2>1, <2>2, <2>3, <2>4
  <2>6. run'[v].step = "fetch" => \A k \in Keys : IsAt(v, k)' => object'[k] # None
    BY <2>1, <2>2, <2>3, <1>1
  <2>. QED BY <2>1, <2>2, <2>3, <2>5, <2>6 DEF Pulling
<1>. QED BY <1>2, <1>3, <1>4 DEF Upholds

(* The bytes of a key change, those given up are accounted for.            *)
LEMMA RecoverableAt ==
  ASSUME TypeInv, Recoverable, NEW k \in Keys, NEW S \in SUBSET Contents, Forgo(k, S),
         UNCHANGED journal,
         \A j \in Keys \ {k} : object'[j] = object[j] /\ archive'[j] = archive[j],
         Available(object[k], archive[k]) \ S \subseteq Available(object'[k], archive'[k])
  PROVE  Recoverable'
<1>1. \A j \in Keys : Recorded(j)' = Recorded(j)  BY DEF Recorded
<1>2. forgone'[k] = (forgone[k] \union S) \ Available(object'[k], archive'[k])
      /\ \A j \in Keys \ {k} : forgone'[j] = forgone[j]
  BY TypeGives DEF Forgo
<1>. QED BY <1>1, <1>2 DEF Recoverable

(* The write of a push or a revert: what was there is archived first.      *)
LEMMA Placing ==
  ASSUME TypeInv, WorkInv, NEW u \in Users, At(u, "put"), NEW k \in Keys, IsAt(u, k),
         archive' = [archive EXCEPT ![k] = @ \union ({object[k]} \ {None, run[u].sums[k]})],
         object' = [object EXCEPT ![k] = run[u].sums[k]],
         Placed(u), Forgo(k, {}), UNCHANGED <<local, journal>>
  PROVE  WorkInv'
<1>t. /\ object \in [Keys -> MaybeContent] /\ archive \in [Keys -> SUBSET Contents]
      /\ RunsOK /\ OneWriter /\ \A v \in Users : Stepping(v)
      /\ \A v \in Users : Running(v) => run[v] \in Run
  BY TypeGives
<1>w. Writing(u) /\ Running(u) /\ run[u].cmd # "pull"
  BY <1>t DEF At, Stepping, Writing, Run
<1>r. /\ \A v \in Users \ {u} : Same(v)
      /\ \A v \in Users \ {u} : object' = object \/ (Running(v) => run'[v].shown = "moot")
      /\ Running(u)' /\ run'[u].step = "journal" /\ run'[u].todo = run[u].todo
      /\ run'[u].cmd = run[u].cmd /\ run'[u].sums = run[u].sums
      /\ run'[u].shown = run[u].shown
  BY <1>t, <1>w, PlacedRun
<1>s. run[u].sums[k] \in Contents /\ run[u].todo \subseteq Keys
  BY <1>t, <1>w DEF OneWriter, Run
<1>o. /\ object'[k] = run[u].sums[k]
      /\ \A j \in Keys \ {k} : object'[j] = object[j] /\ archive'[j] = archive[j]
      /\ archive'[k] = archive[k] \union ({object[k]} \ {None, run[u].sums[k]})
  BY <1>t
<1>1. Recoverable'
  <2>1. Available(object[k], archive[k]) \subseteq Available(object'[k], archive'[k])
    BY <1>o, <1>s, DatasetAssumption DEF Available
  <2>. QED BY <2>1, <1>o, RecoverableAt DEF WorkInv
<1>2. ASSUME NEW v \in Users \ {u}  PROVE Upholds(v)'
  <2>1. ~Writing(v)  BY <1>t, <1>w DEF OneWriter
  <2>2. \A j \in Keys : Recorded(j) \subseteq Recorded(j)'  BY DEF Recorded
  <2>3. Upholds(v) /\ Same(v) /\ (object' = object \/ (Running(v) => run'[v].shown = "moot"))
    BY <1>r DEF WorkInv, Upholds
  <2>. QED BY <2>1, <2>2, <2>3, Bystander
<1>3. InPlace(u)'
  <2>1. \A j \in Keys : IsAt(u, j)' => j = k
    BY <1>r, <1>s, <1>w, Unfinished DEF IsAt
  <2>. QED BY <2>1, <1>o, <1>r DEF InPlace
<1>4. Pushing(u)'
  <2>1. SUFFICES ASSUME run[u].cmd = "push"  PROVE Pushing(u)'
    BY <1>r DEF Pushing
  <2>2. Pushing(u)  BY DEF WorkInv
  <2>3. k \in run[u].todo  BY DEF IsAt
  <2>4. \A j : Recorded(j)' = Recorded(j)  BY DEF Recorded
  <2>5. \A j \in Keys : local'[u][j] \in {None, run'[u].sums[j]}
    BY <2>1, <2>2, <1>r, <1>w DEF Pushing
  <2>6. ASSUME run'[u].shown # "moot"
        PROVE  /\ \A j \in Keys : local'[u][j] = run'[u].sums[j]
               /\ \A j \in Keys \ run'[u].todo : object'[j] = run'[u].sums[j]
    BY <2>6, <2>1, <2>2, <2>3, <1>r, <1>w, <1>o DEF Pushing
  <2>7. ASSUME run'[u].shown \in {"AHEAD", "NOT_PUSHED"}, NEW j \in run'[u].todo
        PROVE  object'[j] \in {None, run'[u].sums[j]} \/ run'[u].sums[j] \notin Recorded(j)'
    <3>1. j \in Keys /\ (j # k => object'[j] = object[j])  BY <2>7, <1>r, <1>s, <1>o
    <3>. QED BY <3>1, <2>7, <2>1, <2>2, <2>4, <1>r, <1>w, <1>o DEF Pushing
  <2>. QED BY <2>5, <2>6, <2>7 DEF Pushing
<1>5. Pulling(u)'  BY <1>r, <1>w DEF Pulling
<1>. QED BY <1>1, <1>2, <1>3, <1>4, <1>5, WorkOf DEF Upholds

(* u is through with k, where the workspace holds what u hashed or has.    *)
LEMMA Handled ==
  ASSUME TypeInv, NEW u \in Users, Upholds(u), Running(u), NEW k \in Keys, IsAt(u, k),
         NEW step \in {"put", "look"}, Onward(u, k, step), UNCHANGED object,
         run[u].cmd \in {"push", "pull"} =>
            \A j \in Keys \ {k} : local'[u][j] = local[u][j] /\ Recorded(j)' = Recorded(j),
         run[u].cmd = "push" => local'[u] = local[u] /\ object[k] = run[u].sums[k],
         Pulling(u) /\ run[u].cmd = "pull" /\ run[u].shown \in {"BEHIND", "MISSING", "IN_SYNC"}
            => local'[u][k] = object[k]
  PROVE  Upholds(u)'
<1>1. /\ run[u].todo = {k} => ~Running(u)'
      /\ run[u].todo # {k} =>
           /\ Running(u)' /\ run'[u].step = step /\ run'[u].todo = run[u].todo \ {k}
           /\ run'[u].cmd = run[u].cmd /\ run'[u].sums = run[u].sums
           /\ run'[u].shown = run[u].shown
  BY TypeGives, OnwardRun DEF Steps
<1>2. CASE run[u].todo = {k}
  BY <1>1, <1>2 DEF Upholds, InPlace, Pushing, Pulling, At
<1>3. CASE run[u].todo # {k}
  <2>. USE <1>1, <1>3
  <2>t. run[u].todo \subseteq Keys  BY TypeGives DEF Run
  <2>1. InPlace(u)'  BY DEF InPlace, At
  <2>2. CASE run[u].cmd = "push"
    <3>0. local'[u] = local[u] /\ object[k] = run[u].sums[k]  BY <2>2
    <3>1. \A j \in Keys : local'[u][j] \in {None, run'[u].sums[j]}
      BY <2>2, <3>0 DEF Upholds, Pushing
    <3>2. ASSUME run'[u].shown # "moot"
          PROVE  /\ \A j \in Keys : local'[u][j] = run'[u].sums[j]
                 /\ \A j \in Keys \ run'[u].todo : object'[j] = run'[u].sums[j]
      BY <3>2, <2>2, <3>0 DEF Upholds, Pushing
    <3>3. ASSUME run'[u].shown \in {"AHEAD", "NOT_PUSHED"}, NEW j \in run'[u].todo
          PROVE  object'[j] \in {None, run'[u].sums[j]} \/ run'[u].sums[j] \notin Recorded(j)'
      <4>1. Recorded(j)' = Recorded(j)  BY <3>3, <2>2, <2>t
      <4>. QED BY <4>1, <3>3, <2>2 DEF Upholds, Pushing
    <3>4. Pushing(u)'  BY <3>1, <3>2, <3>3 DEF Pushing
    <3>5. Pulling(u)'  BY <2>2 DEF Pulling
    <3>. QED BY <2>1, <3>4, <3>5 DEF Upholds
  <2>3. CASE run[u].cmd # "push"
    <3>1. Pushing(u)'  BY <2>3 DEF Pushing
    <3>2. Pulling(u)'
      <4>1. SUFFICES ASSUME run[u].cmd = "pull",
                            run[u].shown \in {"BEHIND", "MISSING", "IN_SYNC"}
                     PROVE  Pulling(u)'
        BY DEF Pulling
      <4>2. /\ \A j \in Keys : object[j] = None => local[u][j] = None
            /\ \E j \in Keys : object[j] # None
            /\ \A j \in run[u].todo : local[u][j] \in Recorded(j) \union {None, object[j]}
            /\ \A j \in Keys \ run[u].todo : local[u][j] = object[j]
        BY <4>1 DEF Upholds, Pulling
      <4>3. local'[u][k] = object[k]  BY <4>1 DEF Upholds
      <4>4. \A j \in Keys \ {k} : local'[u][j] = local[u][j] /\ Recorded(j)' = Recorded(j)
        BY <4>1
      <4>5. \A j \in Keys : object'[j] = None => local'[u][j] = None
        BY <4>2, <4>3, <4>4
      <4>6. \A j \in run'[u].todo : local'[u][j] \in Recorded(j)' \union {None, object'[j]}
        <5>1. SUFFICES ASSUME NEW j \in run'[u].todo
                       PROVE  local'[u][j] \in Recorded(j)' \union {None, object'[j]}
          OBVIOUS
        <5>2. j \in Keys \ {k} /\ j \in run[u].todo  BY <2>t
        <5>. QED BY <5>2, <4>2, <4>4
      <4>7. \A j \in Keys \ run'[u].todo : local'[u][j] = object'[j]
        <5>1. SUFFICES ASSUME NEW j \in Keys, j \notin run'[u].todo
                       PROVE  local'[u][j] = object'[j]
          OBVIOUS
        <5>2. j = k \/ j \notin run[u].todo  BY <5>1
        <5>. QED BY <5>2, <4>2, <4>3, <4>4
      <4>8. run'[u].step # "fetch"  OBVIOUS
      <4>. QED BY <4>2, <4>5, <4>6, <4>7, <4>8 DEF Pulling
    <3>. QED BY <2>1, <3>1, <3>2 DEF Upholds
  <2>. QED BY <2>2, <2>3
<1>. QED BY <1>2, <1>3

LEMMA RecoverableSame ==
  ASSUME Recoverable, UNCHANGED <<object, archive, forgone, journal>>
  PROVE  Recoverable'
  BY DEF Recoverable, Recorded

(* The commands of the others, when objects stay as they are. *)
LEMMA Others ==
  ASSUME TypeInv, WorkInv, NEW u \in Users, UNCHANGED <<object, journal>>,
         \A v \in Users \ {u} : Same(v) /\ local'[v] = local[v],
         Recoverable', Upholds(u)'
  PROVE  WorkInv'
<1>1. \A k : Recorded(k)' = Recorded(k)  BY DEF Recorded
<1>2. \A v \in Users \ {u} : Upholds(v)'  BY <1>1, Bystander DEF WorkInv, Upholds
<1>. QED BY <1>2, WorkOf

LEMMA Ended ==
  ASSUME NEW u \in Users, ~Running(u)'
  PROVE  Upholds(u)'
  BY DEF Upholds, InPlace, Pushing, Pulling, At

LEMMA WorkStep ==
  ASSUME ~EditsOverlap, TypeInv, WorkInv, NEW u \in Users, Step(u)
  PROVE  WorkInv'
<1>t. /\ local \in [Users -> [Keys -> MaybeContent]]
      /\ object \in [Keys -> MaybeContent]
      /\ archive \in [Keys -> SUBSET Contents]
      /\ journal \in [Keys -> Seq(Contents)]
      /\ RunsOK /\ OneWriter /\ \A v \in Users : Stepping(v)
      /\ \A v \in Users : Running(v) => run[v] \in Run
  BY TypeGives
<1>i. Upholds(u) /\ Recoverable  BY DEF WorkInv, Upholds
<1>1. CASE PushUnchanged(u)
  <2>1. PICK k \in Keys : IsAt(u, k) /\ object[k] = run[u].sums[k] /\ Onward(u, k, "put")
    BY <1>1 DEF PushUnchanged
  <2>2. UNCHANGED <<local, object, archive, journal, forgone>>
        /\ Running(u) /\ run[u].cmd = "push"
    BY <1>1 DEF PushUnchanged, store, At
  <2>3. Upholds(u)'  BY <2>1, <2>2, <1>i, Handled DEF Recorded
  <2>4. \A v \in Users \ {u} : Same(v)  BY <2>1, <2>2, <1>t, OnwardRun DEF Steps
  <2>. QED BY <1>i, <2>2, <2>3, <2>4, Others, RecoverableSame
<1>2. CASE PushPut(u)
  <2>1. PICK k \in Keys :
          /\ IsAt(u, k) /\ local[u][k] # None
          /\ archive' = [archive EXCEPT ![k] = @ \union ({object[k]} \ {None, run[u].sums[k]})]
          /\ \E bytes \in {local[u][k]} \union ({object[k]} \intersect {run[u].sums[k]}) :
                object' = [object EXCEPT ![k] = bytes]
          /\ Placed(u)
          /\ Forgo(k, {})
    BY <1>2 DEF PushPut
  <2>2. At(u, "put") /\ Running(u) /\ run[u].cmd = "push" /\ UNCHANGED <<local, journal>>
    BY <1>2 DEF PushPut, At
  <2>3. local[u][k] = run[u].sums[k]  BY <2>1, <2>2, <1>i DEF Upholds, Pushing
  <2>4. object' = [object EXCEPT ![k] = run[u].sums[k]]  BY <2>1, <2>3
  <2>. QED BY <2>1, <2>2, <2>4, Placing
<1>3. CASE PushNoFile(u) \/ PullFetchFails(u)
  <2>1. Quit(u) /\ UNCHANGED <<local, object, archive, journal, forgone>>
    BY <1>3 DEF PushNoFile, PullFetchFails, store
  <2>2. ~Running(u)' /\ \A v \in Users \ {u} : Same(v)  BY <2>1, <1>t, QuitRun
  <2>. QED BY <1>i, <2>1, <2>2, Ended, Others, RecoverableSame
<1>4. CASE Record(u)
  <2>1. PICK k \in Keys :
          /\ IsAt(u, k)
          /\ journal' = [journal EXCEPT ![k] = Append(@, run[u].sums[k])]
          /\ Onward(u, k, "put")
    BY <1>4 DEF Record
  <2>2. UNCHANGED <<local, object, archive, forgone>> /\ Running(u) /\ At(u, "journal")
    BY <1>4 DEF Record, At
  <2>3. run[u].cmd # "pull" /\ Writing(u)
    BY <2>2, <1>t DEF At, Stepping, Writing, Run
  <2>4. object[k] = run[u].sums[k]  BY <1>i, <2>1, <2>2 DEF Upholds, InPlace
  <2>5. run[u].sums[k] \in Contents  BY <2>3, <1>t DEF OneWriter
  <2>6. /\ Recorded(k)' = Recorded(k) \union {object[k]}
        /\ \A j \in Keys \ {k} : Recorded(j)' = Recorded(j)
    BY <1>t, <2>1, <2>4, <2>5, RecordAdds
  <2>7. Recoverable'
    BY <1>i, <2>2, <2>4, <2>5, <2>6, DatasetAssumption DEF Recoverable, Available
  <2>8. Upholds(u)'  BY <1>i, <2>1, <2>2, <2>3, <2>4, <2>6, Handled
  <2>9. \A v \in Users \ {u} : Same(v) /\ run'[v] = run[v]
    BY <2>1, <2>2, <1>t, OnwardRun DEF Steps
  <2>10. ASSUME NEW v \in Users \ {u}  PROVE Upholds(v)'
    <3>1. ~Writing(v)  BY <1>t, <2>3 DEF OneWriter
    <3>2. \A j \in Keys : Recorded(j) \subseteq Recorded(j)'  BY <2>6
    <3>3. Upholds(v)  BY DEF WorkInv, Upholds
    <3>. QED BY <2>2, <2>9, <3>1, <3>2, <3>3, Bystander
  <2>. QED BY <2>7, <2>8, <2>10, WorkOf
<1>5. CASE Restore(u)
  <2>1. PICK k \in Keys :
          /\ IsAt(u, k)
          /\ archive' = [archive EXCEPT ![k] = @ \union ({object[k]} \ {None, run[u].sums[k]})]
          /\ object' = [object EXCEPT ![k] = run[u].sums[k]]
          /\ Placed(u)
          /\ Forgo(k, {})
    BY <1>5 DEF Restore
  <2>. QED BY <1>5, <2>1, Placing DEF Restore
<1>6. CASE PullSkips(u)
  <2>1. PICK k \in Keys : /\ IsAt(u, k) /\ object[k] \in {None, local[u][k]}
                          /\ Onward(u, k, "look")
    BY <1>6 DEF PullSkips
  <2>2. UNCHANGED <<local, object, archive, journal, forgone>>
        /\ Running(u) /\ run[u].cmd = "pull"
    BY <1>6, <1>t DEF PullSkips, store, At, Stepping
  <2>3. Pulling(u) /\ run[u].cmd = "pull" /\ run[u].shown \in {"BEHIND", "MISSING", "IN_SYNC"}
           => local'[u][k] = object[k]
    BY <2>1, <2>2 DEF Pulling
  <2>4. Upholds(u)'
    <3>1. \A j : Recorded(j)' = Recorded(j)  BY <2>2 DEF Recorded
    <3>. QED BY <2>1, <2>2, <2>3, <3>1, <1>i, Handled
  <2>5. \A v \in Users \ {u} : Same(v)  BY <2>1, <2>2, <1>t, OnwardRun DEF Steps
  <2>. QED BY <1>i, <2>2, <2>4, <2>5, Others, RecoverableSame
<1>7. CASE PullLooks(u)
  <2>1. PICK k \in Keys : IsAt(u, k) /\ object[k] \notin {None, local[u][k]}
    BY <1>7 DEF PullLooks
  <2>2. /\ run' = [run EXCEPT ![u].step = "fetch"]
        /\ UNCHANGED <<local, object, archive, journal, forgone>>
        /\ Running(u) /\ run[u].cmd = "pull"
    BY <1>7, <1>t DEF PullLooks, store, At, Stepping
  <2>3. /\ run'[u].cmd = "pull" /\ run'[u].step = "fetch" /\ run'[u].shown = run[u].shown
        /\ run'[u].todo = run[u].todo
    BY <2>2, <1>t DEF RunsOK, Run
  <2>4. \A v \in Users \ {u} : Same(v)  BY <2>2, <1>t DEF RunsOK, Same, Running
  <2>5. \A j \in Keys : IsAt(u, j)' => j = k
    BY <2>1, <2>2, <2>3, <1>t, Unfinished DEF IsAt, Run
  <2>6. Pulling(u)'
    <3>1. \A j : Recorded(j)' = Recorded(j)  BY <2>2 DEF Recorded
    <3>2. SUFFICES ASSUME run[u].shown \in {"BEHIND", "MISSING", "IN_SYNC"}  PROVE Pulling(u)'
      BY <2>3 DEF Pulling
    <3>3. /\ \A j \in Keys : object[j] = None => local[u][j] = None
          /\ \E j \in Keys : object[j] # None
          /\ \A j \in run[u].todo : local[u][j] \in Recorded(j) \union {None, object[j]}
          /\ \A j \in Keys \ run[u].todo : local[u][j] = object[j]
      BY <1>i, <2>2, <3>2 DEF Upholds, Pulling
    <3>. QED BY <2>1, <2>2, <2>3, <2>5, <3>1, <3>3 DEF Pulling
  <2>7. Upholds(u)'  BY <2>3, <2>6 DEF Upholds, InPlace, Pushing, At
  <2>. QED BY <1>i, <2>2, <2>4, <2>7, Others, RecoverableSame
<1>8. CASE PullFetches(u)
  <2>1. PICK k \in Keys : /\ IsAt(u, k) /\ object[k] # None
                          /\ local' = [local EXCEPT ![u][k] = object[k]]
                          /\ Onward(u, k, "look")
    BY <1>8 DEF PullFetches
  <2>2. UNCHANGED <<object, archive, journal, forgone>> /\ Running(u) /\ run[u].cmd = "pull"
    BY <1>8, <1>t DEF PullFetches, store, At, Stepping
  <2>3. /\ local'[u][k] = object[k]
        /\ \A j \in Keys \ {k} : local'[u][j] = local[u][j]
        /\ \A v \in Users \ {u} : local'[v] = local[v]
    BY <2>1, <1>t
  <2>4. Upholds(u)'
    <3>1. \A j : Recorded(j)' = Recorded(j)  BY <2>2 DEF Recorded
    <3>. QED BY <2>1, <2>2, <2>3, <3>1, <1>i, Handled
  <2>5. \A v \in Users \ {u} : Same(v)  BY <2>1, <2>2, <1>t, OnwardRun DEF Steps
  <2>. QED BY <1>i, <2>2, <2>3, <2>4, <2>5, Others, RecoverableSame
<1>. QED BY <1>1, <1>2, <1>3, <1>4, <1>5, <1>6, <1>7, <1>8 DEF Step

LEMMA WorkStarts ==
  ASSUME TypeInv, WorkInv, NEW u \in Users, BeginPush(u) \/ BeginRevert(u) \/ BeginPull(u)
  PROVE  WorkInv'
<1>t. /\ local \in [Users -> [Keys -> MaybeContent]] /\ RunsOK
      /\ journal \in [Keys -> Seq(Contents)]
  BY TypeGives
<1>m. \A m : m \in MaybeContent <=> m \in Contents \/ m = None  BY DEF MaybeContent
<1>i. Recoverable  BY DEF WorkInv
<1>1. CASE BeginPush(u)
  <2>1. Starts(u, "push", "put", local[u], Keys) /\ \A k \in Keys : local[u][k] # None
    BY <1>1 DEF BeginPush
  <2>2. UNCHANGED <<local, object, archive, journal, forgone>>  BY <2>1 DEF Starts, store
  <2>3. /\ \A v \in Users \ {u} : Same(v) /\ run'[v] = run[v]
        /\ Running(u)' /\ run'[u].cmd = "push" /\ run'[u].step = "put"
        /\ run'[u].sums = local[u] /\ run'[u].todo = Keys /\ run'[u].shown = Aggregate(u)
    <3>1. local[u] \in [Keys -> MaybeContent]  BY <1>t
    <3>. QED BY <1>t, <2>1, <3>1, StartsRun DEF Steps
  <2>4. ASSUME Aggregate(u) \in {"AHEAD", "NOT_PUSHED"}, NEW k \in Keys
        PROVE  object[k] \in {None, local[u][k]} \/ local[u][k] \notin Recorded(k)
    <3>1. KeyState(u, k) \notin {"BEHIND", "MISSING"}  BY <2>4, AggregateSays
    <3>. QED BY <3>1, <2>1 DEF KeyState, ClassifyKey
  <2>5. \A k : Recorded(k)' = Recorded(k)  BY <2>2 DEF Recorded
  <2>6. Pushing(u)'  BY <2>2, <2>3, <2>4, <2>5 DEF Pushing
  <2>7. Upholds(u)'  BY <2>3, <2>6 DEF Upholds, InPlace, Pulling, At
  <2>. QED BY <1>i, <2>2, <2>3, <2>7, Others, RecoverableSame
<1>2. CASE BeginRevert(u)
  <2>1. PICK k \in Keys : \E m \in Recorded(k) :
          Starts(u, "revert", "put", [j \in Keys |-> m], {k})
    BY <1>2 DEF BeginRevert
  <2>2. PICK m \in Recorded(k) : Starts(u, "revert", "put", [j \in Keys |-> m], {k})
    BY <2>1
  <2>3. UNCHANGED <<local, object, archive, journal, forgone>>  BY <2>2 DEF Starts, store
  <2>4. /\ \A v \in Users \ {u} : Same(v) /\ run'[v] = run[v]
        /\ Running(u)' /\ run'[u].cmd = "revert" /\ run'[u].step = "put"
    <3>1. m \in Contents  BY <1>t DEF Recorded
    <3>2. [j \in Keys |-> m] \in [Keys -> MaybeContent]  BY <3>1, <1>m
    <3>. QED BY <1>t, <2>2, <3>2, StartsRun DEF Steps
  <2>5. Upholds(u)'  BY <2>4 DEF Upholds, InPlace, Pushing, Pulling, At
  <2>. QED BY <1>i, <2>3, <2>4, <2>5, Others, RecoverableSame
<1>3. CASE BeginPull(u)
  <2>1. Starts(u, "pull", "look", [k \in Keys |-> None], Keys)  BY <1>3 DEF BeginPull
  <2>2. UNCHANGED <<local, object, archive, journal, forgone>>  BY <2>1 DEF Starts, store
  <2>3. /\ \A v \in Users \ {u} : Same(v) /\ run'[v] = run[v]
        /\ Running(u)' /\ run'[u].cmd = "pull" /\ run'[u].step = "look"
        /\ run'[u].todo = Keys /\ run'[u].shown = Aggregate(u)
    <3>1. [k \in Keys |-> None] \in [Keys -> MaybeContent]  BY <1>m
    <3>. QED BY <1>t, <2>1, <3>1, StartsRun DEF Steps
  <2>4. Pulling(u)'
    <3>1. SUFFICES ASSUME Aggregate(u) \in {"BEHIND", "MISSING", "IN_SYNC"}
                   PROVE  Pulling(u)'
      BY <2>3 DEF Pulling
    <3>2. \A k \in Keys : /\ KeyState(u, k) # "AHEAD"
                          /\ KeyState(u, k) = "NOT_PUSHED" => local[u][k] = None
      BY <3>1, AggregateSays
    <3>3. \E k \in Keys : KeyState(u, k) \in {"BEHIND", "MISSING", "IN_SYNC"}
      BY <3>1, AggregateSays
    <3>4. \A k \in Keys : object[k] = None => local[u][k] = None
      BY <3>2 DEF KeyState, ClassifyKey
    <3>5. \E k \in Keys : object[k] # None
      BY <3>3 DEF KeyState, ClassifyKey
    <3>6. \A k \in Keys : local[u][k] \in Recorded(k) \union {None, object[k]}
      BY <3>2 DEF KeyState, ClassifyKey
    <3>7. \A k : Recorded(k)' = Recorded(k)  BY <2>2 DEF Recorded
    <3>. QED BY <2>2, <2>3, <3>4, <3>5, <3>6, <3>7 DEF Pulling
  <2>5. Upholds(u)'  BY <2>3, <2>4 DEF Upholds, InPlace, Pushing, At
  <2>. QED BY <1>i, <2>2, <2>3, <2>5, Others, RecoverableSame
<1>. QED BY <1>1, <1>2, <1>3

LEMMA WorkNext ==
  ASSUME ~EditsOverlap, TypeInv, WorkInv, [Next]_vars
  PROVE  WorkInv'
<1>t. /\ local \in [Users -> [Keys -> MaybeContent]]
      /\ object \in [Keys -> MaybeContent] /\ archive \in [Keys -> SUBSET Contents]
      /\ RunsOK /\ OneWriter /\ \A v \in Users : Stepping(v)
  BY TypeGives
<1>i. Recoverable /\ \A u \in Users : Upholds(u)  BY DEF WorkInv, Upholds
<1>m. \A m : m \in MaybeContent <=> m \in Contents \/ m = None  BY DEF MaybeContent
<1>1. ASSUME NEW u \in Users, Crash(u)  PROVE WorkInv'
  <2>1. ~Running(u)' /\ \A v \in Users \ {u} : Same(v)
    BY <1>1, <1>t, QuitRun DEF Crash
  <2>2. UNCHANGED <<local, object, archive, journal, forgone>>  BY <1>1 DEF Crash, store
  <2>. QED BY <1>i, <2>1, <2>2, Ended, Others, RecoverableSame
<1>2. ASSUME NEW u \in Users, Edit(u)  PROVE WorkInv'
  <2>1. PICK k \in Keys, m \in MaybeContent :
          /\ m = None \/ ~Writing(u)
          /\ local' = [local EXCEPT ![u][k] = m]
    BY <1>2 DEF Edit
  <2>2. UNCHANGED <<object, archive, journal, forgone>>  BY <1>2 DEF Edit, store
  <2>3. (\A v \in Users : Same(v)) /\ (Running(u) => run'[u].shown = "moot")
    BY <1>2, <1>t, EditRun DEF Edit
  <2>4. \A v \in Users \ {u} : local'[v] = local[v]  BY <2>1, <1>t
  <2>5. Pushing(u)'
    <3>1. SUFFICES ASSUME Running(u), run[u].cmd = "push"  PROVE Pushing(u)'
      BY <2>3 DEF Same, Pushing
    <3>2. m = None  BY <2>1, <3>1 DEF Writing
    <3>3. \A j \in Keys : local'[u][j] \in {None, run[u].sums[j]}
      BY <1>i, <1>t, <2>1, <3>1, <3>2 DEF Upholds, Pushing
    <3>. QED BY <2>3, <3>1, <3>3 DEF Same, Pushing
  <2>6. Pulling(u)'  BY <2>3 DEF Same, Pulling
  <2>7. InPlace(u)'
    <3>1. \A j : IsAt(u, j)' /\ Running(u) => IsAt(u, j)  BY <2>3 DEF IsAt, Same
    <3>. QED BY <1>i, <2>2, <2>3, <3>1 DEF Upholds, InPlace, At, Same
  <2>. QED BY <1>i, <2>2, <2>3, <2>4, <2>5, <2>6, <2>7, Others, RecoverableSame DEF Upholds
<1>3. CASE GC
  <2>1. UNCHANGED <<local, object, journal, run>>  BY <1>3 DEF GC
  <2>2. /\ archive' = [k \in Keys |-> archive[k] \ Victims(k)]
        /\ forgone' = [k \in Keys |-> forgone[k] \union (archive[k] \intersect Victims(k))]
    BY <1>3 DEF GC
  <2>3. \A k \in Keys : Available(object[k], archive[k]) \union forgone[k]
                          \subseteq Available(object'[k], archive'[k]) \union forgone'[k]
    BY <2>1, <2>2 DEF Available
  <2>4. \A k : Recorded(k)' = Recorded(k)  BY <2>1 DEF Recorded
  <2>5. Recoverable'  BY <1>i, <2>3, <2>4 DEF Recoverable
  <2>6. \A u \in Users : Same(u)  BY <2>1 DEF Same, Running
  <2>7. \A u \in Users : Upholds(u)'
    BY <1>i, <2>1, <2>4, <2>6, Bystander
  <2>. QED BY <2>5, <2>7, WorkOf
<1>4. CASE ForeignWrite
  <2>1. PICK k \in Keys, m \in MaybeContent :
          /\ object' = [object EXCEPT ![k] = m]
          /\ UNCHANGED archive /\ Forgo(k, {object[k]} \ {None})
    BY <1>4 DEF ForeignWrite
  <2>2. UNCHANGED <<local, journal>> /\ NobodyWrites  BY <1>4 DEF ForeignWrite
  <2>3. \A v \in Users : Same(v) /\ (Running(v) => run'[v].shown = "moot")
    BY <1>4, <1>t, ForeignRun DEF ForeignWrite
  <2>4. Recoverable'
    <3>1. {object[k]} \ {None} \in SUBSET Contents  BY <1>t, <1>m
    <3>2. Available(object[k], archive[k]) \ ({object[k]} \ {None})
             \subseteq Available(object'[k], archive'[k])
      BY <2>1 DEF Available
    <3>3. \A j \in Keys \ {k} : object'[j] = object[j] /\ archive'[j] = archive[j]
      BY <2>1, <1>t
    <3>. QED BY <1>i, <2>1, <2>2, <3>1, <3>2, <3>3, RecoverableAt
  <2>5. \A j : Recorded(j)' = Recorded(j)  BY <2>2 DEF Recorded
  <2>6. \A v \in Users : Upholds(v)'
    BY <1>i, <2>2, <2>3, <2>5, Bystander DEF NobodyWrites
  <2>. QED BY <2>4, <2>6, WorkOf
<1>5. CASE UNCHANGED vars
  <2>1. UNCHANGED <<local, object, archive, journal, run, forgone>>
    BY <1>5 DEF vars, store
  <2>2. \A u \in Users : Same(u)  BY <2>1 DEF Same, Running
  <2>3. \A k : Recorded(k)' = Recorded(k)  BY <2>1 DEF Recorded
  <2>4. \A u \in Users : Upholds(u)'  BY <1>i, <2>1, <2>2, <2>3, Bystander
  <2>. QED BY <1>i, <2>1, <2>4, WorkOf, RecoverableSame
<1>. QED BY <1>1, <1>2, <1>3, <1>4, <1>5, WorkStarts, WorkStep DEF Next

LEMMA WorkAlways ==
  ASSUME ~EditsOverlap
  PROVE  Spec => [](TypeInv /\ WorkInv)
<1>1. Init => TypeInv /\ WorkInv  BY TypeInit, WorkInit
<1>2. TypeInv /\ WorkInv /\ [Next]_vars => (TypeInv /\ WorkInv)'  BY TypeNext, WorkNext
<1>. QED BY <1>1, <1>2, PTL DEF Spec

-----------------------------------------------------------------------------
(* What changes a user's files without being an edit. *)
LEMMA OnlyFetches ==
  ASSUME TypeInv, [Next]_vars, NEW u \in Users, NEW k \in Keys, edits' = edits,
         local'[u][k] # local[u][k]
  PROVE  At(u, "fetch") /\ IsAt(u, k)
<1>1. PICK v \in Users : PullFetches(v)
  <2>1. ASSUME NEW v \in Users, Edit(v)  PROVE FALSE
    BY <2>1 DEF Edit, TypeInv
  <2>2. ASSUME NEW v \in Users,
               \/ BeginPush(v) \/ BeginRevert(v) \/ BeginPull(v) \/ Crash(v)
               \/ Step(v) /\ ~PullFetches(v)
        PROVE  local' = local
    BY <2>2 DEF BeginPush, BeginRevert, BeginPull, Starts, Crash, Step, PushUnchanged,
       PushPut, PushNoFile, Record, Restore, PullSkips, PullLooks, PullFetchFails
  <2>3. GC \/ ForeignWrite \/ UNCHANGED vars => local' = local
    BY DEF GC, ForeignWrite, vars
  <2>. QED BY <2>1, <2>2, <2>3 DEF Next
<1>2. PICK j \in Keys : IsAt(v, j) /\ local' = [local EXCEPT ![v][j] = object[j]]
  BY <1>1 DEF PullFetches
<1>3. v = u /\ j = k  BY <1>2, TypeGives
<1>. QED BY <1>1, <1>2, <1>3 DEF PullFetches

(* What a pull may cost its user: nothing the workspace keeps, was made to *)
(* give up, or was never there.                                            *)
Lasting(k) == Available(object[k], archive[k]) \union forgone[k] \union {None}

(* The files a pull that status asked for still has to handle are no more  *)
(* than that, however far the others have taken the workspace since.       *)
Asked(u) == Running(u) /\ run[u].cmd = "pull" /\ run[u].asked =>
    \A k \in run[u].todo : local[u][k] \in Lasting(k)
AskedInv == \A u \in Users : Asked(u)

(* Nothing the workspace holds is lost but what is accounted for.          *)
LEMMA Lasts ==
  ASSUME ~EditsOverlap, TypeInv, WorkInv, [Next]_vars, NEW k \in Keys
  PROVE  Lasting(k) \subseteq Lasting(k)'
<1>t. /\ object \in [Keys -> MaybeContent] /\ archive \in [Keys -> SUBSET Contents]
      /\ forgone \in [Keys -> SUBSET Contents]
  BY TypeGives
<1>1. ASSUME NEW j \in Keys, NEW S, Forgo(j, S),
             \A i \in Keys \ {j} : object'[i] = object[i] /\ archive'[i] = archive[i],
             Available(object[j], archive[j]) \ S \subseteq Available(object'[j], archive'[j])
      PROVE  Lasting(k) \subseteq Lasting(k)'
  <2>1. forgone'[j] = (forgone[j] \union S) \ Available(object'[j], archive'[j])
        /\ \A i \in Keys \ {j} : forgone'[i] = forgone[i]
    BY <1>1, <1>t DEF Forgo
  <2>2. CASE k = j  BY <1>1, <2>1, <2>2 DEF Lasting
  <2>3. CASE k # j
    <3>1. object'[k] = object[k] /\ archive'[k] = archive[k] /\ forgone'[k] = forgone[k]
      BY <1>1, <2>1, <2>3
    <3>. QED BY <3>1 DEF Lasting
  <2>. QED BY <2>2, <2>3
<1>2. ASSUME NEW v \in Users, PushPut(v) \/ Restore(v)
      PROVE  Lasting(k) \subseteq Lasting(k)'
  <2>1. PICK j \in Keys :
          /\ archive' = [archive EXCEPT ![j] = @ \union ({object[j]} \ {None, run[v].sums[j]})]
          /\ object' = [object EXCEPT ![j] = run[v].sums[j]]
          /\ Forgo(j, {})
    <3>1. CASE Restore(v)  BY <3>1 DEF Restore
    <3>2. CASE PushPut(v)
      <4>1. PICK j \in Keys :
              /\ IsAt(v, j) /\ local[v][j] # None
              /\ archive' = [archive EXCEPT ![j] = @ \union ({object[j]} \ {None, run[v].sums[j]})]
              /\ \E bytes \in {local[v][j]} \union ({object[j]} \intersect {run[v].sums[j]}) :
                    object' = [object EXCEPT ![j] = bytes]
              /\ Forgo(j, {})
        BY <3>2 DEF PushPut
      <4>2. local[v][j] = run[v].sums[j]
        BY <3>2, <4>1 DEF PushPut, At, WorkInv, Pushing
      <4>3. object' = [object EXCEPT ![j] = run[v].sums[j]]  BY <4>1, <4>2
      <4>. QED BY <4>1, <4>3
    <3>. QED BY <1>2, <3>1, <3>2
  <2>2. /\ object'[j] = run[v].sums[j]
        /\ archive'[j] = archive[j] \union ({object[j]} \ {None, run[v].sums[j]})
        /\ \A i \in Keys \ {j} : object'[i] = object[i] /\ archive'[i] = archive[i]
    BY <2>1, <1>t
  <2>3. run[v].sums[j] # None
    <3>1. Writing(v)  BY <1>2 DEF PushPut, Restore, At, Writing
    <3>. QED BY <3>1, TypeGives, DatasetAssumption DEF OneWriter
  <2>4. Available(object[j], archive[j]) \ {} \subseteq Available(object'[j], archive'[j])
    BY <2>2, <2>3 DEF Available
  <2>. QED BY <1>1, <2>1, <2>2, <2>4
<1>3. CASE GC
  <2>1. /\ object' = object
        /\ archive' = [i \in Keys |-> archive[i] \ Victims(i)]
        /\ forgone' = [i \in Keys |-> forgone[i] \union (archive[i] \intersect Victims(i))]
    BY <1>3 DEF GC
  <2>. QED BY <2>1 DEF Lasting, Available
<1>4. CASE ForeignWrite
  <2>1. PICK j \in Keys, m \in MaybeContent :
          /\ object' = [object EXCEPT ![j] = m]
          /\ UNCHANGED archive /\ Forgo(j, {object[j]} \ {None})
    BY <1>4 DEF ForeignWrite
  <2>2. \A i \in Keys \ {j} : object'[i] = object[i] /\ archive'[i] = archive[i]
    BY <2>1, <1>t
  <2>3. Available(object[j], archive[j]) \ ({object[j]} \ {None})
           \subseteq Available(object'[j], archive'[j])
    BY <2>1 DEF Available
  <2>. QED BY <1>1, <2>1, <2>2, <2>3
<1>5. ASSUME UNCHANGED <<object, archive, forgone>>  PROVE Lasting(k) \subseteq Lasting(k)'
  BY <1>5 DEF Lasting
<1>6. ASSUME NEW v \in Users,
             \/ BeginPush(v) \/ BeginRevert(v) \/ BeginPull(v) \/ Crash(v) \/ Edit(v)
             \/ Step(v) /\ ~PushPut(v) /\ ~Restore(v)
      PROVE  UNCHANGED <<object, archive, forgone>>
  BY <1>6 DEF BeginPush, BeginRevert, BeginPull, Starts, Crash, Edit, Step, PushUnchanged,
     PushNoFile, Record, PullSkips, PullLooks, PullFetches, PullFetchFails, store
<1>7. CASE UNCHANGED vars  BY <1>5, <1>7 DEF vars, store
<1>. QED BY <1>2, <1>3, <1>4, <1>5, <1>6, <1>7 DEF Next

(* A pull that is still one status asked for has begun just now, or has    *)
(* its files left as they were, some of them perhaps handled.              *)
LEMMA PullGoesOn ==
  ASSUME TypeInv, [Next]_vars, NEW u \in Users,
         Running(u)', run'[u].cmd = "pull", run'[u].asked
  PROVE  \/ BeginPull(u)
         \/ /\ Running(u) /\ run[u].cmd = "pull" /\ run[u].asked
            /\ run'[u].todo \subseteq run[u].todo
            /\ \A k \in run'[u].todo : local'[u][k] = local[u][k]
<1> DEFINE On == /\ Running(u) /\ run[u].cmd = "pull" /\ run[u].asked
                 /\ run'[u].todo \subseteq run[u].todo
                 /\ \A k \in run'[u].todo : local'[u][k] = local[u][k]
<1>t. /\ local \in [Users -> [Keys -> MaybeContent]] /\ RunsOK
      /\ journal \in [Keys -> Seq(Contents)]
      /\ \A v \in Users : Running(v) => run[v] \in Run
      /\ \A v \in Users : Stepping(v)
  BY TypeGives
<1>1. ASSUME Same(u), local'[u] = local[u]  PROVE On
  BY <1>1 DEF Same
<1>2. CASE \E v \in Users \ {u} : Step(v)
  <2>1. PICK v \in Users \ {u} : Step(v)  BY <1>2
  <2>2. CASE PushNoFile(v) \/ PullFetchFails(v)
    <3>1. Quit(v) /\ UNCHANGED local  BY <2>2 DEF PushNoFile, PullFetchFails
    <3>. QED BY <3>1, <1>t, <1>1, QuitRun
  <2>3. CASE PushUnchanged(v) \/ Record(v) \/ PullSkips(v) \/ PullFetches(v)
    <3>1. PICK k \in Keys, step \in Steps : Onward(v, k, step) /\ Running(v)
      BY <2>3 DEF PushUnchanged, Record, PullSkips, PullFetches, Steps, At
    <3>2. Same(u)  BY <3>1, <1>t, OnwardRun
    <3>3. local'[u] = local[u]
      BY <2>3, <1>t DEF PushUnchanged, Record, PullSkips, PullFetches
    <3>. QED BY <3>2, <3>3, <1>1
  <2>4. CASE PushPut(v) \/ Restore(v)
    <3>1. Placed(v) /\ Running(v) /\ UNCHANGED local  BY <2>4 DEF PushPut, Restore, At
    <3>. QED BY <3>1, <1>t, <1>1, PlacedRun
  <2>5. CASE PullLooks(v)
    <3>1. run' = [run EXCEPT ![v].step = "fetch"] /\ UNCHANGED local
      BY <2>5 DEF PullLooks
    <3>2. run'[u] = run[u]  BY <3>1, <1>t DEF RunsOK
    <3>. QED BY <3>1, <3>2, <1>1 DEF Same, Running
  <2>. QED BY <2>1, <2>2, <2>3, <2>4, <2>5 DEF Step
<1>3. CASE Step(u)
  <2>1. CASE PushNoFile(u) \/ PullFetchFails(u)
    BY <2>1, <1>t, QuitRun DEF PushNoFile, PullFetchFails
  <2>2. CASE PushUnchanged(u) \/ Record(u) \/ PullSkips(u) \/ PullFetches(u)
    <3>1. PICK k \in Keys, step \in Steps :
            /\ Onward(u, k, step) /\ Running(u)
            /\ local' = local \/ local' = [local EXCEPT ![u][k] = object[k]]
      BY <2>2 DEF PushUnchanged, Record, PullSkips, PullFetches, Steps, At
    <3>2. /\ run'[u].todo = run[u].todo \ {k} /\ run'[u].cmd = run[u].cmd
          /\ run'[u].asked = run[u].asked
      BY <3>1, <1>t, OnwardRun
    <3>3. run[u].todo \subseteq Keys  BY <3>1, <1>t DEF Run
    <3>4. \A j \in Keys \ {k} : local'[u][j] = local[u][j]  BY <3>1, <1>t
    <3>. QED BY <3>1, <3>2, <3>3, <3>4
  <2>3. CASE PushPut(u) \/ Restore(u)
    <3>1. Placed(u) /\ Writing(u)  BY <2>3 DEF PushPut, Restore, At, Writing
    <3>. QED BY <3>1, <1>t, PlacedRun DEF Writing
  <2>4. CASE PullLooks(u)
    <3>1. run' = [run EXCEPT ![u].step = "fetch"] /\ Running(u) /\ UNCHANGED local
      BY <2>4 DEF PullLooks, At
    <3>2. /\ run'[u].todo = run[u].todo /\ run'[u].cmd = run[u].cmd
          /\ run'[u].asked = run[u].asked
      BY <3>1, <1>t DEF RunsOK, Run
    <3>. QED BY <3>1, <3>2
  <2>. QED BY <1>3, <2>1, <2>2, <2>3, <2>4 DEF Step
<1>4. ASSUME NEW v \in Users, BeginPush(v) \/ BeginRevert(v) \/ BeginPull(v)
      PROVE  BeginPull(u) \/ On
  <2>1. local' = local  BY <1>4 DEF BeginPush, BeginRevert, BeginPull, Starts
  <2>2. \E cmd, step, sums, todo : Starts(v, cmd, step, sums, todo)
                                     /\ (cmd = "pull" => BeginPull(v))
    <3>1. CASE BeginPush(v)
      <4>1. Starts(v, "push", "put", local[v], Keys)  BY <3>1 DEF BeginPush
      <4>2. "push" = "pull" => BeginPull(v)  OBVIOUS
      <4>. QED BY <4>1, <4>2
    <3>2. CASE BeginRevert(v)
      <4>1. PICK k \in Keys : \E m \in Recorded(k) :
              Starts(v, "revert", "put", [j \in Keys |-> m], {k})
        BY <3>2 DEF BeginRevert
      <4>2. PICK m \in Recorded(k) : Starts(v, "revert", "put", [j \in Keys |-> m], {k})
        BY <4>1
      <4>3. "revert" = "pull" => BeginPull(v)  OBVIOUS
      <4>. QED BY <4>2, <4>3
    <3>3. CASE BeginPull(v)
      <4>1. Starts(v, "pull", "look", [k \in Keys |-> None], Keys)  BY <3>3 DEF BeginPull
      <4>2. "pull" = "pull" => BeginPull(v)  BY <3>3
      <4>. QED BY <4>1, <4>2
    <3>. QED BY <1>4, <3>1, <3>2, <3>3
  <2>5. PICK cmd, step, sums, todo : /\ Starts(v, cmd, step, sums, todo)
                                     /\ cmd = "pull" => BeginPull(v)
    BY <2>2
  <2>3. CASE v # u
    <3>1. run'[u] = run[u]  BY <2>5, <2>3, <1>t DEF Starts, RunsOK
    <3>. QED BY <2>1, <3>1, <1>1 DEF Same, Running
  <2>4. CASE v = u
    <3>1. run'[u].cmd = cmd  BY <2>5, <2>4, <1>t DEF Starts, RunsOK
    <3>. QED BY <2>5, <2>4, <3>1
  <2>. QED BY <2>3, <2>4
<1>5. ASSUME NEW v \in Users, Crash(v)  PROVE On
  BY <1>5, <1>t, <1>1, QuitRun DEF Crash
<1>6. ASSUME NEW v \in Users, Edit(v)  PROVE On
  <2>1. PICK k \in Keys, m \in MaybeContent : local' = [local EXCEPT ![v][k] = m]
    BY <1>6 DEF Edit
  <2>2. (\A w \in Users : Same(w)) /\ (Running(v) => ~run'[v].asked)
    BY <1>6, <1>t, EditRun DEF Edit
  <2>3. v # u  BY <2>2 DEF Same
  <2>. QED BY <2>1, <2>2, <2>3, <1>t, <1>1
<1>7. CASE ForeignWrite
  <2>1. Same(u) /\ local' = local  BY <1>7, <1>t, ForeignRun DEF ForeignWrite
  <2>. QED BY <2>1, <1>1
<1>8. CASE GC \/ UNCHANGED vars
  <2>1. run' = run /\ local' = local  BY <1>8 DEF GC, vars
  <2>. QED BY <2>1, <1>1 DEF Same, Running
<1>. QED BY <1>2, <1>3, <1>4, <1>5, <1>6, <1>7, <1>8 DEF Next

LEMMA AskedNext ==
  ASSUME ~EditsOverlap, TypeInv, WorkInv, AskedInv, [Next]_vars
  PROVE  AskedInv'
<1>1. SUFFICES ASSUME NEW u \in Users, Running(u)', run'[u].cmd = "pull", run'[u].asked,
                      NEW k \in run'[u].todo
               PROVE  local'[u][k] \in Lasting(k)'
  BY DEF AskedInv, Asked
<1>t. RunsOK /\ \A v \in Users : Running(v) => run[v] \in Run  BY TypeGives
<1>2. CASE BeginPull(u)
  <2>1. Starts(u, "pull", "look", [j \in Keys |-> None], Keys)  BY <1>2 DEF BeginPull
  <2>2. [j \in Keys |-> None] \in [Keys -> MaybeContent]  BY DEF MaybeContent
  <2>3. NoPushNeeded(u) /\ k \in Keys
    <3>1. run'[u].todo = Keys /\ (run'[u].asked => NoPushNeeded(u))
      BY <2>1, <2>2, <1>t, StartsRun DEF Steps
    <3>. QED BY <1>1, <3>1
  <2>4. KeyState(u, k) # "AHEAD" /\ (KeyState(u, k) = "NOT_PUSHED" => local[u][k] = None)
    BY <2>3, AggregateSays DEF NoPushNeeded
  <2>5. local[u][k] \in Recorded(k) \union {None, object[k]}
    BY <2>4 DEF KeyState, ClassifyKey
  <2>6. Recorded(k) \subseteq Available(object[k], archive[k]) \union forgone[k]
    BY <2>3 DEF WorkInv, Recoverable
  <2>7. UNCHANGED <<local, object, archive, forgone>>  BY <2>1 DEF Starts, store
  <2>. QED BY <2>5, <2>6, <2>7 DEF Lasting, Available
<1>3. CASE ~BeginPull(u)
  <2>1. /\ Running(u) /\ run[u].cmd = "pull" /\ run[u].asked
        /\ k \in run[u].todo /\ local'[u][k] = local[u][k]
    BY <1>1, <1>3, PullGoesOn
  <2>2. k \in Keys  BY <2>1, <1>t DEF Run
  <2>3. local[u][k] \in Lasting(k)  BY <2>1 DEF AskedInv, Asked
  <2>4. Lasting(k) \subseteq Lasting(k)'  BY <2>2, Lasts
  <2>. QED BY <2>1, <2>3, <2>4
<1>. QED BY <1>2, <1>3

(* A pull that status asked for (dataset_workspace_status.go:28) costs its *)
(* user nothing but what the workspace gave up to gc or to another         *)
(* program, for any number of users and files and whatever the others push,*)
(* revert, collect or overwrite between the status and the last fetch, as  *)
(* long as no file changes between a push's hash and its upload: pulls     *)
(* check nothing themselves and rest on what push and revert archive       *)
(* before they overwrite.                                                  *)
THEOREM PullKeepsWorkSequential ==
  ASSUME ~EditsOverlap
  PROVE  Spec => PullKeepsWork
<1> DEFINE Overwrites(u, k) ==
             /\ Running(u) /\ run[u].cmd = "pull" /\ run[u].asked /\ edits' = edits
             /\ local'[u][k] # local[u][k]
           Kept(u, k) ==
             local[u][k] \in Available(object[k], archive[k]) \union forgone[k] \union {None}
<1>1. ASSUME TypeInv, AskedInv, [Next]_vars, NEW u \in Users, NEW k \in Keys,
             Overwrites(u, k)
      PROVE  Kept(u, k)
  <2>1. IsAt(u, k)  BY <1>1, OnlyFetches
  <2>. QED BY <1>1, <2>1 DEF AskedInv, Asked, IsAt, Lasting
<1>2. TypeInv /\ AskedInv /\ [Next]_vars =>
         \A u \in Users, k \in Keys : Overwrites(u, k) => Kept(u, k)
  BY <1>1
<1>3. Init => AskedInv  BY DEF Init, AskedInv, Asked, Running
<1>4. TypeInv /\ WorkInv /\ AskedInv /\ [Next]_vars => AskedInv'  BY AskedNext
<1>5. Spec => [](TypeInv /\ WorkInv /\ AskedInv)
  BY <1>3, <1>4, WorkAlways, PTL DEF Spec
<1>. QED BY <1>2, <1>5, PTL DEF Spec, PullKeepsWork

(* While u pushes nobody else changes an object. *)
LEMMA OnlyPuts ==
  ASSUME ~EditsOverlap, TypeInv, WorkInv, [Next]_vars, NEW u \in Users, NEW k \in Keys,
         Running(u), run[u].cmd = "push", object'[k] # object[k]
  PROVE  IsAt(u, k) /\ object'[k] = run[u].sums[k]
<1>1. \A v \in Users \ {u} : ~Writing(v)  BY TypeGives DEF OneWriter, Writing
<1>2. ~NobodyWrites  BY DEF NobodyWrites, Writing
<1>3. PICK v \in Users : PushPut(v) \/ Restore(v)
  <2>1. GC \/ ForeignWrite \/ UNCHANGED vars => object' = object
    BY <1>2 DEF GC, ForeignWrite, vars, store
  <2>2. ASSUME NEW v \in Users,
               \/ BeginPush(v) \/ BeginRevert(v) \/ BeginPull(v) \/ Crash(v) \/ Edit(v)
               \/ Step(v) /\ ~PushPut(v) /\ ~Restore(v)
        PROVE  object' = object
    BY <2>2 DEF BeginPush, BeginRevert, BeginPull, Starts, Crash, Edit, Step, PushUnchanged,
       PushNoFile, Record, PullSkips, PullLooks, PullFetches, PullFetchFails, store
  <2>. QED BY <2>1, <2>2 DEF Next
<1>4. v = u  BY <1>1, <1>3 DEF PushPut, Restore, At, Writing
<1>5. PushPut(u)  BY <1>3, <1>4 DEF Restore
<1>6. PICK j \in Keys :
        /\ IsAt(u, j) /\ local[u][j] # None
        /\ \E bytes \in {local[u][j]} \union ({object[j]} \intersect {run[u].sums[j]}) :
              object' = [object EXCEPT ![j] = bytes]
  BY <1>5 DEF PushPut
<1>7. local[u][j] = run[u].sums[j]  BY <1>6 DEF WorkInv, Pushing
<1>8. object' = [object EXCEPT ![j] = run[u].sums[j]]  BY <1>6, <1>7
<1>. QED BY <1>6, <1>8, TypeGives

(* A push that status asked for (dataset_workspace_status.go:22) never     *)
(* takes a file of the workspace back to a version it had moved past, for  *)
(* any number of users and files.                                          *)
THEOREM PushKeepsNewerSequential ==
  ASSUME ~EditsOverlap
  PROVE  Spec => PushKeepsNewer
<1> DEFINE Replaces(u, k) ==
             /\ Running(u) /\ run[u].cmd = "push" /\ run[u].shown \in {"AHEAD", "NOT_PUSHED"}
             /\ object'[k] # object[k] /\ object[k] # None
<1>1. ASSUME TypeInv, WorkInv, [Next]_vars, NEW u \in Users, NEW k \in Keys, Replaces(u, k)
      PROVE  object'[k] \notin Recorded(k)
  <2>1. IsAt(u, k) /\ object'[k] = run[u].sums[k]  BY <1>1, OnlyPuts
  <2>. QED BY <1>1, <2>1 DEF WorkInv, Pushing, IsAt
<1>2. TypeInv /\ WorkInv /\ [Next]_vars =>
         \A u \in Users, k \in Keys : Replaces(u, k) => object'[k] \notin Recorded(k)
  BY <1>1
<1>. QED BY <1>2, WorkAlways, PTL DEF Spec, PushKeepsNewer

(* Where every file is what the workspace has and it has one, status says so. *)
LEMMA AllAgree ==
  ASSUME NEW u \in Users, \A k \in Keys : local'[u][k] = object'[k],
         \E k \in Keys : object'[k] # None
  PROVE  Aggregate(u)' = "IN_SYNC"
<1>1. \A k \in Keys : \/ KeyState(u, k)' = "IN_SYNC"
                      \/ KeyState(u, k)' = "NOT_PUSHED" /\ local'[u][k] = None
  BY DEF KeyState, ClassifyKey
<1>2. \E k \in Keys : KeyState(u, k)' = "IN_SYNC"  BY DEF KeyState, ClassifyKey
<1>. QED BY <1>1, <1>2 DEF Aggregate

(* How the command of u ends other than by a crash. *)
LEMMA Endings ==
  ASSUME TypeInv, [Next]_vars, NEW u \in Users, Running(u), ~Running(u)', faults' = faults
  PROVE  \/ PushUnchanged(u) \/ PushNoFile(u) \/ Record(u)
         \/ PullSkips(u) \/ PullFetches(u) \/ PullFetchFails(u)
<1>t. RunsOK /\ faults \in Nat  BY TypeGives
<1>1. ASSUME NEW v \in Users, BeginPush(v) \/ BeginRevert(v) \/ BeginPull(v)  PROVE FALSE
  BY <1>1, <1>t DEF BeginPush, BeginRevert, BeginPull, Starts, Running, RunsOK
<1>2. ASSUME NEW v \in Users, Crash(v)  PROVE FALSE
  BY <1>2, <1>t DEF Crash
<1>3. ASSUME NEW v \in Users, Edit(v)  PROVE FALSE
  BY <1>3, <1>t, EditRun DEF Edit, Same
<1>4. GC \/ ForeignWrite \/ UNCHANGED vars => FALSE
  BY <1>t DEF GC, ForeignWrite, vars, Running
<1>5. PICK v \in Users : Step(v)  BY <1>1, <1>2, <1>3, <1>4 DEF Next
<1>6. ASSUME PushPut(v) \/ Restore(v)  PROVE FALSE
  <2>1. Placed(v) /\ Running(v)  BY <1>6 DEF PushPut, Restore, At
  <2>. QED BY <2>1, <1>t, PlacedRun DEF Same
<1>7. ASSUME PullLooks(v)  PROVE FALSE
  <2>1. run' = [run EXCEPT ![v].step = "fetch"]  BY <1>7 DEF PullLooks
  <2>2. v = u  BY <2>1, <1>t DEF RunsOK, Running
  <2>3. run[u] \in Run  BY <1>t, RunningType
  <2>4. run'[u] \in Run  BY <2>1, <2>2, <2>3, <1>t DEF RunsOK, Run
  <2>. QED BY <2>4, IdleIsNoRun DEF Running
<1>8. v = u
  <2>1. ASSUME v # u  PROVE Same(u)
    <3>1. CASE PushNoFile(v) \/ PullFetchFails(v)
      BY <2>1, <3>1, <1>t, QuitRun DEF PushNoFile, PullFetchFails
    <3>2. CASE PushUnchanged(v) \/ Record(v) \/ PullSkips(v) \/ PullFetches(v)
      <4>1. PICK k \in Keys, step \in Steps : Onward(v, k, step) /\ Running(v)
        BY <3>2 DEF PushUnchanged, Record, PullSkips, PullFetches, Steps, At
      <4>. QED BY <2>1, <4>1, <1>t, OnwardRun
    <3>. QED BY <1>5, <1>6, <1>7, <3>1, <3>2 DEF Step
  <2>. QED BY <2>1 DEF Same
<1>. QED BY <1>5, <1>6, <1>7, <1>8 DEF Step

(* What workspaceDetail tells a user to do works, for any number of users  *)
(* and files: a push that nobody interfered with, and a pull where status  *)
(* asked for one, end with the dataset IN_SYNC, or die.                    *)
THEOREM RemedyWorksSequential ==
  ASSUME ~EditsOverlap
  PROVE  Spec => RemedyWorks
<1> DEFINE Ends(u) ==
             /\ Running(u) /\ run'[u] = Idle /\ faults' = faults
             /\ \/ run[u].cmd = "push" /\ run[u].shown # "moot"
                \/ run[u].cmd = "pull" /\ run[u].shown \in {"BEHIND", "MISSING", "IN_SYNC"}
<1>1. ASSUME TypeInv, WorkInv, [Next]_vars, NEW u \in Users, Ends(u)
      PROVE  Aggregate(u)' = "IN_SYNC"
  <2>t. /\ RunsOK /\ OneWriter /\ Stepping(u) /\ run[u] \in Run
        /\ local \in [Users -> [Keys -> MaybeContent]]
    BY <1>1, TypeGives
  <2>i. InPlace(u) /\ Pushing(u) /\ Pulling(u)  BY <1>1 DEF WorkInv
  <2>0. \/ PushUnchanged(u) \/ PushNoFile(u) \/ Record(u)
        \/ PullSkips(u) \/ PullFetches(u) \/ PullFetchFails(u)
    BY <1>1, Endings DEF Running
  <2>1. CASE PushUnchanged(u) \/ Record(u)
    <3>1. run[u].cmd = "push"
      BY <1>1, <2>1, <2>t DEF PushUnchanged, Record, At, Stepping
    <3>2. PICK k \in Keys : /\ IsAt(u, k) /\ Onward(u, k, "put")
                            /\ object[k] = run[u].sums[k]
      BY <2>1, <2>i DEF PushUnchanged, Record, InPlace
    <3>3. run[u].todo = {k}
      BY <1>1, <3>2, <2>t, OnwardRun DEF Steps, Running
    <3>4. \A j \in Keys : local[u][j] = run[u].sums[j] /\ object[j] = run[u].sums[j]
      BY <1>1, <2>i, <3>1, <3>2, <3>3 DEF Pushing
    <3>5. run[u].sums[k] # None
      BY <1>1, <2>t, <3>1, DatasetAssumption DEF OneWriter, Writing
    <3>6. UNCHANGED <<local, object>>  BY <2>1 DEF PushUnchanged, Record, store
    <3>. QED BY <3>4, <3>5, <3>6, AllAgree
  <2>2. CASE PushNoFile(u)
    <3>1. PICK k \in Keys : local[u][k] = None  BY <2>2 DEF PushNoFile
    <3>2. run[u].sums[k] # None
      BY <2>2, <2>t, DatasetAssumption DEF OneWriter, Writing, PushNoFile, At
    <3>. QED BY <1>1, <2>2, <2>i, <3>1, <3>2 DEF PushNoFile, Pushing
  <2>3. CASE PullSkips(u) \/ PullFetches(u)
    <3>1. run[u].cmd = "pull"  BY <1>1, <2>3, <2>t DEF PullSkips, PullFetches, At, Stepping
    <3>2. PICK k \in Keys :
            /\ IsAt(u, k) /\ Onward(u, k, "look")
            /\ \/ object[k] \in {None, local[u][k]} /\ local' = local
               \/ local' = [local EXCEPT ![u][k] = object[k]]
      BY <2>3 DEF PullSkips, PullFetches
    <3>3. run[u].todo = {k}
      BY <1>1, <3>2, <2>t, OnwardRun DEF Steps, Running
    <3>4. /\ \A j \in Keys : object[j] = None => local[u][j] = None
          /\ \E j \in Keys : object[j] # None
          /\ \A j \in Keys \ {k} : local[u][j] = object[j]
      BY <1>1, <2>i, <3>1, <3>3 DEF Pulling
    <3>5. object' = object  BY <2>3 DEF PullSkips, PullFetches, store
    <3>6. \A j \in Keys : local'[u][j] = object'[j]
      BY <3>2, <3>4, <3>5, <2>t
    <3>. QED BY <3>4, <3>5, <3>6, AllAgree
  <2>4. CASE PullFetchFails(u)
    <3>1. PICK k \in Keys : IsAt(u, k) /\ object[k] = None  BY <2>4 DEF PullFetchFails
    <3>2. Running(u) /\ run[u].step = "fetch" /\ run[u].cmd = "pull"
      BY <2>4, <2>t DEF PullFetchFails, At, Stepping
    <3>. QED BY <1>1, <2>i, <3>1, <3>2 DEF Pulling
  <2>. QED BY <2>0, <2>1, <2>2, <2>3, <2>4
<1>2. TypeInv /\ WorkInv /\ [Next]_vars => \A u \in Users : Ends(u) => Aggregate(u)' = "IN_SYNC"
  BY <1>1
<1>. QED BY <1>2, WorkAlways, PTL DEF Spec, RemedyWorks
=============================================================================
