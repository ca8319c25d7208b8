---------------------------- MODULE OsfSyncProofs ----------------------------
(***************************************************************************)
(* What holds of a sync, push or pull for any number of files, pages,      *)
(* versions and interleaved steps of the user and a collaborator.  The     *)
(* types and the shape of a run come first; every action is then given one *)
(* of the forms below, and each invariant is shown form by form.           *)
(***************************************************************************)
EXTENDS OsfSync, FileStateProofs

TypeInv ==
    /\ local \in [Entries -> Sums]
    /\ remote \in [Entries -> Seq(Bytes)]
    /\ pins \in [Entries -> Pin]
    /\ run \in Run
    /\ asked \in BOOLEAN
    /\ {edits, foreign, deletes, crashes, unreadable} \subseteq Nat

(* What a run has to do, by where it is. *)
Shape ==
    /\ At("idle") => run = Idle
    /\ At("scan") => run.cmd \in Bulk /\ run.todo \subseteq Scope(run.cmd)
    /\ At("exec") /\ run.todo # {} => run.cmd \in Bulk /\ run.todo \subseteq Scope(run.cmd)
    /\ At("receive") => /\ run.cmd \in Bulk /\ run.todo \subseteq Scope(run.cmd)
                        /\ \E e \in Files : FirstOf(e, run.todo)
    /\ At("receive") \/ At("getting") => run.bytes \in Bytes
    /\ run.pc \in {"put", "get", "getting", "track"} => \E e \in Files : run.todo = {e}
    /\ At("put") => run.cmd = "put"
    /\ run.pc \in {"get", "getting", "track"} => run.cmd = "get"
    /\ \A e \in Entries : run.listing[e].version <= Len(remote[e])
    /\ \A e \in Entries : run.listing[e].version > 0 => run.listing[e].md5 # None

-----------------------------------------------------------------------------
(* Versions of a file, and the helpers' ranges. *)
LEMMA SumsAre ==
    /\ Bytes \subseteq Sums /\ None \in Sums /\ Contents \subseteq Bytes
    /\ Contents \union {None} \subseteq Sums /\ Partial \in Sums /\ Partial # None
    /\ None \notin Bytes /\ Partial \notin Contents
BY ContentsAssumption DEF Bytes, Sums

LEMMA TipType ==
    ASSUME NEW h \in Seq(Bytes)
    PROVE  /\ Tip(h) \in Pin /\ Tip(h).version = Len(h)
           /\ h # <<>> => Len(h) \in DOMAIN h /\ Len(h) > 0 /\ Tip(h).md5 = h[Len(h)]
           /\ \A i \in DOMAIN h : h[i] \in Bytes /\ h[i] \in Sums /\ i \in Nat \ {0}
           /\ h = <<>> => Tip(h) = NoVersion
<1>1. CASE h = <<>>
  BY <1>1, SumsAre DEF Tip, NoVersion, Pin
<1>2. CASE h # <<>>
  BY <1>2, SumsAre DEF Tip, Pin, Sums
<1> QED BY <1>1, <1>2

LEMMA VersionsNumbered ==
    ASSUME NEW h \in Seq(Bytes)
    PROVE  /\ Numbered(Versions(h))
           /\ \A v \in Versions(h) : v \in Pin /\ v.md5 \in Held(h) /\ v.md5 # None
           /\ h # <<>> => IsLatest(Tip(h), Versions(h))
           /\ h = <<>> => Versions(h) = {}
<1>1. ASSUME NEW v \in Versions(h)
      PROVE  v \in Pin /\ v.md5 \in Held(h) /\ v.version \in Nat \ {0} /\ v.md5 # None
             /\ v.version \in DOMAIN h /\ v.version <= Len(h) /\ v.md5 = h[v.version]
  <2>1. PICK i \in DOMAIN h : v = [version |-> i, md5 |-> h[i]]
    BY DEF Versions
  <2> QED BY <2>1, TipType, SumsAre DEF Pin, Held
<1>2. ASSUME NEW v \in Versions(h), NEW w \in Versions(h), v.version = w.version
      PROVE  v = w
  BY <1>2 DEF Versions
<1>3. h # <<>> => IsLatest(Tip(h), Versions(h))
  <2> SUFFICES ASSUME h # <<>> PROVE IsLatest(Tip(h), Versions(h)) OBVIOUS
  <2>1. Tip(h) \in Versions(h)
    BY TipType DEF Versions, Tip
  <2> QED BY <1>1, <2>1, TipType DEF IsLatest
<1>4. h = <<>> => Versions(h) = {}
  BY DEF Versions
<1> QED BY <1>1, <1>2, <1>3, <1>4 DEF Numbered

LEMMA ScopeIs == \A cmd : Scope(cmd) \subseteq Entries
BY DEF Scope, Entries

LEMMA FirstIsOne ==
    ASSUME NEW d \in Entries, NEW e \in Entries, NEW S \in SUBSET Entries, FirstOf(d, S), FirstOf(e, S)
    PROVE  d = e
<1>1. d \in Nat /\ e \in Nat
  BY EntriesAssumption DEF Entries
<1> QED BY <1>1 DEF FirstOf

LEMMA GrownIs ==
    ASSUME remote \in [Entries -> Seq(Bytes)], NEW e \in Entries, NEW c \in Bytes,
           remote' = Grown(e, c)
    PROVE  /\ remote' \in [Entries -> Seq(Bytes)]
           /\ Len(remote'[e]) = Len(remote[e]) + 1
           /\ remote'[e] # <<>>
           /\ Tip(remote'[e]) = [version |-> Len(remote[e]) + 1, md5 |-> c]
           /\ remote'[e][Len(remote[e]) + 1] = c
           /\ \A i \in DOMAIN remote[e] : i \in DOMAIN remote'[e] /\ remote'[e][i] = remote[e][i]
           /\ Held(remote'[e]) = Held(remote[e]) \union {c}
           /\ \A d \in Entries : d # e => remote'[d] = remote[d]
<1>1. remote' = [remote EXCEPT ![e] = Append(remote[e], c)]
  BY DEF Grown
<1>2. remote[e] \in Seq(Bytes)
  OBVIOUS
<1>3. remote'[e] = Append(remote[e], c) /\ \A d \in Entries : d # e => remote'[d] = remote[d]
  BY <1>1
<1>4. /\ Append(remote[e], c) \in Seq(Bytes)
      /\ Len(Append(remote[e], c)) = Len(remote[e]) + 1
      /\ Append(remote[e], c)[Len(remote[e]) + 1] = c
      /\ \A i \in 1..Len(remote[e]) : Append(remote[e], c)[i] = remote[e][i]
      /\ DOMAIN remote[e] = 1..Len(remote[e])
      /\ DOMAIN Append(remote[e], c) = 1..(Len(remote[e]) + 1)
      /\ Len(remote[e]) \in Nat
  BY <1>2
<1>5. Held(Append(remote[e], c)) = Held(remote[e]) \union {c}
  BY <1>4 DEF Held
<1>6. Append(remote[e], c) # <<>>
  BY <1>4
<1>7. Tip(Append(remote[e], c)) = [version |-> Len(remote[e]) + 1, md5 |-> c]
  BY <1>4, <1>6 DEF Tip
<1>8. remote' \in [Entries -> Seq(Bytes)]
  BY <1>1, <1>4
<1> QED BY <1>3, <1>4, <1>5, <1>6, <1>7, <1>8

(* The runs' own steps, field by field. *)
LEMMA IdleIs ==
    /\ Idle \in Run /\ Idle.pc = "idle" /\ Idle.todo = {} /\ Idle.listed = {} /\ Idle.cmd = "none"
    /\ Idle.bytes = None /\ ~Idle.force /\ ~Idle.blind
    /\ \A e \in Entries : Idle.mem[e] = NoVersion /\ Idle.listing[e] = NoVersion
                          /\ Idle.latest[e] = NoVersion
BY SumsAre DEF Idle, Run, Pin, NoVersion, States, Labels, Bulk, Resolutions, Answers

LEMMA DoneIs ==
    ASSUME run \in Run, NEW e \in Entries, NEW pin \in Pin, Done(e, pin)
    PROVE  /\ run' \in Run /\ run'.pc = "exec" /\ run'.todo = run.todo \ {e}
           /\ run'.mem[e] = pin /\ \A d \in Entries : d # e => run'.mem[d] = run.mem[d]
           /\ UNCHANGED <<run.cmd, run.force, run.resolve, run.blind, run.conflict, run.listed,
                          run.listing, run.sum, run.state, run.latest, run.bytes>>
<1>1. run' = [run EXCEPT !.pc = "exec", !.todo = run.todo \ {e}, !.mem = [run.mem EXCEPT ![e] = pin]]
  BY DEF Done
<1> QED BY <1>1 DEF Run, Labels

LEMMA ClassifiedIs ==
    ASSUME run \in Run, local \in [Entries -> Sums], NEW e \in Entries,
           NEW state \in States, NEW latest \in Pin, Classified(e, state, latest)
    PROVE  /\ run' \in Run /\ run'.pc = run.pc /\ run'.todo = run.todo \ {e}
           /\ run'.sum[e] = local[e] /\ \A d \in Entries : d # e => run'.sum[d] = run.sum[d]
           /\ run'.state[e] = state /\ \A d \in Entries : d # e => run'.state[d] = run.state[d]
           /\ run'.latest[e] = latest /\ \A d \in Entries : d # e => run'.latest[d] = run.latest[d]
           /\ UNCHANGED <<run.cmd, run.force, run.resolve, run.blind, run.conflict, run.listed,
                          run.listing, run.mem, run.bytes>>
<1>1. run' = [run EXCEPT !.todo = run.todo \ {e}, !.sum = [run.sum EXCEPT ![e] = local[e]],
                         !.state = [run.state EXCEPT ![e] = state],
                         !.latest = [run.latest EXCEPT ![e] = latest]]
  BY DEF Classified
<1> QED BY <1>1 DEF Run

LEMMA ListedIs ==
    ASSUME run \in Run, remote \in [Entries -> Seq(Bytes)], NEW kind \in {"file", "wiki"},
           NEW S \in SUBSET Entries, Listed(kind, S)
    PROVE  /\ run' \in Run /\ run'.listed = run.listed \union {kind}
           /\ \A e \in Entries : run'.listing[e] = IF e \in S THEN Tip(remote[e]) ELSE run.listing[e]
           /\ UNCHANGED <<run.pc, run.todo, run.cmd, run.force, run.resolve, run.blind,
                          run.conflict, run.sum, run.state, run.latest, run.mem, run.bytes>>
<1>1. run' = [run EXCEPT !.listed = run.listed \union {kind},
                         !.listing = [e \in Entries |-> IF e \in S THEN Tip(remote[e])
                                                        ELSE run.listing[e]]]
  BY DEF Listed
<1>2. [e \in Entries |-> IF e \in S THEN Tip(remote[e]) ELSE run.listing[e]] \in [Entries -> Pin]
  BY TipType DEF Run
<1> QED BY <1>1, <1>2 DEF Run

-----------------------------------------------------------------------------
(* What a scan finds: numbered versions, and the latest of them. *)
Proper(vs) ==
    /\ Numbered(vs)
    /\ \A v \in vs : v \in Pin /\ v.md5 # None /\ v.version > 0
    /\ vs # {} => IsLatest(Latest(vs), vs)

LEMMA ProperLatest ==
    ASSUME NEW vs, Proper(vs)
    PROVE  Latest(vs) \in Pin /\ (Latest(vs).version > 0 => Latest(vs) \in vs)
           /\ (Latest(vs).md5 = None => Latest(vs).version = 0)
           /\ (vs = {} => Latest(vs) = NoVersion)
<1>1. CASE vs = {}
  BY <1>1, SumsAre DEF Latest, NoVersion, Pin
<1>2. CASE vs # {}
  BY <1>2 DEF Proper, IsLatest
<1> QED BY <1>1, <1>2

LEMMA AreProper ==
    ASSUME NEW vs, Numbered(vs), \A v \in vs : v \in Pin /\ v.md5 # None,
           vs # {} => \E v \in vs : IsLatest(v, vs)
    PROVE  Proper(vs)
<1>1. vs # {} => IsLatest(Latest(vs), vs)
  BY LatestIs
<1> QED BY <1>1 DEF Proper, Numbered

LEMMA NoneIsProper == Proper({})
<1> DEFINE vs == {}
<1>1. Numbered(vs) /\ \A v \in vs : FALSE
  BY DEF Numbered
<1> QED BY <1>1 DEF Proper

LEMMA HistoryIsProper ==
    ASSUME NEW h \in Seq(Bytes)
    PROVE  /\ Proper(Versions(h)) /\ Latest(Versions(h)) = Tip(h)
           /\ \A v \in Versions(h) : v.md5 \in Held(h)
<1>1. CASE h = <<>>
  BY <1>1, TipType, VersionsNumbered, AreProper DEF Latest
<1>2. CASE h # <<>>
  <2>1. IsLatest(Tip(h), Versions(h)) /\ Numbered(Versions(h))
    BY <1>2, VersionsNumbered
  <2>2. Tip(h) \in Versions(h)
    BY <2>1 DEF IsLatest
  <2>3. Proper(Versions(h))
    BY <2>1, <2>2, VersionsNumbered, AreProper
  <2> QED BY <2>1, <2>3, LatestIs, VersionsNumbered
<1> QED BY <1>1, <1>2

LEMMA OneIsProper ==
    ASSUME NEW v \in Pin, v.version > 0, v.md5 # None
    PROVE  Proper({v}) /\ Latest({v}) = v
<1> DEFINE one == {v}
<1>1. v.version \in Nat /\ \A w \in one : w = v
  BY DEF Pin
<1>2. Numbered(one) /\ IsLatest(v, one) /\ v \in one
  BY <1>1 DEF Numbered, IsLatest
<1>3. Proper(one)
  BY <1>1, <1>2, AreProper
<1> HIDE DEF one
<1>4. Latest(one) = v
  BY <1>2, LatestIs
<1> QED BY <1>3, <1>4 DEF one

LEMMA FileVersionsAre ==
    ASSUME TypeInv, Shape, NEW e \in Entries
    PROVE  /\ Proper(FetchedVersions(e))
           /\ \/ FetchedVersions(e) = {} /\ run.listing[e].version = 0
              \/ /\ FetchedVersions(e) = {run.listing[e]} /\ run.listing[e].version > 0
                 /\ CanSkip(run.mem[e], local[e], run.listing[e])
              \/ FetchedVersions(e) = Versions(remote[e])
<1> DEFINE p == run.listing[e]
<1>1. p \in Pin /\ remote[e] \in Seq(Bytes) /\ (p.version > 0 => p.md5 # None)
  BY DEF TypeInv, Run, Shape
<1>2. CASE p.version = 0
  <2>1. FetchedVersions(e) = {}
    BY <1>2 DEF FetchedVersions, CanSkip
  <2> QED BY <1>2, <2>1, NoneIsProper
<1>3. CASE p.version # 0 /\ CanSkip(run.mem[e], local[e], p)
  <2>1. FetchedVersions(e) = {p} /\ p.version > 0
    BY <1>1, <1>3 DEF FetchedVersions, Pin
  <2>2. Proper({p})
    BY <1>1, <2>1, OneIsProper
  <2> QED BY <1>3, <2>1, <2>2
<1>4. CASE p.version # 0 /\ ~CanSkip(run.mem[e], local[e], p)
  <2>1. FetchedVersions(e) = Versions(remote[e])
    BY <1>4 DEF FetchedVersions
  <2> QED BY <1>1, <2>1, HistoryIsProper
<1> QED BY <1>2, <1>3, <1>4

(* A page's content is fetched after its number was listed. *)
LEMMA WikiLatestIs ==
    ASSUME TypeInv, Shape, NEW e \in Entries, run.listing[e].version > 0
    PROVE  /\ remote[e] # <<>> /\ WikiLatest(e) \in Pin
           /\ WikiLatest(e).version = run.listing[e].version
           /\ WikiLatest(e).md5 = Tip(remote[e]).md5
           /\ WikiLatest(e).md5 \in Held(remote[e]) /\ WikiLatest(e).md5 # None
<1> DEFINE h == remote[e]
<1>1. run.listing[e] \in Pin /\ h \in Seq(Bytes) /\ run.listing[e].version <= Len(h)
  BY DEF TypeInv, Run, Shape
<1>2. h # <<>>
  BY <1>1, TipType DEF Pin
<1>3. Len(h) \in DOMAIN h /\ h[Len(h)] \in Bytes /\ h[Len(h)] = Tip(h).md5
  BY <1>1, <1>2, TipType
<1> QED BY <1>1, <1>2, <1>3, SumsAre DEF WikiLatest, Pin, Held

LEMMA WikiVersionsAre ==
    ASSUME TypeInv, Shape, NEW e \in Entries
    PROVE  /\ Proper(WikiVersions(e))
           /\ \A v \in WikiVersions(e) : v.md5 \in Held(remote[e])
           /\ \/ WikiVersions(e) = {} /\ run.listing[e].version = 0
              \/ /\ WikiVersions(e) = {WikiLatest(e)} /\ run.listing[e].version > 0
                 /\ CanSkip(run.mem[e], local[e], WikiLatest(e))
              \/ /\ run.listing[e].version > 0
                 /\ WikiVersions(e) = {v \in Versions(remote[e]) : v.version # run.listing[e].version}
                                          \union {WikiLatest(e)}
<1> DEFINE p == run.listing[e]
           h == remote[e]
<1>1. p \in Pin /\ h \in Seq(Bytes) /\ p.version \in Nat /\ p.version <= Len(h)
  BY DEF TypeInv, Run, Shape, Pin
<1>2. CASE p.version = 0
  <2>1. WikiVersions(e) = {}
    BY <1>2 DEF WikiVersions, CanSkip, WikiLatest
  <2> QED BY <1>2, <2>1, NoneIsProper
<1>3. CASE p.version > 0 /\ CanSkip(run.mem[e], local[e], WikiLatest(e))
  <2>1. WikiVersions(e) = {WikiLatest(e)}
    BY <1>1, <1>3 DEF WikiVersions
  <2>2. Proper({WikiLatest(e)})
    BY <1>3, WikiLatestIs, OneIsProper
  <2> QED BY <1>3, <2>1, <2>2, WikiLatestIs
<1>4. CASE p.version > 0 /\ ~CanSkip(run.mem[e], local[e], WikiLatest(e))
  <2> DEFINE vs == {v \in Versions(h) : v.version # p.version} \union {WikiLatest(e)}
  <2>1. WikiVersions(e) = vs
    BY <1>1, <1>4 DEF WikiVersions
  <2>2. /\ h # <<>> /\ WikiLatest(e).version = p.version /\ WikiLatest(e) \in Pin
        /\ WikiLatest(e).md5 \in Held(h) /\ WikiLatest(e).md5 # None
    BY <1>4, WikiLatestIs
  <2>3. /\ Numbered(Versions(h)) /\ IsLatest(Tip(h), Versions(h)) /\ Tip(h).version = Len(h)
        /\ \A v \in Versions(h) : v \in Pin /\ v.md5 \in Held(h) /\ v.md5 # None
    BY <1>1, <2>2, VersionsNumbered, TipType
  <2>4. Numbered(vs)
    BY <1>1, <1>4, <2>2, <2>3 DEF Numbered
  <2>5. \A v \in vs : v \in Pin /\ v.md5 # None /\ v.md5 \in Held(h)
    BY <2>2, <2>3
  <2>6. \E v \in vs : IsLatest(v, vs)
    <3>1. CASE p.version = Len(h)
      <4>1. \A v \in vs : v.version <= WikiLatest(e).version
        BY <1>1, <2>2, <2>3, <3>1 DEF IsLatest
      <4> QED BY <4>1 DEF IsLatest
    <3>2. CASE p.version # Len(h)
      <4>1. Tip(h) \in vs /\ \A v \in vs : v.version <= Tip(h).version
        BY <1>1, <2>2, <2>3, <3>2 DEF IsLatest
      <4> QED BY <4>1 DEF IsLatest
    <3> QED BY <3>1, <3>2
  <2> HIDE DEF vs
  <2>7. Proper(vs)
    BY <2>4, <2>5, <2>6, AreProper
  <2> QED BY <1>4, <2>1, <2>5, <2>7 DEF vs
<1> QED BY <1>1, <1>2, <1>3, <1>4

-----------------------------------------------------------------------------
(* Types. *)
TInv == TypeInv /\ Shape

Steady == /\ UNCHANGED <<edits, foreign, deletes, crashes>> /\ asked' \in BOOLEAN
          /\ unreadable' \in {unreadable, unreadable + 1}
Kept == UNCHANGED <<local, remote, pins>> /\ Steady

LEMMA QuitKeeps ==
    ASSUME TInv, Quit, local' \in [Entries -> Sums], remote' \in [Entries -> Seq(Bytes)],
           pins' \in [Entries -> Pin], asked' \in BOOLEAN,
           {edits', foreign', deletes', crashes', unreadable'} \subseteq Nat
    PROVE  TInv'
<1>1. run' = Idle
  BY DEF Quit
<1>2. TypeInv'
  BY <1>1, IdleIs DEF TInv, TypeInv
<1>3. Shape'
  <2>1. \A e \in Entries : Len(remote'[e]) \in Nat /\ Idle.listing[e].version = 0
    BY IdleIs DEF NoVersion
  <2> QED BY <1>1, <2>1, IdleIs DEF Shape, At
<1> QED BY <1>2, <1>3 DEF TInv

LEMMA DoneKeeps ==
    ASSUME TInv, NEW e \in Entries, NEW pin \in Pin, Done(e, pin),
           At("exec") \/ At("receive") \/ (At("put") /\ e \in run.todo)
               \/ (At("track") /\ e \in run.todo),
           local' \in [Entries -> Sums],
           remote' = remote \/ \E c \in Bytes : remote' = Grown(e, c),
           UNCHANGED pins, Steady
    PROVE  TInv'
<1>1. /\ run' \in Run /\ run'.pc = "exec" /\ run'.todo = run.todo \ {e}
      /\ UNCHANGED <<run.cmd, run.listing>>
  BY DoneIs DEF TInv, TypeInv
<1>2. /\ remote' \in [Entries -> Seq(Bytes)]
      /\ \A d \in Entries : Len(remote[d]) \in Nat /\ Len(remote'[d]) \in Nat
                            /\ Len(remote[d]) <= Len(remote'[d])
  <2>1. \A d \in Entries : Len(remote[d]) \in Nat
    BY DEF TInv, TypeInv
  <2>2. CASE remote' = remote
    BY <2>1, <2>2 DEF TInv, TypeInv
  <2>3. ASSUME NEW c \in Bytes, remote' = Grown(e, c)  
        PROVE  remote' \in [Entries -> Seq(Bytes)]
               /\ \A d \in Entries : Len(remote'[d]) \in {Len(remote[d]), Len(remote[d]) + 1}
    BY <2>3, GrownIs DEF TInv, TypeInv
  <2> QED BY <2>1, <2>2, <2>3
<1>3. \A d \in Entries : run.listing[d].version \in Nat
  BY DEF TInv, TypeInv, Run, Pin
<1>4. \A d \in Entries : run'.listing[d].version <= Len(remote'[d])
  <2> SUFFICES ASSUME NEW d \in Entries PROVE run'.listing[d].version <= Len(remote'[d])
    OBVIOUS
  <2>1. run.listing[d].version <= Len(remote[d])
    BY DEF TInv, Shape
  <2> QED BY <1>1, <1>2, <1>3, <2>1
<1>5. run'.todo # {} => run'.cmd \in Bulk /\ run'.todo \subseteq Scope(run'.cmd)
  BY <1>1 DEF TInv, Shape, At
<1> QED BY <1>1, <1>2, <1>4, <1>5 DEF TInv, TypeInv, Shape, At, Kept, Steady

LEMMA ClassifiedKeeps ==
    ASSUME TInv, NEW e \in Entries, NEW state \in States, NEW latest \in Pin,
           Classified(e, state, latest), At("scan"),
           Kept
    PROVE  TInv'
<1>1. /\ run' \in Run /\ run'.pc = "scan" /\ run'.todo = run.todo \ {e}
      /\ UNCHANGED <<run.cmd, run.listing>>
  BY ClassifiedIs DEF TInv, TypeInv, At
<1> QED BY <1>1 DEF TInv, TypeInv, Shape, At, Kept, Steady

LEMMA ListedKeeps ==
    ASSUME TInv, NEW kind \in {"file", "wiki"}, NEW S \in SUBSET Entries, Listed(kind, S),
           At("scan") \/ At("exec"),
           Kept
    PROVE  TInv'
<1>1. /\ run' \in Run
      /\ \A e \in Entries : run'.listing[e] = IF e \in S THEN Tip(remote[e]) ELSE run.listing[e]
      /\ UNCHANGED <<run.pc, run.todo, run.cmd>>
  BY ListedIs DEF TInv, TypeInv
<1>2. \A e \in Entries : run'.listing[e].version <= Len(remote[e])
                         /\ (run'.listing[e].version > 0 => run'.listing[e].md5 # None)
  <2> SUFFICES ASSUME NEW e \in Entries
               PROVE  run'.listing[e].version <= Len(remote[e])
                      /\ (run'.listing[e].version > 0 => run'.listing[e].md5 # None)
    OBVIOUS
  <2>1. CASE e \in S
    <3>1. remote[e] \in Seq(Bytes) /\ run'.listing[e] = Tip(remote[e])
      BY <1>1, <2>1 DEF TInv, TypeInv
    <3>2. Len(remote[e]) \in Nat /\ Tip(remote[e]).version = Len(remote[e])
      BY <3>1, TipType
    <3>3. Len(remote[e]) > 0 => Tip(remote[e]).md5 \in Bytes
      BY <3>1, TipType
    <3> QED BY <3>1, <3>2, <3>3, SumsAre
  <2>2. CASE e \notin S
    BY <1>1, <2>2 DEF TInv, Shape
  <2> QED BY <2>1, <2>2
<1> QED BY <1>1, <1>2 DEF TInv, TypeInv, Shape, At, Kept, Steady

(* A run as it starts, and one of a single file, written out. *)
Started(cmd, force, resolve, blind) ==
    [Idle EXCEPT !.pc = "scan", !.cmd = cmd, !.force = force, !.resolve = resolve,
                 !.blind = blind, !.todo = Scope(cmd), !.mem = pins]
OneFile(e, pc, conflict) ==
    [Idle EXCEPT !.pc = pc, !.cmd = pc, !.conflict = conflict,
                 !.todo = {e}, !.mem = pins, !.listing[e] = Tip(remote[e])]

LEMMA StartedIs ==
    ASSUME pins \in [Entries -> Pin], NEW cmd \in Bulk, NEW force \in BOOLEAN,
           NEW resolve \in Resolutions, NEW blind \in BOOLEAN,
           NEW r, r = Started(cmd, force, resolve, blind)
    PROVE  /\ r \in Run /\ r.pc = "scan" /\ r.cmd = cmd /\ r.todo = Scope(cmd)
           /\ r.listing = Idle.listing /\ r.mem = pins /\ r.listed = {} /\ r.latest = Idle.latest
           /\ r.blind = blind /\ r.force = force /\ r.resolve = resolve /\ r.bytes = None
<1>1. r = [pc |-> "scan", cmd |-> cmd, force |-> force, resolve |-> resolve, blind |-> blind,
           conflict |-> Idle.conflict, todo |-> Scope(cmd), listed |-> {}, listing |-> Idle.listing,
           sum |-> Idle.sum, state |-> Idle.state, latest |-> Idle.latest, mem |-> pins,
           bytes |-> None]
  BY DEF Started, Idle
<1>2. /\ Idle.listing \in [Entries -> Pin] /\ Idle.sum \in [Entries -> Sums]
      /\ Idle.state \in [Entries -> States] /\ Idle.latest \in [Entries -> Pin]
      /\ Idle.resolve \in Resolutions /\ Idle.conflict \in Answers
  BY IdleIs DEF Run
<1>3. Scope(cmd) \in SUBSET Entries /\ None \in Sums
  BY ScopeIs, SumsAre
<1>4. r \in Run
  <2>1. "scan" \in Labels /\ cmd \in Bulk \union {"none", "put", "get"}
    BY DEF Labels
  <2> QED BY <1>1, <1>2, <1>3, <2>1 DEF Run
<1> QED BY <1>1, <1>4

LEMMA OneFileIs ==
    ASSUME TInv, NEW e \in Files, NEW pc \in {"put", "get"},
           NEW conflict \in Answers,
           NEW r, r = OneFile(e, pc, conflict)
    PROVE  /\ r \in Run /\ r.pc = pc /\ r.cmd = pc /\ r.todo = {e} /\ r.mem = pins
           /\ r.listing[e] = Tip(remote[e])
           /\ \A d \in Entries : d # e => r.listing[d] = NoVersion
           /\ r.latest = Idle.latest /\ r.bytes = None /\ r.conflict = conflict
<1> DEFINE listing == [Idle.listing EXCEPT ![e] = Tip(remote[e])]
<1>1. r = [pc |-> pc, cmd |-> pc, force |-> FALSE, resolve |-> Idle.resolve, blind |-> FALSE,
           conflict |-> conflict, todo |-> {e}, listed |-> {}, listing |-> listing,
           sum |-> Idle.sum, state |-> Idle.state, latest |-> Idle.latest, mem |-> pins,
           bytes |-> None]
  BY DEF OneFile, Idle
<1>2. /\ Idle.listing \in [Entries -> Pin] /\ Idle.sum \in [Entries -> Sums]
      /\ Idle.state \in [Entries -> States] /\ Idle.latest \in [Entries -> Pin]
      /\ Idle.resolve \in Resolutions /\ Idle.conflict \in Answers
  BY IdleIs DEF Run
<1>3. e \in Entries /\ {e} \in SUBSET Entries /\ None \in Sums /\ Tip(remote[e]) \in Pin
      /\ pins \in [Entries -> Pin]
  BY SumsAre, TipType DEF Entries, TInv, TypeInv
<1>4. /\ listing \in [Entries -> Pin] /\ listing[e] = Tip(remote[e])
      /\ \A d \in Entries : d # e => listing[d] = NoVersion
  BY <1>2, <1>3, IdleIs
<1> HIDE DEF listing
<1>5. r \in Run
  <2>1. FALSE \in BOOLEAN /\ pc \in Labels /\ pc \in Bulk \union {"none", "put", "get"}
    BY DEF Labels
  <2> QED BY <1>1, <1>2, <1>3, <1>4, <2>1 DEF Run
<1>6. /\ r.pc = pc /\ r.cmd = pc /\ r.todo = {e} /\ r.mem = pins /\ r.listing = listing
      /\ r.latest = Idle.latest /\ r.bytes = None /\ r.conflict = conflict
  BY <1>1
<1> QED BY <1>4, <1>5, <1>6

LEMMA StartIs ==
    ASSUME pins \in [Entries -> Pin], NEW cmd \in Bulk, Start(cmd)
    PROVE  /\ At("idle") /\ UNCHANGED <<local, remote, pins, counters>>
           /\ \E force \in Forces, resolve \in Resolves, b \in Blinds, blind \in BOOLEAN :
                 /\ blind = (b /\ cmd # "pull")
                 /\ force \in BOOLEAN /\ resolve \in Resolutions
                 /\ run' = Started(cmd, force, resolve, blind)
<1>1. PICK force \in Forces, resolve \in Resolves, blind \in Blinds :
          run' = [Idle EXCEPT !.pc = "scan", !.cmd = cmd, !.force = force,
                              !.resolve = resolve, !.blind = blind /\ cmd # "pull",
                              !.todo = Scope(cmd), !.mem = pins]
  BY DEF Start
<1>2. force \in BOOLEAN /\ resolve \in Resolutions /\ blind \in BOOLEAN
      /\ (blind /\ cmd # "pull") \in BOOLEAN
  BY FlagsAssumption
<1>3. run' = Started(cmd, force, resolve, blind /\ cmd # "pull")
  BY <1>1 DEF Started
<1> QED BY <1>2, <1>3 DEF Start

LEMMA StartKeeps ==
    ASSUME TInv, NEW cmd \in Bulk, NEW force \in BOOLEAN, NEW resolve \in Resolutions,
           NEW blind \in BOOLEAN, run' = Started(cmd, force, resolve, blind), Kept
    PROVE  TInv'
<1>1. run' \in Run /\ run'.pc = "scan" /\ run'.cmd = cmd /\ run'.todo = Scope(cmd)
      /\ run'.listing = Idle.listing
  BY StartedIs DEF TInv, TypeInv
<1>2. \A e \in Entries : run'.listing[e].version = 0 /\ Len(remote[e]) \in Nat
  BY <1>1, IdleIs DEF NoVersion, TInv, TypeInv
<1> QED BY <1>1, <1>2 DEF TInv, TypeInv, Shape, At, Kept, Steady

LEMMA OneFileKeeps ==
    ASSUME TInv, NEW e \in Files, NEW pc \in {"put", "get"},
           NEW conflict \in Answers,
           run' = OneFile(e, pc, conflict),
           Kept
    PROVE  TInv'
<1>1. e \in Entries /\ remote[e] \in Seq(Bytes)
  BY DEF Entries, TInv, TypeInv
<1>2. Tip(remote[e]).version = Len(remote[e]) /\ Len(remote[e]) \in Nat
  BY <1>1, TipType
<1>3. Len(remote[e]) > 0 => Tip(remote[e]).md5 \in Bytes
  BY <1>1, TipType
<1>4. /\ run' \in Run /\ run'.pc = pc /\ run'.cmd = pc /\ run'.todo = {e} /\ run'.listing[e] = Tip(remote[e])
      /\ \A d \in Entries : d # e => run'.listing[d] = NoVersion
  BY OneFileIs
<1>5. \A d \in Entries : run'.listing[d].version <= Len(remote[d])
                         /\ (run'.listing[d].version > 0 => run'.listing[d].md5 # None)
  <2> SUFFICES ASSUME NEW d \in Entries
               PROVE  run'.listing[d].version <= Len(remote[d])
                      /\ (run'.listing[d].version > 0 => run'.listing[d].md5 # None)
    OBVIOUS
  <2>1. CASE d = e
    BY <1>2, <1>3, <1>4, <2>1, SumsAre
  <2>2. CASE d # e
    BY <1>4, <2>2 DEF NoVersion, TInv, TypeInv
  <2> QED BY <2>1, <2>2
<1> QED BY <1>4, <1>5 DEF TInv, TypeInv, Shape, At, Kept, Steady

(* Where a step leads within a transfer or an explicit command. *)
MovedTo(e, pc, bytes, latest) ==
    [run EXCEPT !.pc = pc, !.bytes = bytes, !.latest = [run.latest EXCEPT ![e] = latest]]

LEMMA MovedIs ==
    ASSUME run \in Run, NEW e \in Entries, NEW pc \in {"receive", "getting", "track"},
           NEW bytes \in Sums, NEW latest \in Pin, run' = MovedTo(e, pc, bytes, latest)
    PROVE  /\ run' \in Run /\ run'.pc = pc /\ run'.bytes = bytes /\ run'.latest[e] = latest
           /\ \A d \in Entries : d # e => run'.latest[d] = run.latest[d]
           /\ UNCHANGED <<run.cmd, run.force, run.resolve, run.blind, run.conflict, run.listed,
                          run.listing, run.sum, run.state, run.mem, run.todo>>
BY DEF MovedTo, Run, Labels

LEMMA MovedKeeps ==
    ASSUME TInv, NEW e \in Files, NEW pc \in {"receive", "getting", "track"},
           NEW bytes \in Sums, NEW latest \in Pin, run' = MovedTo(e, pc, bytes, latest),
           \/ pc = "receive" /\ At("exec") /\ FirstOf(e, run.todo) /\ bytes \in Bytes
           \/ pc = "getting" /\ At("get") /\ bytes \in Bytes
           \/ pc = "track" /\ run.pc \in {"get", "getting"},
           local' \in [Entries -> Sums],
           UNCHANGED <<remote, pins>>, Steady
    PROVE  TInv'
<1>1. e \in Entries
  BY DEF Entries
<1>2. /\ run' \in Run /\ run'.pc = pc /\ run'.bytes = bytes
      /\ UNCHANGED <<run.cmd, run.listing, run.todo>>
  BY <1>1, MovedIs DEF TInv, TypeInv
<1>3. FirstOf(e, run.todo) => run.todo # {}
  BY DEF FirstOf
<1> QED BY <1>2, <1>3 DEF TInv, TypeInv, Shape, At, Kept, Steady

-----------------------------------------------------------------------------
(* The forms a step can have.  Each action is of one of them, so that what *)
(* the invariants below owe to forty actions is shown for fourteen forms.  *)
Sorts == {"file", "wiki"}
OfSort(kind) == IF kind = "file" THEN Files ELSE Wikis
IsListed(e) == \E kind \in Sorts : kind \in run.listed /\ e \in OfSort(kind)

Starts ==
    /\ At("idle") /\ Kept
    /\ \E cmd \in Bulk, force \in Forces, resolve \in Resolutions, blind \in BOOLEAN :
          /\ blind => TRUE \in Blinds
          /\ force \in BOOLEAN /\ run' = Started(cmd, force, resolve, blind)

OpensFile ==
    /\ At("idle") /\ Kept
    /\ \E e \in Files, pc \in {"put", "get"}, conflict \in Answers :
          /\ pc = "put" => conflict \in Conflicts
          /\ run' = OneFile(e, pc, conflict)

Lists ==
    /\ Kept /\ (At("scan") \/ At("exec"))
    /\ \E kind \in Sorts : kind \notin run.listed /\ Listed(kind, OfSort(kind))

ScansBlind(e) ==
    /\ At("scan") /\ e \in run.todo /\ run.blind /\ Kept
    /\ Classified(e, ClassifyBlind(run.mem[e], local[e]), NoVersion)

ScansFile(e) ==
    /\ At("scan") /\ e \in run.todo /\ ~run.blind /\ IsListed(e) /\ Kept
    /\ Classified(e, Classify(run.mem[e], local[e], FetchedVersions(e)),
                     Latest(FetchedVersions(e)))

ScansWiki(e) ==
    /\ At("scan") /\ e \in run.todo /\ e \in Wikis /\ ~run.blind /\ IsListed(e) /\ Kept
    /\ \E vs : /\ vs = WikiVersions(e)
                  \/ (vs = {WikiLatest(e)} /\ run.listing[e].version > 0)
               /\ Classified(e, Classify(run.mem[e], local[e], vs), Latest(vs))

Stops == Quit /\ Kept /\ ~At("receive") /\ ~At("getting")
Dies == Crash
Saves ==
    /\ At("exec") /\ run.todo = {} /\ pins' = run.mem /\ Quit
    /\ UNCHANGED <<local, remote>> /\ Steady
Proceeds == Proceed

(* A push under way: of a bulk command, or of one file. *)
Sends(e) == (Now(e) /\ Plan(e) = "push") \/ (Putting(e) /\ e \in Files /\ run.conflict # "elsewhere")
UploadsLost(e) ==
    Quit /\ Sends(e) /\ local[e] # None /\ Uploaded(e) /\ UNCHANGED <<local, pins>> /\ Steady
Uploads(e, pin) ==
    /\ Sends(e) /\ local[e] # None /\ Uploaded(e) /\ UNCHANGED <<local, pins>> /\ Steady
    /\ Done(e, pin)
    /\ \/ pin = [version |-> Len(remote[e]) + 1, md5 |-> local[e]]
       \/ pin = [version |-> run.mem[e].version + 1, md5 |-> None]
       \/ e \in Wikis /\ Now(e) /\ pin = [version |-> Len(remote[e]) + 1, md5 |-> run.sum[e]]
       \/ /\ e \in Wikis /\ Now(e) /\ unreadable' = unreadable + 1
          /\ pin = [version |-> run.mem[e].version + 1, md5 |-> run.sum[e]]
       \/ Putting(e) /\ pin = run.mem[e]

Settles(e, pin) ==
    /\ Done(e, pin) /\ Kept
    /\ \/ Now(e) /\ Plan(e) = "pin" /\ pin = run.latest[e]
       \/ Now(e) /\ Plan(e) = "report" /\ pin = run.mem[e]
       \/ /\ Now(e) /\ Plan(e) \in {"pull", "restore"} /\ pin = run.mem[e]
          /\ run.listing[e].version = 0 \/ ~IsListed(e)
       \/ /\ Putting(e) /\ run.conflict \in {"elsewhere", "rename"}
          /\ pin = [version |-> 1, md5 |-> local[e]] /\ local[e] # None
       \/ At("track") /\ e \in run.todo /\ (pin = Tip(remote[e]) \/ pin.version = 0)

Removes(e) ==
    /\ \/ At("receive") /\ FirstOf(e, run.todo) /\ e \in Files
       \/ Now(e) /\ Plan(e) \in {"pull", "restore"}
       \/ At("getting") /\ e \in run.todo
    /\ local' = [local EXCEPT ![e] = None] /\ Quit /\ UNCHANGED <<remote, pins>> /\ Steady

Delivers(e, bytes) ==
    /\ \/ At("receive") /\ FirstOf(e, run.todo) /\ e \in Files /\ bytes = run.bytes
       \/ /\ Now(e) /\ Plan(e) \in {"pull", "restore"} /\ e \in Wikis
          /\ Served(e) /\ bytes = remote[e][Revision(e)]
    /\ Verified(e, bytes)
    /\ local' = [local EXCEPT ![e] = bytes]
    /\ Done(e, IF ToLatest(e) THEN LatestPin(e, bytes) ELSE run.mem[e])
    /\ UNCHANGED <<remote, pins>> /\ Steady

Opens(e, pc, bytes, latest) ==
    /\ run' = MovedTo(e, pc, bytes, latest) /\ e \in Files
    /\ \/ /\ pc = "receive" /\ Now(e) /\ Plan(e) \in {"pull", "restore"} /\ Served(e)
          /\ bytes = remote[e][Revision(e)]
          /\ latest \in {Tip(remote[e]), run.latest[e]}
       \/ /\ pc = "getting" /\ At("get") /\ e \in run.todo /\ remote[e] # <<>>
          /\ bytes = Tip(remote[e]).md5 /\ latest = run.latest[e]
    /\ local' = [local EXCEPT ![e] = Partial] /\ UNCHANGED <<remote, pins>> /\ Steady

Tracks(e) ==
    /\ run' = MovedTo(e, "track", run.bytes, run.latest[e]) /\ e \in Files /\ e \in run.todo
    /\ \/ At("get") /\ local' = local
       \/ At("getting") /\ local' = [local EXCEPT ![e] = run.bytes]
    /\ UNCHANGED <<remote, pins>> /\ Steady

Others == UNCHANGED vars \/ Edit \/ ForeignUpload \/ ForeignDelete

Form ==
    \/ Starts \/ OpensFile \/ Lists \/ Stops \/ Dies \/ Saves \/ Proceeds \/ Others
    \/ \E e \in Entries :
          \/ ScansBlind(e) \/ ScansFile(e) \/ ScansWiki(e) \/ UploadsLost(e) \/ Removes(e)
          \/ \E pin \in Pin : Uploads(e, pin) \/ Settles(e, pin)
          \/ Tracks(e) \/ \E bytes \in Bytes : Delivers(e, bytes)
          \/ \E pc \in {"receive", "getting"}, bytes \in Bytes, latest \in Pin :
                Opens(e, pc, bytes, latest)

LEMMA FaultIs ==
    ASSUME TInv, Fault, UNCHANGED asked
    PROVE  Steady
BY DEF Fault, Steady, TInv, TypeInv

LEMMA UnreadIs ==
    ASSUME TInv, Unread, UNCHANGED asked
    PROVE  Steady /\ unreadable' = unreadable + 1
BY DEF Unread, Steady, TInv, TypeInv

LEMMA CalmIs ==
    ASSUME TInv, UNCHANGED <<asked, counters>>
    PROVE  Steady
BY DEF counters, Steady, TInv, TypeInv

LEMMA BeginForm ==
    ASSUME TInv, Begin \/ Rerun
    PROVE  Starts
<1>1. PICK cmd \in Bulk : Start(cmd) /\ asked' \in BOOLEAN
  BY DEF Begin, Rerun, Bulk, TInv, TypeInv
<1>2. Kept /\ At("idle")
  BY <1>1, StartIs DEF Kept, Steady, counters, TInv, TypeInv
<1>3. PICK force \in Forces, resolve \in Resolutions, b \in Blinds, blind \in BOOLEAN :
          blind = (b /\ cmd # "pull") /\ force \in BOOLEAN /\ run' = Started(cmd, force, resolve, blind)
  BY <1>1, StartIs, FlagsAssumption DEF TInv, TypeInv
<1>4. blind => TRUE \in Blinds
  BY <1>3, FlagsAssumption
<1> QED BY <1>2, <1>3, <1>4 DEF Starts

LEMMA FileOpened ==
    ASSUME NEW e \in Files
    PROVE  [Idle EXCEPT !.pc = "get", !.cmd = "get", !.todo = {e}, !.mem = pins,
                        !.listing[e] = Tip(remote[e])] = OneFile(e, "get", Idle.conflict)
<1>1. ASSUME NEW r \in Run, NEW l, NEW t
      PROVE  [r EXCEPT !.pc = "get", !.cmd = "get", !.todo = t, !.mem = pins, !.listing = l]
             = [r EXCEPT !.pc = "get", !.cmd = "get", !.conflict = r.conflict,
                         !.todo = t, !.mem = pins, !.listing = l]
  BY DEF Run
<1>2. Idle \in Run
  BY IdleIs
<1> QED BY <1>1, <1>2 DEF OneFile

LEMMA ExplicitForm ==
    ASSUME TInv, Explicit
    PROVE  OpensFile
<1>1. CASE \E e \in Files, conflict \in Conflicts : PutList(e, conflict)
  <2>1. PICK e \in Files, conflict \in Conflicts : PutList(e, conflict)
    BY <1>1
  <2>2. run' = OneFile(e, "put", conflict) /\ At("idle") /\ Kept /\ conflict \in Answers
    BY <2>1, CalmIs, FlagsAssumption DEF PutList, OneFile, Kept
  <2> QED BY <2>2 DEF OpensFile
<1>2. CASE \E e \in Files : GetList(e)
  <2>1. PICK e \in Files : GetList(e)
    BY <1>2
  <2>2. run' = OneFile(e, "get", Idle.conflict)
    BY <2>1, FileOpened DEF GetList
  <2>3. At("idle") /\ Kept /\ Idle.conflict \in Answers
    BY <2>1, CalmIs, IdleIs DEF GetList, Kept, Run
  <2> QED BY <2>2, <2>3 DEF OpensFile
<1> QED BY <1>1, <1>2 DEF Explicit

LEMMA ListForm ==
    ASSUME TInv, ListFiles \/ ListWikis
    PROVE  Lists
<1>1. Kept
  BY CalmIs DEF ListFiles, ListWikis, Kept
<1>2. CASE ListFiles
  <2>1. "file" \notin run.listed /\ (At("scan") \/ At("exec")) /\ Listed("file", OfSort("file"))
    BY <1>2 DEF ListFiles, OfSort, Now
  <2> QED BY <1>1, <2>1 DEF Lists, Sorts
<1>3. CASE ListWikis
  <2>1. "wiki" \notin run.listed /\ At("scan") /\ Listed("wiki", OfSort("wiki"))
    BY <1>3 DEF ListWikis, OfSort
  <2> QED BY <1>1, <2>1 DEF Lists, Sorts
<1> QED BY <1>2, <1>3

LEMMA ScanForm ==
    ASSUME TInv, NEW e \in Entries, ScanFile(e) \/ ScanBlind(e) \/ ScanWiki(e) \/ ScanWikiFault(e)
    PROVE  ScansBlind(e) \/ ScansFile(e) \/ ScansWiki(e)
<1>1. CASE ScanFile(e)
  <2>1. IsListed(e)
    BY <1>1 DEF ScanFile, IsListed, Sorts, OfSort
  <2> QED BY <1>1, <2>1, CalmIs DEF ScanFile, ScansFile, Kept
<1>2. CASE ScanBlind(e)
  BY <1>2, CalmIs DEF ScanBlind, ScansBlind, Kept
<1>3. CASE ScanWiki(e)
  <2>1. IsListed(e) /\ e \in run.todo /\ e \in Wikis
    BY <1>3 DEF ScanWiki, IsListed, Sorts, OfSort, FirstOf
  <2>2. Kept /\ At("scan") /\ ~run.blind
    BY <1>3, CalmIs DEF ScanWiki, Kept
  <2> QED BY <1>3, <2>1, <2>2 DEF ScanWiki, ScansWiki
<1>4. CASE ScanWikiFault(e)
  <2>1. IsListed(e) /\ e \in run.todo /\ e \in Wikis
    BY <1>4 DEF ScanWikiFault, IsListed, Sorts, OfSort, FirstOf
  <2>2. Kept /\ At("scan") /\ ~run.blind /\ run.listing[e].version > 0
    BY <1>4, FaultIs DEF ScanWikiFault, Kept
  <2>3. Latest({WikiLatest(e)}) = WikiLatest(e)
    BY <2>2, WikiLatestIs, OneIsProper DEF TInv
  <2> QED BY <1>4, <2>1, <2>2, <2>3 DEF ScanWikiFault, ScansWiki
<1> QED BY <1>1, <1>2, <1>3, <1>4

LEMMA StopForm ==
    ASSUME TInv, \/ ScanFails \/ Blocked \/ Declined
                 \/ \E e \in Entries : PushRefused(e) \/ NotServed(e) \/ PutSkip(e) \/ PutFails(e)
    PROVE  Stops
<1>1. Quit /\ UNCHANGED <<local, remote, pins>>
  BY DEF ScanFails, Blocked, Declined, PushRefused, NotServed, PutSkip, PutFails
<1>2. Steady
  <2>1. CASE Blocked
    BY <2>1 DEF Blocked, counters, Steady
  <2>2. CASE UNCHANGED asked /\ (Fault \/ UNCHANGED counters)
    BY <2>2, FaultIs, CalmIs
  <2> QED BY <2>1, <2>2 DEF ScanFails, Declined, PushRefused, NotServed, PutSkip, PutFails
<1>3. ~At("receive") /\ ~At("getting")
  BY DEF ScanFails, Blocked, Declined, PushRefused, PushingFile, PushingWiki, Now, NotServed,
         Pulling, PutSkip, PutFails, Putting, At
<1> QED BY <1>1, <1>2, <1>3 DEF Stops, Kept

LEMMA PushForm ==
    ASSUME TInv, NEW e \in Entries,
           \/ PushFile(e) \/ PushFileUnreadable(e) \/ PushWiki(e) \/ PushWikiUnreadable(e)
           \/ PutUpload(e) \/ PutUnreadable(e)
    PROVE  \E pin \in Pin : Uploads(e, pin)
<1>1. Len(remote[e]) + 1 \in Nat /\ run.mem[e].version + 1 \in Nat /\ run.sum[e] \in Sums
      /\ None \in Sums /\ local[e] \in Sums /\ run.mem[e] \in Pin
  BY SumsAre DEF TInv, TypeInv, Run, Pin
<1>2. CASE PushFile(e)
  <2> DEFINE pin == [version |-> Len(remote[e]) + 1, md5 |-> local[e]]
  <2>1. pin \in Pin
    BY <1>1 DEF Pin
  <2>2. Sends(e) /\ local[e] # None /\ Uploaded(e) /\ UNCHANGED <<local, pins>> /\ Done(e, pin)
    BY <1>2 DEF PushFile, Sends, PushingFile
  <2>3. Steady
    BY <1>2, CalmIs DEF PushFile
  <2> QED BY <2>1, <2>2, <2>3 DEF Uploads
<1>3. CASE PushFileUnreadable(e)
  <2> DEFINE pin == [version |-> run.mem[e].version + 1, md5 |-> None]
  <2>1. pin \in Pin
    BY <1>1 DEF Pin
  <2>2. Sends(e) /\ local[e] # None /\ Uploaded(e) /\ UNCHANGED <<local, pins>> /\ Done(e, pin)
    BY <1>3 DEF PushFileUnreadable, Sends, PushingFile
  <2>3. Steady
    BY <1>3, UnreadIs DEF PushFileUnreadable
  <2> QED BY <2>1, <2>2, <2>3 DEF Uploads
<1>4. CASE PushWiki(e)
  <2> DEFINE pin == [version |-> Len(remote[e]) + 1, md5 |-> run.sum[e]]
  <2>1. pin \in Pin
    BY <1>1 DEF Pin
  <2>2. Sends(e) /\ local[e] # None /\ Uploaded(e) /\ UNCHANGED <<local, pins>> /\ Done(e, pin)
        /\ e \in Wikis /\ Now(e)
    BY <1>4 DEF PushWiki, Sends, PushingWiki
  <2>3. Steady
    BY <1>4, CalmIs DEF PushWiki
  <2> QED BY <2>1, <2>2, <2>3 DEF Uploads
<1>5. CASE PutUpload(e)
  <2> DEFINE pin == [version |-> Len(remote[e]) + 1, md5 |-> local[e]]
  <2>1. pin \in Pin
    BY <1>1 DEF Pin
  <2>2. Putting(e) /\ e \in Files /\ run.conflict # "elsewhere"
    BY <1>5 DEF PutUpload, Putting, TInv, Shape, At
  <2>3. local[e] # None /\ Uploaded(e) /\ UNCHANGED <<local, pins>> /\ Done(e, pin)
    BY <1>5 DEF PutUpload
  <2>4. Steady
    BY <1>5, CalmIs DEF PutUpload
  <2> QED BY <2>1, <2>2, <2>3, <2>4 DEF Uploads, Sends
<1>6. CASE PushWikiUnreadable(e)
  <2> DEFINE pin == [version |-> run.mem[e].version + 1, md5 |-> run.sum[e]]
  <2>1. pin \in Pin
    BY <1>1 DEF Pin
  <2>2. Sends(e) /\ local[e] # None /\ Uploaded(e) /\ UNCHANGED <<local, pins>> /\ Done(e, pin)
        /\ e \in Wikis /\ Now(e)
    BY <1>6 DEF PushWikiUnreadable, Sends, PushingWiki
  <2>3. Steady /\ unreadable' = unreadable + 1
    BY <1>6, UnreadIs DEF PushWikiUnreadable
  <2> QED BY <2>1, <2>2, <2>3 DEF Uploads
<1>7. CASE PutUnreadable(e)
  <2>1. Putting(e) /\ e \in Files /\ run.conflict # "elsewhere"
    BY <1>7 DEF PutUnreadable, Putting, TInv, Shape, At
  <2>2. local[e] # None /\ Uploaded(e) /\ UNCHANGED <<local, pins>> /\ Done(e, run.mem[e])
    BY <1>7 DEF PutUnreadable
  <2>3. Steady
    BY <1>7, UnreadIs DEF PutUnreadable
  <2> QED BY <1>1, <2>1, <2>2, <2>3 DEF Uploads, Sends
<1> QED BY <1>2, <1>3, <1>4, <1>5, <1>6, <1>7

LEMMA PushFailsForm ==
    ASSUME TInv, NEW e \in Entries, PushFails(e)
    PROVE  Stops \/ UploadsLost(e)
<1>1. Quit /\ UNCHANGED <<local, pins>> /\ Steady /\ Sends(e) /\ ~At("receive") /\ ~At("getting")
  BY FaultIs DEF PushFails, PushingFile, PushingWiki, Sends, Now, At
<1>2. remote' = remote \/ (local[e] # None /\ Uploaded(e))
  BY DEF PushFails
<1> QED BY <1>1, <1>2 DEF Stops, Kept, UploadsLost

LEMMA ListFailsForm ==
    ASSUME TInv, ListFails
    PROVE  \/ Stops
           \/ \E e \in Entries, pin \in Pin : Uploads(e, pin) \/ Settles(e, pin)
<1>1. PICK e \in Files :
         /\ Now(e) /\ Plan(e) \in Transfers /\ "file" \notin run.listed
         /\ Fault
         /\ \/ Plan(e) # "push" /\ Done(e, run.mem[e]) /\ UNCHANGED remote
            \/ Plan(e) = "push" /\ Quit /\ UNCHANGED remote
            \/ /\ Plan(e) = "push" /\ remote[e] = <<>> /\ local[e] # None
               /\ Uploaded(e) /\ Done(e, [version |-> 1, md5 |-> local[e]])
         /\ UNCHANGED <<local, pins, asked>>
  BY DEF ListFails
<1>2. Steady /\ e \in Entries /\ run.mem[e] \in Pin /\ [version |-> 1, md5 |-> local[e]] \in Pin
  BY <1>1, FaultIs DEF Entries, TInv, TypeInv, Run, Pin
<1>3. CASE Plan(e) # "push" /\ Done(e, run.mem[e]) /\ UNCHANGED remote
  <2>1. ~IsListed(e) /\ Plan(e) \in {"pull", "restore"}
    BY <1>1, <1>3, EntriesAssumption DEF IsListed, OfSort, Sorts, Transfers
  <2>2. Settles(e, run.mem[e])
    BY <1>1, <1>2, <1>3, <2>1 DEF Settles, Kept
  <2> QED BY <1>2, <2>2
<1>4. CASE Plan(e) = "push" /\ Quit /\ UNCHANGED remote
  BY <1>1, <1>2, <1>4 DEF Stops, Kept, Now, At
<1>5. CASE /\ Plan(e) = "push" /\ remote[e] = <<>> /\ local[e] # None
           /\ Uploaded(e) /\ Done(e, [version |-> 1, md5 |-> local[e]])
  <2>1. Len(remote[e]) + 1 = 1
    BY <1>5
  <2>2. Uploads(e, [version |-> 1, md5 |-> local[e]])
    BY <1>1, <1>2, <1>5, <2>1 DEF Uploads, Sends
  <2> QED BY <1>2, <2>2
<1> QED BY <1>1, <1>3, <1>4, <1>5

LEMMA SettleForm ==
    ASSUME TInv, NEW e \in Entries,
           \/ ExecPin(e) \/ ExecReport(e) \/ SkipUnresolved(e) \/ PutElsewhere(e)
           \/ Track(e) \/ TrackUnlisted(e)
    PROVE  \E pin \in Pin : Settles(e, pin)
<1>1. Kept
  BY CalmIs, FaultIs
     DEF ExecPin, ExecReport, SkipUnresolved, PutElsewhere, Track, TrackUnlisted, Kept
<1>2. run.latest[e] \in Pin /\ run.mem[e] \in Pin /\ Tip(remote[e]) \in Pin
      /\ [version |-> 1, md5 |-> local[e]] \in Pin
  BY TipType DEF TInv, TypeInv, Run, Pin
<1>3. CASE ExecPin(e)
  BY <1>1, <1>2, <1>3 DEF ExecPin, Settles
<1>4. CASE ExecReport(e)
  BY <1>1, <1>2, <1>4 DEF ExecReport, Settles
<1>5. CASE SkipUnresolved(e)
  BY <1>1, <1>2, <1>5 DEF SkipUnresolved, Pulling, Settles
<1>6. CASE PutElsewhere(e)
  BY <1>1, <1>2, <1>6 DEF PutElsewhere, Settles
<1>7. CASE Track(e)
  BY <1>1, <1>2, <1>7 DEF Track, Settles
<1>8. CASE TrackUnlisted(e)
  <2>1. PICK sum \in {local[e], None} : Done(e, [version |-> 0, md5 |-> sum])
    BY <1>8 DEF TrackUnlisted
  <2> DEFINE pin == [version |-> 0, md5 |-> sum]
  <2>2. pin \in Pin /\ pin.version = 0 /\ Done(e, pin)
    BY <1>2, <2>1, SumsAre DEF Pin, TInv, TypeInv
  <2> HIDE DEF pin
  <2> QED BY <1>1, <1>8, <2>2 DEF TrackUnlisted, Settles
<1> QED BY <1>3, <1>4, <1>5, <1>6, <1>7, <1>8

LEMMA RevisionIs ==
    ASSUME TInv, NEW e \in Entries, Served(e)
    PROVE  /\ remote[e][Revision(e)] \in Bytes /\ Revision(e) \in DOMAIN remote[e]
           /\ remote[e][Revision(e)] \in Held(remote[e])
<1>1. remote[e] \in Seq(Bytes)
  BY DEF TInv, TypeInv
<1> QED BY <1>1, TipType DEF Served, Held

LEMMA ArriveForm ==
    ASSUME TInv, NEW e \in Entries, Receive \/ PullWiki(e)
    PROVE  \E d \in Entries : Removes(d) \/ \E bytes \in Bytes : Delivers(d, bytes)
<1>1. ASSUME NEW d \in Entries, NEW bytes \in Bytes, Arrive(d, bytes),
             \/ At("receive") /\ FirstOf(d, run.todo) /\ d \in Files /\ bytes = run.bytes
             \/ /\ Now(d) /\ Plan(d) \in {"pull", "restore"} /\ d \in Wikis
                /\ Served(d) /\ bytes = remote[d][Revision(d)]
      PROVE  Removes(d) \/ Delivers(d, bytes)
  <2>1. UNCHANGED <<remote, pins>> /\ Steady
    BY <1>1, CalmIs DEF Arrive
  <2>2. CASE Verified(d, bytes)
    BY <1>1, <2>1, <2>2 DEF Arrive, Delivers
  <2>3. CASE ~Verified(d, bytes)
    BY <1>1, <2>1, <2>3 DEF Arrive, Removes
  <2> QED BY <2>2, <2>3
<1>2. CASE Receive
  <2>1. PICK d \in Files : At("receive") /\ FirstOf(d, run.todo) /\ Arrive(d, run.bytes)
    BY <1>2 DEF Receive
  <2>2. d \in Entries /\ run.bytes \in Bytes
    BY <2>1 DEF Entries, TInv, Shape
  <2>3. Removes(d) \/ Delivers(d, run.bytes)
    BY <1>1, <2>1, <2>2
  <2> QED BY <2>2, <2>3
<1>3. CASE PullWiki(e)
  <2>1. Served(e) /\ Now(e) /\ Plan(e) \in {"pull", "restore"} /\ e \in Wikis
        /\ Arrive(e, remote[e][Revision(e)])
    BY <1>3 DEF PullWiki, Pulling
  <2>2. remote[e][Revision(e)] \in Bytes
    BY <2>1, RevisionIs
  <2>3. Removes(e) \/ Delivers(e, remote[e][Revision(e)])
    BY <1>1, <2>1, <2>2
  <2> QED BY <2>2, <2>3
<1> QED BY <1>2, <1>3

LEMMA SameMove ==
    ASSUME run \in Run, NEW e \in Entries, NEW pc \in Labels, NEW bytes \in Sums
    PROVE  /\ MovedTo(e, pc, bytes, run.latest[e]) = [run EXCEPT !.pc = pc, !.bytes = bytes]
           /\ MovedTo(e, pc, run.bytes, run.latest[e]) = [run EXCEPT !.pc = pc]
<1>1. [run.latest EXCEPT ![e] = run.latest[e]] = run.latest
  BY DEF Run
<1>2. [run EXCEPT !.pc = pc, !.bytes = bytes, !.latest = run.latest] = [run EXCEPT !.pc = pc, !.bytes = bytes]
  BY DEF Run
<1>3. [run EXCEPT !.pc = pc, !.bytes = run.bytes, !.latest = run.latest] = [run EXCEPT !.pc = pc]
  BY DEF Run
<1> QED BY <1>1, <1>2, <1>3 DEF MovedTo

LEMMA OpenForm ==
    ASSUME TInv, NEW e \in Entries,
           StartDownload(e) \/ StartDownloadUnlisted(e) \/ GetStart(e)
    PROVE  \E pc \in {"receive", "getting"}, bytes \in Bytes, latest \in Pin :
               Opens(e, pc, bytes, latest)
<1>1. Steady /\ UNCHANGED <<remote, pins>> /\ local' = [local EXCEPT ![e] = Partial]
  BY CalmIs, FaultIs DEF StartDownload, StartDownloadUnlisted, GetStart
<1>2. remote[e] \in Seq(Bytes) /\ run.latest[e] \in Pin /\ Tip(remote[e]) \in Pin /\ run \in Run
  BY TipType DEF TInv, TypeInv, Run
<1>3. CASE StartDownload(e)
  <2> DEFINE bytes == remote[e][Revision(e)]
             latest == IF run.latest[e] = NoVersion THEN Tip(remote[e]) ELSE run.latest[e]
  <2>1. Now(e) /\ Plan(e) \in {"pull", "restore"} /\ Served(e) /\ e \in Files
    BY <1>3 DEF StartDownload, Pulling
  <2>2. bytes \in Bytes /\ latest \in Pin
    BY <1>2, <2>1, RevisionIs
  <2>3. run' = MovedTo(e, "receive", bytes, latest)
    BY <1>3 DEF StartDownload, MovedTo
  <2> HIDE DEF bytes, latest
  <2>4. Opens(e, "receive", bytes, latest)
    BY <1>1, <2>1, <2>3 DEF Opens, bytes, latest
  <2> QED BY <2>2, <2>4
<1>4. CASE GetStart(e)
  <2> DEFINE bytes == Tip(remote[e]).md5
             latest == run.latest[e]
  <2>1. At("get") /\ e \in run.todo /\ remote[e] # <<>> /\ e \in Files
    BY <1>4 DEF GetStart, TInv, Shape, At
  <2>2. bytes \in Bytes
    BY <1>2, <2>1, TipType
  <2>3. run' = [run EXCEPT !.pc = "getting", !.bytes = bytes]
    BY <1>4 DEF GetStart
  <2> HIDE DEF bytes, latest
  <2>4. "getting" \in Labels /\ bytes \in Sums
    BY <2>2, SumsAre DEF Labels
  <2>5. run' = MovedTo(e, "getting", bytes, latest)
    <3>1. [run.latest EXCEPT ![e] = run.latest[e]] = run.latest
      BY <1>2 DEF Run
    <3>2. [run EXCEPT !.pc = "getting", !.bytes = bytes, !.latest = run.latest]
          = [run EXCEPT !.pc = "getting", !.bytes = bytes]
      BY <1>2, <2>4 DEF Run
    <3> QED BY <2>3, <3>1, <3>2 DEF MovedTo, latest
  <2>6. Opens(e, "getting", bytes, latest)
    BY <1>1, <2>1, <2>5 DEF Opens, bytes, latest
  <2> QED BY <1>2, <2>2, <2>6 DEF latest
<1>5. CASE StartDownloadUnlisted(e)
  <2> DEFINE bytes == remote[e][Revision(e)]
  <2>1. Now(e) /\ Plan(e) \in {"pull", "restore"} /\ Served(e) /\ e \in Files
    BY <1>5 DEF StartDownloadUnlisted, Pulling
  <2>2. bytes \in Bytes
    BY <2>1, RevisionIs
  <2>3. run' = [run EXCEPT !.pc = "receive", !.bytes = bytes]
    BY <1>5 DEF StartDownloadUnlisted
  <2>4. "receive" \in Labels /\ bytes \in Sums
    BY <2>2, SumsAre DEF Labels
  <2>5. bytes = remote[e][Revision(e)]
    OBVIOUS
  <2> HIDE DEF bytes
  <2>6. run' = MovedTo(e, "receive", bytes, run.latest[e])
    BY <1>2, <2>3, <2>4, SameMove
  <2>7. Opens(e, "receive", bytes, run.latest[e])
    BY <1>1, <2>1, <2>5, <2>6 DEF Opens
  <2> QED BY <1>2, <2>2, <2>7
<1> QED BY <1>3, <1>4, <1>5

LEMMA TrackForm ==
    ASSUME TInv, NEW e \in Entries, GetNothing(e) \/ GetReceive(e)
    PROVE  Tracks(e) \/ Removes(e)
<1>1. run \in Run /\ "track" \in Labels /\ run.bytes \in Sums
  BY DEF TInv, TypeInv, Run, Labels
<1>2. CASE GetNothing(e)
  <2>1. At("get") /\ e \in run.todo /\ e \in Files /\ UNCHANGED <<local, remote, pins>> /\ Steady
    BY <1>2, CalmIs DEF GetNothing, TInv, Shape, At
  <2>2. run' = MovedTo(e, "track", run.bytes, run.latest[e])
    BY <1>1, <1>2, SameMove DEF GetNothing
  <2> QED BY <2>1, <2>2 DEF Tracks
<1>3. CASE GetReceive(e)
  <2>1. At("getting") /\ e \in run.todo /\ e \in Files /\ UNCHANGED <<remote, pins, asked>>
    BY <1>3 DEF GetReceive, TInv, Shape, At
  <2>2. CASE /\ local' = [local EXCEPT ![e] = run.bytes]
             /\ run' = [run EXCEPT !.pc = "track"]
             /\ UNCHANGED counters
    <3>1. run' = MovedTo(e, "track", run.bytes, run.latest[e])
      BY <1>1, <2>2, SameMove
    <3>2. Steady
      BY <2>1, <2>2, CalmIs
    <3> QED BY <2>1, <2>2, <3>1, <3>2 DEF Tracks
  <2>3. CASE Fault /\ Quit /\ local' = [local EXCEPT ![e] = None]
    <3>1. Steady
      BY <2>1, <2>3, FaultIs
    <3> QED BY <2>1, <2>3, <3>1 DEF Removes
  <2> QED BY <1>3, <2>2, <2>3 DEF GetReceive
<1> QED BY <1>2, <1>3

LEMMA ReceiveFailsForm ==
    ASSUME TInv, ReceiveFails
    PROVE  \E e \in Entries : Removes(e)
<1>1. PICK e \in Files : FirstOf(e, run.todo) /\ local' = [local EXCEPT ![e] = None]
  BY DEF ReceiveFails
<1>2. At("receive") /\ Quit /\ UNCHANGED <<remote, pins>> /\ Steady
  BY FaultIs DEF ReceiveFails
<1> QED BY <1>1, <1>2 DEF Removes, Entries

LEMMA SaveForm ==
    ASSUME TInv, Save
    PROVE  Saves
BY DEF Save, Saves, Steady, counters

(* Every action has one of the forms. *)
LEMMA StepForms ==
    ASSUME TInv, [Next]_vars
    PROVE  Form
<1>1. CASE UNCHANGED vars \/ Rest \/ Edit \/ ForeignUpload \/ ForeignDelete
  BY <1>1 DEF Form, Others, Rest
<1>2. CASE Begin \/ Rerun \/ Explicit
  BY <1>2, BeginForm, ExplicitForm DEF Form
<1>3. CASE Step
  <2>1. CASE ListFiles \/ ListWikis \/ Blocked \/ Proceed \/ Save
    BY <2>1, ListForm, StopForm, SaveForm DEF Form, Proceeds
  <2>2. CASE \E e \in Entries : ScanFile(e) \/ ScanBlind(e) \/ ScanWiki(e)
    BY <2>2, ScanForm DEF Form
  <2>3. CASE \E e \in Entries : ExecPin(e) \/ ExecReport(e) \/ SkipUnresolved(e)
                               \/ PutElsewhere(e) \/ Track(e)
    BY <2>3, SettleForm DEF Form
  <2>4. CASE \E e \in Entries : PushFile(e) \/ PushWiki(e) \/ PutUpload(e)
    BY <2>4, PushForm DEF Form
  <2>5. CASE \E e \in Entries : PushRefused(e) \/ NotServed(e) \/ PutSkip(e) \/ PutFails(e)
    BY <2>5, StopForm DEF Form
  <2>6. CASE Receive \/ \E e \in Entries : PullWiki(e)
    <3>1. CASE Receive
      <4>1. PICK e \in Files : At("receive") /\ FirstOf(e, run.todo) /\ Arrive(e, run.bytes)
        BY <3>1 DEF Receive
      <4>2. e \in Entries
        BY DEF Entries
      <4> QED BY <3>1, <4>2, ArriveForm DEF Form
    <3> QED BY <2>6, <3>1, ArriveForm DEF Form
  <2>7. CASE \E e \in Entries : StartDownload(e) \/ GetStart(e)
    BY <2>7, OpenForm DEF Form
  <2>8. CASE \E e \in Entries : GetNothing(e) \/ GetReceive(e)
    BY <2>8, TrackForm DEF Form
  <2> QED BY <1>3, <2>1, <2>2, <2>3, <2>4, <2>5, <2>6, <2>7, <2>8 DEF Step
<1>4. CASE Failure
  <2>1. CASE ScanFails \/ Declined
    BY <2>1, StopForm DEF Form
  <2>2. CASE ListFails \/ ReceiveFails
    BY <2>2, ListFailsForm, ReceiveFailsForm DEF Form
  <2>3. CASE Crash
    BY <2>3 DEF Form, Dies
  <2>4. CASE \E e \in Entries : ScanWikiFault(e) \/ PushFails(e)
    BY <2>4, ScanForm, PushFailsForm DEF Form
  <2>5. CASE \E e \in Entries : PushFileUnreadable(e) \/ PushWikiUnreadable(e) \/ PutUnreadable(e)
    BY <2>5, PushForm DEF Form
  <2>6. CASE \E e \in Entries : StartDownloadUnlisted(e) \/ TrackUnlisted(e)
    BY <2>6, OpenForm, SettleForm DEF Form
  <2> QED BY <1>4, <2>1, <2>2, <2>3, <2>4, <2>5, <2>6 DEF Failure
<1> QED BY <1>1, <1>2, <1>3, <1>4 DEF Next

-----------------------------------------------------------------------------
LEMMA OthersType ==
    ASSUME TInv, Others
    PROVE  TInv'
<1>1. CASE UNCHANGED vars
  BY <1>1 DEF vars, counters, TInv, TypeInv, Shape, At
<1>2. CASE Edit
  <2>1. PICK e \in Entries, c \in Contents \union {None} : local' = [local EXCEPT ![e] = c]
    BY <1>2 DEF Edit
  <2>2. c \in Sums
    BY SumsAre
  <2>3. edits' = edits + 1
        /\ UNCHANGED <<remote, pins, run, asked, foreign, deletes, crashes, unreadable>>
    BY <1>2 DEF Edit
  <2> QED BY <2>1, <2>2, <2>3 DEF TInv, TypeInv, Shape, At
<1>3. CASE ForeignUpload
  <2>1. PICK e \in Entries, c \in Contents : remote' = Grown(e, c)
    BY <1>3 DEF ForeignUpload
  <2>2. /\ remote' \in [Entries -> Seq(Bytes)] /\ Len(remote'[e]) = Len(remote[e]) + 1
        /\ \A d \in Entries : d # e => remote'[d] = remote[d]
    BY <2>1, GrownIs, SumsAre DEF TInv, TypeInv
  <2>3. foreign' = foreign + 1
        /\ UNCHANGED <<local, pins, run, asked, edits, deletes, crashes, unreadable>>
    BY <1>3 DEF ForeignUpload
  <2>4. \A d \in Entries : run.listing[d].version <= Len(remote'[d])
    <3> SUFFICES ASSUME NEW d \in Entries PROVE run.listing[d].version <= Len(remote'[d])
      OBVIOUS
    <3>1. run.listing[d].version <= Len(remote[d]) /\ run.listing[d].version \in Nat
          /\ Len(remote[d]) \in Nat
      BY DEF TInv, TypeInv, Shape, Run, Pin
    <3>2. CASE d = e
      BY <2>2, <3>1, <3>2
    <3>3. CASE d # e
      BY <2>2, <3>1, <3>3
    <3> QED BY <3>2, <3>3
  <2>5. TypeInv'
    BY <2>2, <2>3 DEF TInv, TypeInv
  <2> QED BY <2>3, <2>4, <2>5 DEF TInv, Shape, At
<1>4. CASE ForeignDelete
  <2>1. PICK e \in Entries : remote' = [remote EXCEPT ![e] = <<>>]
    BY <1>4 DEF ForeignDelete
  <2>2. remote' \in [Entries -> Seq(Bytes)]
    BY <2>1 DEF TInv, TypeInv
  <2>3. deletes' = deletes + 1
        /\ UNCHANGED <<local, pins, run, asked, edits, foreign, crashes, unreadable>>
        /\ At("idle")
    BY <1>4 DEF ForeignDelete
  <2>4. \A d \in Entries : run.listing[d].version = 0 /\ Len(remote'[d]) \in Nat
    BY <2>2, <2>3, IdleIs DEF TInv, Shape, NoVersion
  <2>5. TypeInv'
    BY <2>2, <2>3 DEF TInv, TypeInv
  <2> QED BY <2>3, <2>4, <2>5 DEF TInv, Shape, At
<1> QED BY <1>1, <1>2, <1>3, <1>4 DEF Others

LEMMA ScanClassifies ==
    ASSUME TInv, NEW e \in Entries, ScansBlind(e) \/ ScansFile(e) \/ ScansWiki(e)
    PROVE  /\ At("scan") /\ e \in run.todo /\ Kept
           /\ \E state \in States, latest \in Pin :
                 /\ Classified(e, state, latest)
                 /\ (latest.md5 = None => latest.version = 0)
                 /\ \/ /\ run.blind /\ latest = NoVersion
                       /\ state = ClassifyBlind(run.mem[e], local[e])
                    \/ /\ ~run.blind /\ IsListed(e)
                       /\ \E vs : /\ Proper(vs) /\ latest = Latest(vs)
                                  /\ state = Classify(run.mem[e], local[e], vs)
                                  /\ \/ vs = FetchedVersions(e) /\ ScansFile(e)
                                     \/ vs = WikiVersions(e) /\ ScansWiki(e)
                                     \/ /\ vs = {WikiLatest(e)} /\ ScansWiki(e)
                                        /\ run.listing[e].version > 0
<1>1. run.mem[e].version \in Nat
  BY DEF TInv, TypeInv, Run, Pin
<1>2. \A vs : /\ Classify(run.mem[e], local[e], vs) \in States
              /\ ClassifyBlind(run.mem[e], local[e]) \in States
  BY <1>1, ClassifyType
<1>3. CASE ScansBlind(e)
  <2>1. NoVersion \in Pin /\ NoVersion.version = 0
    BY SumsAre DEF NoVersion, Pin
  <2> QED BY <1>2, <1>3, <2>1 DEF ScansBlind
<1>4. CASE ScansFile(e)
  <2> DEFINE vs == FetchedVersions(e)
  <2>1. Proper(vs)
    BY FileVersionsAre DEF TInv
  <2>2. Latest(vs) \in Pin /\ (Latest(vs).md5 = None => Latest(vs).version = 0)
    BY <2>1, ProperLatest
  <2> QED BY <1>2, <1>4, <2>1, <2>2 DEF ScansFile
<1>5. CASE ScansWiki(e)
  <2>1. PICK vs : /\ vs = WikiVersions(e)
                     \/ (vs = {WikiLatest(e)} /\ run.listing[e].version > 0)
                  /\ Classified(e, Classify(run.mem[e], local[e], vs), Latest(vs))
    BY <1>5 DEF ScansWiki
  <2>2. Proper(vs)
    BY <2>1, WikiVersionsAre, WikiLatestIs, OneIsProper DEF TInv
  <2>3. Latest(vs) \in Pin /\ (Latest(vs).md5 = None => Latest(vs).version = 0)
    BY <2>2, ProperLatest
  <2>4. At("scan") /\ e \in run.todo /\ Kept /\ ~run.blind /\ IsListed(e)
    BY <1>5 DEF ScansWiki
  <2> QED BY <1>2, <1>5, <2>1, <2>2, <2>3, <2>4
<1> QED BY <1>3, <1>4, <1>5

LEMMA FormTypes ==
    ASSUME TInv, Form
    PROVE  TInv'
<1>1. CASE Others
  BY <1>1, OthersType
<1>2. CASE Starts
  <2>1. PICK cmd \in Bulk, force \in BOOLEAN, resolve \in Resolutions, blind \in BOOLEAN :
            run' = Started(cmd, force, resolve, blind)
    BY <1>2 DEF Starts
  <2>2. Kept
    BY <1>2 DEF Starts
  <2> QED BY <2>1, <2>2, StartKeeps
<1>3. CASE OpensFile
  <2>1. PICK e \in Files, pc \in {"put", "get"}, conflict \in Answers :
            run' = OneFile(e, pc, conflict)
    BY <1>3 DEF OpensFile
  <2>2. Kept
    BY <1>3 DEF OpensFile
  <2> QED BY <2>1, <2>2, OneFileKeeps
<1>4. CASE Lists
  <2>1. PICK kind \in Sorts : Listed(kind, OfSort(kind))
    BY <1>4 DEF Lists
  <2>2. kind \in {"file", "wiki"} /\ OfSort(kind) \in SUBSET Entries
    BY DEF Sorts, OfSort, Entries
  <2>3. Kept /\ (At("scan") \/ At("exec"))
    BY <1>4 DEF Lists
  <2> QED BY <2>1, <2>2, <2>3, ListedKeeps
<1>5. ASSUME NEW e \in Entries, ScansBlind(e) \/ ScansFile(e) \/ ScansWiki(e)
      PROVE  TInv'
  <2>1. /\ At("scan") /\ Kept
        /\ \E state \in States, latest \in Pin : Classified(e, state, latest)
    BY <1>5, ScanClassifies
  <2> QED BY <2>1, ClassifiedKeeps
<1>6. CASE Stops \/ Dies \/ Saves
  <2>1. Quit /\ UNCHANGED <<local, remote>> /\ pins' \in [Entries -> Pin] /\ asked' \in BOOLEAN
        /\ {edits', foreign', deletes', crashes', unreadable'} \subseteq Nat
    BY <1>6 DEF Stops, Dies, Saves, Kept, Steady, Crash, TInv, TypeInv, Run
  <2> QED BY <2>1, QuitKeeps DEF TInv, TypeInv
<1>7. CASE Proceeds
  <2> DEFINE todo == {e \in Scope(run.cmd) : Plan(e) # "none"}
  <2>1. run' = [run EXCEPT !.pc = "exec", !.todo = todo] /\ At("scan")
        /\ UNCHANGED <<local, remote, pins, asked, edits, foreign, deletes, crashes, unreadable>>
    BY <1>7 DEF Proceeds, Proceed, counters
  <2>2. todo \in SUBSET Entries /\ todo \subseteq Scope(run.cmd)
    BY ScopeIs
  <2> HIDE DEF todo
  <2>3. run' \in Run /\ run'.pc = "exec" /\ run'.todo = todo /\ UNCHANGED <<run.cmd, run.listing>>
    BY <2>1, <2>2 DEF TInv, TypeInv, Run, Labels
  <2> QED BY <2>1, <2>2, <2>3 DEF TInv, TypeInv, Shape, At
<1>8. ASSUME NEW e \in Entries, UploadsLost(e) \/ Removes(e)
      PROVE  TInv'
  <2>1. /\ Quit /\ pins' = pins /\ Steady
        /\ local' = local \/ local' = [local EXCEPT ![e] = None]
        /\ remote' = remote \/ (local[e] # None /\ remote' = Grown(e, local[e]))
    BY <1>8 DEF UploadsLost, Removes, Uploaded
  <2>2. local' \in [Entries -> Sums] /\ (local[e] # None => local[e] \in Bytes)
    BY <2>1, SumsAre DEF TInv, TypeInv, Sums
  <2>3. remote' \in [Entries -> Seq(Bytes)]
    BY <2>1, <2>2, GrownIs DEF TInv, TypeInv
  <2>4. pins' \in [Entries -> Pin] /\ asked' \in BOOLEAN
        /\ {edits', foreign', deletes', crashes', unreadable'} \subseteq Nat
    BY <2>1 DEF Steady, TInv, TypeInv
  <2> QED BY <2>1, <2>2, <2>3, <2>4, QuitKeeps
<1>9. ASSUME NEW e \in Entries, NEW pin \in Pin, Uploads(e, pin) \/ Settles(e, pin)
      PROVE  TInv'
  <2>1. Done(e, pin) /\ UNCHANGED <<local, pins>> /\ Steady
    BY <1>9 DEF Uploads, Settles, Kept
  <2>2. At("exec") \/ (At("put") /\ e \in run.todo) \/ (At("track") /\ e \in run.todo)
    BY <1>9 DEF Uploads, Settles, Sends, Now, Putting
  <2>3. remote' = remote \/ \E c \in Bytes : remote' = Grown(e, c)
    <3>1. local[e] # None => local[e] \in Bytes
      BY DEF TInv, TypeInv, Sums
    <3> QED BY <1>9, <3>1 DEF Uploads, Settles, Kept, Uploaded
  <2>4. local' \in [Entries -> Sums] /\ pins' = pins
    BY <2>1 DEF TInv, TypeInv
  <2> QED BY <2>1, <2>2, <2>3, <2>4, DoneKeeps
<1>10. ASSUME NEW e \in Entries, NEW bytes \in Bytes, Delivers(e, bytes)
       PROVE  TInv'
  <2> DEFINE pin == IF ToLatest(e) THEN LatestPin(e, bytes) ELSE run.mem[e]
  <2>1. Done(e, pin) /\ UNCHANGED <<remote, pins>> /\ Steady
        /\ local' = [local EXCEPT ![e] = bytes] /\ (At("exec") \/ At("receive"))
    BY <1>10 DEF Delivers, Now
  <2>2. pin \in Pin
    <3>1. run.latest[e] \in Pin /\ run.mem[e] \in Pin /\ bytes \in Sums
      BY SumsAre DEF TInv, TypeInv, Run
    <3> QED BY <3>1 DEF LatestPin, Pin
  <2>3. local' \in [Entries -> Sums]
    BY <2>1, SumsAre DEF TInv, TypeInv
  <2> HIDE DEF pin
  <2> QED BY <2>1, <2>2, <2>3, DoneKeeps
<1>11. ASSUME NEW e \in Entries, NEW pc \in {"receive", "getting"}, NEW bytes \in Bytes,
              NEW latest \in Pin, Opens(e, pc, bytes, latest)
       PROVE  TInv'
  <2>1. /\ run' = MovedTo(e, pc, bytes, latest) /\ e \in Files /\ UNCHANGED <<remote, pins>>
        /\ local' = [local EXCEPT ![e] = Partial] /\ Steady
        /\ \/ pc = "receive" /\ At("exec") /\ FirstOf(e, run.todo)
           \/ pc = "getting" /\ At("get")
    BY <1>11 DEF Opens, Now
  <2>2. local' \in [Entries -> Sums] /\ bytes \in Sums /\ pc \in {"receive", "getting", "track"}
    BY <2>1, SumsAre DEF TInv, TypeInv
  <2> QED BY <2>1, <2>2, MovedKeeps
<1>12. ASSUME NEW e \in Entries, Tracks(e)
       PROVE  TInv'
  <2>1. /\ run' = MovedTo(e, "track", run.bytes, run.latest[e]) /\ e \in Files
        /\ UNCHANGED <<remote, pins>> /\ Steady /\ run.pc \in {"get", "getting"}
        /\ local' = local \/ local' = [local EXCEPT ![e] = run.bytes]
    BY <1>12 DEF Tracks, At
  <2>2. run.bytes \in Sums /\ run.latest[e] \in Pin /\ local' \in [Entries -> Sums]
    BY <2>1 DEF TInv, TypeInv, Run
  <2>3. "track" \in {"receive", "getting", "track"}
    OBVIOUS
  <2> QED BY <2>1, <2>2, <2>3, MovedKeeps
<1> QED BY <1>1, <1>2, <1>3, <1>4, <1>5, <1>6, <1>7, <1>8, <1>9, <1>10, <1>11, <1>12 DEF Form

LEMMA InitTypes == Init => TInv
<1> SUFFICES ASSUME Init PROVE TInv OBVIOUS
<1>1. local \in [Entries -> Sums]
  BY SumsAre DEF Init
<1>2. remote \in [Entries -> Seq(Bytes)]
  <2>1. \A c \in Contents : <<c>> \in Seq(Bytes)
    BY SumsAre
  <2>2. <<>> \in Seq(Bytes)
    OBVIOUS
  <2>3. {<<>>} \union {<<c>> : c \in Contents} \subseteq Seq(Bytes)
    BY <2>1, <2>2
  <2>4. remote \in [Entries -> {<<>>} \union {<<c>> : c \in Contents}]
    BY DEF Init
  <2> QED BY <2>3, <2>4
<1>3. pins \in [Entries -> Pin]
  BY SumsAre DEF Init, NoVersion, Pin
<1>4. run = Idle /\ asked = FALSE /\ {edits, foreign, deletes, crashes, unreadable} \subseteq Nat
  BY DEF Init
<1>5. \A e \in Entries : Len(remote[e]) \in Nat
  BY <1>2
<1>6. TypeInv
  BY <1>1, <1>2, <1>3, <1>4, IdleIs DEF TypeInv
<1>7. \A e \in Entries : run.listing[e].version = 0
  BY <1>4, IdleIs DEF NoVersion
<1> QED BY <1>4, <1>5, <1>6, <1>7, IdleIs DEF TInv, Shape, At

LEMMA StepTypes ==
    ASSUME TInv, [Next]_vars
    PROVE  TInv' /\ Form
BY StepForms, FormTypes

LEMMA AlwaysTyped == Spec => []TInv
<1>1. TInv /\ [Next]_vars => TInv'
  BY StepTypes
<1> QED BY InitTypes, <1>1, PTL DEF Spec

(* Entries, histories, pins and the running command stay in their ranges,  *)
(* whatever fails, dies or changes, and a run that transfers a file has    *)
(* that file still to do (sync.go:97-160, push.go, pull.go).               *)
THEOREM SyncTypeCorrect == Spec => []TypeOK
<1>1. TInv => TypeOK
  BY DEF TInv, TypeInv, Shape, TypeOK, At, FirstOf
<1> QED BY <1>1, AlwaysTyped, PTL

-----------------------------------------------------------------------------
(* No run was killed, so a truncated file is on disk only while a download *)
(* of it is under way, and nothing sends it.                               *)
Whole ==
    /\ \A e \in Entries : Partial \notin Held(remote[e])
    /\ At("receive") \/ At("getting") => run.bytes # Partial
    /\ \A e \in Entries : local[e] = Partial =>
           (At("receive") \/ At("getting")) /\ FirstOf(e, run.todo)

LEMMA WholeStep ==
    ASSUME MaxCrashes = 0, TInv, Whole, Form
    PROVE  Whole'
<1> DEFINE Loading == At("receive") \/ At("getting")
<1>1. ASSUME UNCHANGED <<local, remote>>, ~Loading, ~Loading'
      PROVE  Whole'
  BY <1>1 DEF Whole, At
<1>2. CASE Others
  <2>1. CASE UNCHANGED vars
    BY <2>1 DEF vars, counters, Whole, At
  <2>2. CASE Edit
    BY <2>2, SumsAre DEF Edit, Whole, At, TInv, TypeInv
  <2>3. CASE ForeignUpload
    <3>1. PICK e \in Entries, c \in Contents : remote' = Grown(e, c)
      BY <2>3 DEF ForeignUpload
    <3>2. Held(remote'[e]) = Held(remote[e]) \union {c}
          /\ \A d \in Entries : d # e => remote'[d] = remote[d]
      BY <3>1, GrownIs, SumsAre DEF TInv, TypeInv
    <3>3. \A d \in Entries : Partial \notin Held(remote'[d])
      BY <3>2, SumsAre DEF Whole
    <3> QED BY <2>3, <3>3 DEF ForeignUpload, Whole, At
  <2>4. CASE ForeignDelete
    <3>1. PICK e \in Entries : remote' = [remote EXCEPT ![e] = <<>>]
      BY <2>4 DEF ForeignDelete
    <3>2. Held(<<>>) = {}
      BY DEF Held
    <3>3. \A d \in Entries : Partial \notin Held(remote'[d])
      BY <3>1, <3>2 DEF Whole, TInv, TypeInv
    <3> QED BY <2>4, <3>3 DEF ForeignDelete, Whole, At
  <2> QED BY <1>2, <2>1, <2>2, <2>3, <2>4 DEF Others
<1>3. CASE Starts \/ OpensFile
  <2>1. UNCHANGED <<local, remote>> /\ At("idle")
    BY <1>3 DEF Starts, OpensFile, Kept
  <2>2. run'.pc \in {"scan", "put", "get"}
    <3>1. CASE Starts
      <4>1. PICK cmd \in Bulk, force \in BOOLEAN, resolve \in Resolutions, blind \in BOOLEAN :
                run' = Started(cmd, force, resolve, blind)
        BY <3>1 DEF Starts
      <4> QED BY <4>1, StartedIs DEF TInv, TypeInv
    <3>2. CASE OpensFile
      <4>1. PICK e \in Files, pc \in {"put", "get"}, conflict \in Answers :
                run' = OneFile(e, pc, conflict)
        BY <3>2 DEF OpensFile
      <4> QED BY <4>1, OneFileIs
    <3> QED BY <1>3, <3>1, <3>2
  <2> QED BY <1>1, <2>1, <2>2 DEF At
<1>4. CASE Lists
  <2>1. PICK kind \in Sorts : Listed(kind, OfSort(kind))
    BY <1>4 DEF Lists
  <2>2. kind \in {"file", "wiki"} /\ OfSort(kind) \in SUBSET Entries
    BY DEF Sorts, OfSort, Entries
  <2>3. run'.pc = run.pc
    BY <2>1, <2>2, ListedIs DEF TInv, TypeInv
  <2> QED BY <1>1, <1>4, <2>3 DEF Lists, Kept, At
<1>5. ASSUME NEW e \in Entries, ScansBlind(e) \/ ScansFile(e) \/ ScansWiki(e)
      PROVE  Whole'
  <2>1. /\ At("scan") /\ Kept
        /\ \E state \in States, latest \in Pin : Classified(e, state, latest)
    BY <1>5, ScanClassifies
  <2>2. run'.pc = run.pc
    BY <2>1, ClassifiedIs DEF TInv, TypeInv
  <2> QED BY <1>1, <2>1, <2>2 DEF Kept, At
<1>6. CASE Stops \/ Dies \/ Saves
  <2>1. ~Loading /\ Quit /\ UNCHANGED <<local, remote>>
    BY <1>6 DEF Stops, Dies, Crash, Saves, Kept, At, TInv, TypeInv
  <2> QED BY <1>1, <2>1, IdleIs DEF Quit, At
<1>7. CASE Proceeds
  <2>1. run'.pc = "exec" /\ run.pc = "scan" /\ UNCHANGED <<local, remote>>
    BY <1>7 DEF Proceeds, Proceed, At, TInv, TypeInv, Run
  <2> QED BY <1>1, <2>1 DEF At
<1>8. ASSUME NEW e \in Entries,
             UploadsLost(e) \/ \E pin \in Pin : Uploads(e, pin)
      PROVE  Whole'
  <2>1. Sends(e) /\ local[e] # None /\ remote' = Grown(e, local[e]) /\ local' = local
    BY <1>8 DEF UploadsLost, Uploads, Uploaded
  <2>2. ~Loading
    BY <2>1 DEF Sends, Now, Putting, At
  <2>3. local[e] \in Bytes /\ local[e] # Partial
    BY <2>1, <2>2 DEF Whole, TInv, TypeInv, Sums
  <2>4. Held(remote'[e]) = Held(remote[e]) \union {local[e]}
        /\ \A d \in Entries : d # e => remote'[d] = remote[d]
    BY <2>1, <2>3, GrownIs DEF TInv, TypeInv
  <2>5. run'.pc \in {"idle", "exec"}
    BY <1>8, DoneIs, IdleIs DEF UploadsLost, Uploads, Quit, TInv, TypeInv
  <2> QED BY <2>1, <2>2, <2>3, <2>4, <2>5 DEF Whole, At
<1>9. ASSUME NEW e \in Entries, NEW pin \in Pin, Settles(e, pin)
      PROVE  Whole'
  <2>1. Done(e, pin) /\ UNCHANGED <<local, remote>> /\ ~Loading
    BY <1>9 DEF Settles, Kept, Now, Putting, At
  <2>2. run'.pc = "exec"
    BY <2>1, DoneIs DEF TInv, TypeInv
  <2> QED BY <1>1, <2>1, <2>2 DEF At
<1>10. ASSUME NEW e \in Entries, Removes(e) \/ \E bytes \in Bytes : Delivers(e, bytes)
       PROVE  Whole'
  <2>1. PICK c \in Sums : local' = [local EXCEPT ![e] = c] /\ c # Partial
    <3>1. CASE Removes(e)
      BY <3>1, SumsAre DEF Removes
    <3>2. ASSUME NEW bytes \in Bytes, Delivers(e, bytes)
          PROVE  bytes \in Sums /\ local' = [local EXCEPT ![e] = bytes] /\ bytes # Partial
      <4>1. local' = [local EXCEPT ![e] = bytes] /\ bytes \in Sums
        BY <3>2, SumsAre DEF Delivers
      <4>2. CASE At("receive") /\ bytes = run.bytes
        BY <4>1, <4>2 DEF Whole
      <4>3. CASE Served(e) /\ bytes = remote[e][Revision(e)]
        BY <4>1, <4>3, RevisionIs DEF Whole
      <4> QED BY <3>2, <4>2, <4>3, <4>1 DEF Delivers
    <3> QED BY <1>10, <3>1, <3>2
  <2>2. remote' = remote /\ run'.pc \in {"idle", "exec"}
    <3>1. CASE Removes(e)
      BY <3>1, IdleIs DEF Removes, Quit
    <3>2. ASSUME NEW bytes \in Bytes, Delivers(e, bytes)
          PROVE  remote' = remote /\ run'.pc = "exec"
      BY <3>2 DEF Delivers, Done, TInv, TypeInv, Run
    <3> QED BY <1>10, <3>1, <3>2
  <2>3. ASSUME NEW d \in Entries, d # e  PROVE local[d] # Partial
    <3>1. Loading => FirstOf(e, run.todo)
      <4>1. At("receive") => FirstOf(e, run.todo)
        BY <1>10 DEF Removes, Delivers, Now, At
      <4>2. At("getting") => run.todo = {e} /\ e \in Nat
        BY <1>10, EntriesAssumption DEF Removes, Delivers, Now, At, TInv, Shape, Entries
      <4> QED BY <4>1, <4>2 DEF FirstOf
    <3>2. run.todo \in SUBSET Entries
      BY DEF TInv, TypeInv, Run
    <3> QED BY <2>3, <3>1, <3>2, FirstIsOne DEF Whole
  <2>4. \A d \in Entries : local'[d] # Partial
    BY <2>1, <2>3 DEF TInv, TypeInv
  <2> QED BY <2>2, <2>4 DEF Whole, At
<1>11. ASSUME NEW e \in Entries, NEW pc \in {"receive", "getting"}, NEW bytes \in Bytes,
              NEW latest \in Pin, Opens(e, pc, bytes, latest)
       PROVE  Whole'
  <2>1. /\ run' = MovedTo(e, pc, bytes, latest) /\ remote' = remote /\ ~Loading
        /\ local' = [local EXCEPT ![e] = Partial]
    BY <1>11 DEF Opens, Now, At
  <2>2. run'.pc = pc /\ run'.bytes = bytes /\ run'.todo = run.todo
    BY <2>1, MovedIs, SumsAre DEF TInv, TypeInv
  <2>3. FirstOf(e, run.todo)
    <3>1. CASE Now(e)
      BY <3>1 DEF Now
    <3>2. CASE At("get") /\ e \in run.todo
      <4>1. run.todo = {e} /\ e \in Nat
        BY <3>2, EntriesAssumption DEF TInv, Shape, At, Entries
      <4> QED BY <4>1 DEF FirstOf
    <3> QED BY <1>11, <3>1, <3>2 DEF Opens
  <2>4. bytes # Partial
    <3>1. CASE Served(e) /\ bytes = remote[e][Revision(e)]
      BY <3>1, RevisionIs DEF Whole
    <3>2. CASE remote[e] # <<>> /\ bytes = Tip(remote[e]).md5
      <4>1. bytes \in Held(remote[e])
        BY <3>2, TipType DEF Held, TInv, TypeInv
      <4> QED BY <4>1 DEF Whole
    <3> QED BY <1>11, <3>1, <3>2 DEF Opens
  <2> QED BY <2>1, <2>2, <2>3, <2>4 DEF Whole, At, TInv, TypeInv
<1>12. ASSUME NEW e \in Entries, Tracks(e)
       PROVE  Whole'
  <2>1. run'.pc = "track" /\ remote' = remote /\ e \in run.todo
    BY <1>12, MovedIs DEF Tracks, TInv, TypeInv, Run
  <2>2. \A d \in Entries : local'[d] # Partial
    <3>1. CASE At("get") /\ local' = local
      BY <3>1 DEF Whole, At
    <3>2. CASE At("getting") /\ local' = [local EXCEPT ![e] = run.bytes]
      <4>1. run.todo = {e}
        BY <2>1, <3>2 DEF TInv, Shape, At
      <4>2. \A d \in Entries : d # e => local[d] # Partial
        BY <4>1 DEF Whole, FirstOf
      <4> QED BY <3>2, <4>2 DEF Whole, TInv, TypeInv
    <3> QED BY <1>12, <3>1, <3>2 DEF Tracks
  <2> QED BY <2>1, <2>2 DEF Whole, At
<1> QED BY <1>2, <1>3, <1>4, <1>5, <1>6, <1>7, <1>8, <1>9, <1>10, <1>11, <1>12 DEF Form

(* waterbutler.go:110 "Don't leave a truncated file behind": as long as no  *)
(* run is killed in the middle, no truncated file is ever published, of    *)
(* any number of entries and under any interleaving with the user and a    *)
(* collaborator.                                                           *)
THEOREM NeverTruncated ==
    ASSUME MaxCrashes = 0
    PROVE  Spec => []NoTruncatedVersion
<1>1. Init => Whole
  <2> SUFFICES ASSUME Init PROVE Whole OBVIOUS
  <2>1. ASSUME NEW e \in Entries  PROVE Held(remote[e]) \subseteq Contents
    <3>1. remote[e] \in {<<>>} \union {<<c>> : c \in Contents}
      BY DEF Init
    <3> QED BY <3>1 DEF Held
  <2>2. \A e \in Entries : local[e] # Partial
    BY SumsAre DEF Init
  <2> QED BY <2>1, <2>2, IdleIs, SumsAre DEF Init, Whole, At
<1>2. TInv /\ Whole /\ [Next]_vars => Whole'
  BY StepTypes, WholeStep
<1>3. Whole => NoTruncatedVersion
  BY DEF Whole, NoTruncatedVersion
<1> QED BY <1>1, <1>2, <1>3, AlwaysTyped, PTL DEF Spec

-----------------------------------------------------------------------------
(* A bulk run, and the entries it has classified but not yet settled.      *)
Working == run.pc \in {"scan", "exec", "receive"} /\ run.cmd \in Bulk
Pending == IF At("scan") THEN Scope(run.cmd) \ run.todo ELSE run.todo
Loading(e) == At("receive") /\ FirstOf(e, run.todo)
Scans(e) == ScansBlind(e) \/ ScansFile(e) \/ ScansWiki(e)

Left(e) == UNCHANGED <<run.mem[e], run.sum[e], run.state[e]>> /\ pins' = pins
Apart(e) == /\ UNCHANGED <<local[e], remote[e], run.latest[e]>>
            /\ (Loading(e))' <=> Loading(e)
Flags == UNCHANGED <<run.cmd, run.force, run.resolve, run.blind>>

(* What a step of a bulk run does to an entry that is waiting its turn. *)
Waits(e) ==
    \/ Scans(e)
    \/ e \in Pending /\ Left(e) /\ Apart(e)
    \/ e \in Pending /\ Left(e) /\ \E bytes \in Bytes, latest \in Pin : Opens(e, "receive", bytes, latest)
    \/ e \in Pending /\ UNCHANGED run /\ pins' = pins /\ Others

LEMMA PendingIs ==
    ASSUME TInv
    PROVE  /\ Pending \subseteq Entries
           /\ Working => run.todo \subseteq Scope(run.cmd) /\ Pending \subseteq Scope(run.cmd)
           /\ \A e \in Entries : Now(e) => e \in Pending
           /\ \A e \in Entries : Loading(e) => e \in Pending /\ Working
           /\ \A e \in Entries : Now(e) => Working
           /\ At("scan") => Working
<1>1. run.todo \in SUBSET Entries
  BY DEF TInv, TypeInv, Run
<1>2. /\ At("scan") => run.cmd \in Bulk /\ run.todo \subseteq Scope(run.cmd)
      /\ At("exec") /\ run.todo # {} => run.cmd \in Bulk /\ run.todo \subseteq Scope(run.cmd)
      /\ At("receive") => run.cmd \in Bulk /\ run.todo \subseteq Scope(run.cmd)
  BY DEF TInv, Shape
<1>3. \A e \in Entries : Now(e) => At("exec") /\ e \in run.todo /\ run.todo # {}
  BY DEF Now, FirstOf
<1>4. Working => run.todo \subseteq Scope(run.cmd)
  BY <1>2 DEF Working, At
<1>5. \A e \in Entries : Now(e) => Working
  BY <1>2, <1>3 DEF Working, At
<1> QED BY <1>1, <1>2, <1>3, <1>4, <1>5, ScopeIs DEF Working, Pending, Loading, FirstOf, At

(* An entry is settled, and the others wait on. *)
LEMMA DoneWaits ==
    ASSUME TInv, Working', NEW e \in Entries, NEW pin \in Pin, Done(e, pin),
           \/ At("exec") /\ FirstOf(e, run.todo)
           \/ At("receive") /\ FirstOf(e, run.todo)
           \/ run.todo = {e} /\ run.cmd \notin Bulk,
           \A d \in Entries : d # e => UNCHANGED <<local[d], remote[d]>>,
           UNCHANGED pins
    PROVE  /\ Working /\ Flags /\ Pending' = Pending \ {e} /\ run'.listing = run.listing
           /\ run'.listed = run.listed /\ ~At("scan")
           /\ \A d \in Pending' : d # e /\ d \in Pending /\ Left(d) /\ Apart(d)
<1>1. /\ run'.pc = "exec" /\ run'.todo = run.todo \ {e} /\ run.todo \in SUBSET Entries
      /\ \A d \in Entries : d # e => run'.mem[d] = run.mem[d]
      /\ UNCHANGED <<run.cmd, run.force, run.resolve, run.blind, run.conflict, run.listed,
                     run.listing, run.sum, run.state, run.latest, run.bytes>>
  BY DoneIs DEF TInv, TypeInv, Run
<1>2. run.cmd \in Bulk /\ (At("exec") \/ At("receive")) /\ FirstOf(e, run.todo)
  BY <1>1 DEF Working
<1>3. Pending = run.todo /\ Pending' = run.todo \ {e}
  BY <1>1, <1>2 DEF Pending, At
<1>4. ASSUME NEW d \in Pending'
      PROVE  d # e /\ d \in Pending /\ Left(d) /\ Apart(d)
  <2>1. d \in Entries /\ d # e /\ d \in Pending
    BY <1>1, <1>3
  <2>2. ~Loading(d)
    BY <1>1, <1>2, <2>1, FirstIsOne DEF Loading
  <2>3. ~(Loading(d))'
    BY <1>1 DEF Loading, At
  <2> QED BY <1>1, <2>1, <2>2, <2>3 DEF Left, Apart
<1> QED BY <1>1, <1>2, <1>3, <1>4 DEF Working, Flags, At

LEMMA WorkStep ==
    ASSUME TInv, Form, Working'
    PROVE  \/ /\ Starts /\ Pending' = {} /\ run'.mem = pins /\ pins' = pins /\ run'.listed = {}
              /\ \A d \in Entries : run'.listing[d] = NoVersion
           \/ /\ Working /\ Flags /\ (At("scan")' => At("scan") /\ run'.mem = run.mem /\ pins' = pins)
              /\ \A d \in Pending' : d \in Entries /\ Waits(d)
              /\ \/ run'.listing = run.listing /\ run'.listed = run.listed
                 \/ Lists /\ \E kind \in Sorts : Listed(kind, OfSort(kind))
<1> USE DEF Waits
<1>1. CASE Others
  <2>1. UNCHANGED run /\ pins' = pins
    BY <1>1 DEF Others, vars, Edit, ForeignUpload, ForeignDelete
  <2>2. Pending' = Pending /\ Working /\ Flags /\ (At("scan")' => At("scan"))
    BY <2>1 DEF Pending, Working, Flags, At
  <2>3. Pending \subseteq Entries
    BY PendingIs
  <2> QED BY <1>1, <2>1, <2>2, <2>3
<1>2. CASE Starts
  <2>1. PICK cmd \in Bulk, force \in BOOLEAN, resolve \in Resolutions, blind \in BOOLEAN :
            run' = Started(cmd, force, resolve, blind)
    BY <1>2 DEF Starts
  <2>2. /\ run'.pc = "scan" /\ run'.cmd = cmd /\ run'.todo = Scope(cmd) /\ run'.mem = pins
        /\ run'.listing = Idle.listing /\ run'.listed = {}
    BY <2>1, StartedIs DEF TInv, TypeInv
  <2>3. Pending' = {}
    BY <2>2 DEF Pending, At
  <2>4. pins' = pins
    BY <1>2 DEF Starts, Kept
  <2> QED BY <1>2, <2>2, <2>3, <2>4, IdleIs
<1>3. CASE OpensFile
  <2>1. PICK e \in Files, pc \in {"put", "get"}, conflict \in Answers :
            run' = OneFile(e, pc, conflict)
    BY <1>3 DEF OpensFile
  <2>2. run'.pc \in {"put", "get"}
    BY <2>1, OneFileIs
  <2> QED BY <2>2 DEF Working
<1>4. CASE Lists
  <2>1. PICK kind \in Sorts : Listed(kind, OfSort(kind))
    BY <1>4 DEF Lists
  <2>2. kind \in {"file", "wiki"} /\ OfSort(kind) \in SUBSET Entries
    BY DEF Sorts, OfSort, Entries
  <2>3. UNCHANGED <<run.pc, run.todo, run.cmd, run.force, run.resolve, run.blind,
                    run.conflict, run.sum, run.state, run.latest, run.mem, run.bytes>>
    BY <2>1, <2>2, ListedIs DEF TInv, TypeInv
  <2>4. Pending' = Pending /\ Working /\ Flags /\ (At("scan")' => At("scan"))
    BY <2>3 DEF Pending, Working, Flags, At
  <2>5. Pending \subseteq Entries /\ UNCHANGED <<local, remote, pins>>
    BY <1>4, PendingIs DEF Lists, Kept
  <2>6. \A d \in Pending : Left(d) /\ Apart(d)
    BY <2>3, <2>5 DEF Left, Apart, Loading, At
  <2> QED BY <1>4, <2>1, <2>3, <2>4, <2>5, <2>6
<1>5. ASSUME NEW e \in Entries, Scans(e)
      PROVE  /\ Working /\ Flags /\ At("scan") /\ At("scan")' /\ run'.mem = run.mem /\ pins' = pins
             /\ Pending' = Pending \union {e}
             /\ \A d \in Pending' : d \in Entries /\ Waits(d)
             /\ run'.listing = run.listing /\ run'.listed = run.listed
  <2>1. PICK state \in States, latest \in Pin : Classified(e, state, latest)
    BY <1>5, ScanClassifies DEF Scans
  <2>2. At("scan") /\ e \in run.todo /\ UNCHANGED <<local, remote, pins>>
    BY <1>5, ScanClassifies DEF Scans, Kept
  <2>3. /\ run'.pc = run.pc /\ run'.todo = run.todo \ {e}
        /\ \A d \in Entries : d # e => /\ run'.sum[d] = run.sum[d] /\ run'.state[d] = run.state[d]
                                       /\ run'.latest[d] = run.latest[d]
        /\ UNCHANGED <<run.cmd, run.force, run.resolve, run.blind, run.conflict, run.listed,
                       run.listing, run.mem, run.bytes>>
    BY <2>1, ClassifiedIs DEF TInv, TypeInv
  <2>4. Working /\ run.todo \subseteq Scope(run.cmd) /\ Scope(run.cmd) \subseteq Entries
        /\ Pending \subseteq Entries
    BY <2>2, PendingIs, ScopeIs
  <2>5. Pending' = Pending \union {e}
    BY <2>2, <2>3, <2>4 DEF Pending, At
  <2>6. \A d \in Pending : d # e => Left(d) /\ Apart(d)
    BY <2>2, <2>3, <2>4 DEF Left, Apart, Loading, At
  <2> QED BY <1>5, <2>2, <2>3, <2>4, <2>5, <2>6 DEF Flags, At
<1>6. CASE Quit
  <2>1. run'.pc = "idle"
    BY <1>6, IdleIs DEF Quit
  <2> QED BY <2>1 DEF Working
<1>7. CASE Proceeds
  <2> DEFINE todo == {e \in Scope(run.cmd) : Plan(e) # "none"}
  <2>1. run' = [run EXCEPT !.pc = "exec", !.todo = todo] /\ At("scan") /\ run.todo = {}
        /\ UNCHANGED <<local, remote, pins>>
    BY <1>7 DEF Proceeds, Proceed
  <2>2. todo \subseteq Scope(run.cmd)
    OBVIOUS
  <2> HIDE DEF todo
  <2>3. /\ run'.pc = "exec" /\ run'.todo = todo
        /\ UNCHANGED <<run.cmd, run.force, run.resolve, run.blind, run.listing, run.listed,
                       run.mem, run.sum, run.state, run.latest>>
    BY <2>1 DEF TInv, TypeInv, Run
  <2>4. Pending = Scope(run.cmd) /\ Pending' = todo
    BY <2>1, <2>3 DEF Pending, At
  <2>5. Working /\ Flags /\ Pending \subseteq Entries
    BY <2>1, <2>3, PendingIs DEF Flags
  <2>6. \A d \in Pending' : d \in Pending /\ Left(d) /\ Apart(d)
    BY <2>1, <2>2, <2>3, <2>4 DEF Left, Apart, Loading, At
  <2> QED BY <2>2, <2>3, <2>5, <2>6 DEF At
<1>8. ASSUME NEW e \in Entries, NEW pin \in Pin, Done(e, pin),
             \/ At("exec") /\ FirstOf(e, run.todo)
             \/ At("receive") /\ FirstOf(e, run.todo)
             \/ run.todo = {e} /\ run.cmd \notin Bulk,
             \A d \in Entries : d # e => UNCHANGED <<local[d], remote[d]>>,
             UNCHANGED pins
      PROVE  /\ Working /\ Flags /\ ~At("scan")'
             /\ \A d \in Pending' : d \in Entries /\ Waits(d)
             /\ run'.listing = run.listing /\ run'.listed = run.listed
  <2>1. Working /\ Flags /\ run'.listing = run.listing /\ run'.listed = run.listed
        /\ \A d \in Pending' : d \in Pending /\ Left(d) /\ Apart(d)
    BY ONLY TInv, Working', <1>8, DoneWaits
  <2>2. run'.pc = "exec" /\ Pending \subseteq Entries
    BY <1>8, DoneIs, PendingIs DEF TInv, TypeInv
  <2> QED BY <2>1, <2>2 DEF At
<1>9. ASSUME NEW e \in Entries, NEW pin \in Pin, Uploads(e, pin) \/ Settles(e, pin)
      PROVE  /\ Working /\ Flags /\ ~At("scan")'
             /\ \A d \in Pending' : d \in Entries /\ Waits(d)
             /\ run'.listing = run.listing /\ run'.listed = run.listed
  <2>1. Done(e, pin) /\ UNCHANGED <<local, pins>>
    BY <1>9 DEF Uploads, Settles, Kept
  <2>2. \/ At("exec") /\ FirstOf(e, run.todo)
        \/ (At("put") \/ At("track")) /\ e \in run.todo
    BY <1>9 DEF Uploads, Settles, Sends, Now, Putting
  <2>3. (At("put") \/ At("track")) /\ e \in run.todo => run.todo = {e} /\ run.cmd \notin Bulk
    BY DEF TInv, Shape, At, Bulk
  <2>4. \A d \in Entries : d # e => UNCHANGED <<local[d], remote[d]>>
    <3>1. remote' = remote \/ (remote' = Grown(e, local[e]) /\ local[e] \in Bytes)
      BY <1>9 DEF Uploads, Settles, Kept, Uploaded, TInv, TypeInv, Sums
    <3> QED BY <2>1, <3>1, GrownIs DEF TInv, TypeInv
  <2>5. \/ At("exec") /\ FirstOf(e, run.todo)
        \/ At("receive") /\ FirstOf(e, run.todo)
        \/ run.todo = {e} /\ run.cmd \notin Bulk
    BY <2>2, <2>3
  <2>6. Done(e, pin) /\ UNCHANGED pins
    BY <2>1
  <2> QED BY ONLY <1>8, <2>4, <2>5, <2>6, e \in Entries, pin \in Pin
<1>10. ASSUME NEW e \in Entries, NEW bytes \in Bytes, Delivers(e, bytes)
       PROVE  /\ Working /\ Flags /\ ~At("scan")'
              /\ \A d \in Pending' : d \in Entries /\ Waits(d)
              /\ run'.listing = run.listing /\ run'.listed = run.listed
  <2> DEFINE pin == IF ToLatest(e) THEN LatestPin(e, bytes) ELSE run.mem[e]
  <2>1. Done(e, pin) /\ UNCHANGED <<remote, pins>> /\ local' = [local EXCEPT ![e] = bytes]
        /\ (At("exec") \/ At("receive")) /\ FirstOf(e, run.todo)
    BY <1>10 DEF Delivers, Now
  <2>2. pin \in Pin
    <3>1. run.latest[e] \in Pin /\ run.mem[e] \in Pin /\ bytes \in Sums
      BY SumsAre DEF TInv, TypeInv, Run
    <3> QED BY <3>1 DEF LatestPin, Pin
  <2>3. \A d \in Entries : d # e => UNCHANGED <<local[d], remote[d]>>
    BY <2>1 DEF TInv, TypeInv
  <2> HIDE DEF pin
  <2>5. \/ At("exec") /\ FirstOf(e, run.todo)
        \/ At("receive") /\ FirstOf(e, run.todo)
        \/ run.todo = {e} /\ run.cmd \notin Bulk
    BY <2>1
  <2>6. Done(e, pin) /\ UNCHANGED pins
    BY <2>1
  <2> QED BY ONLY <1>8, <2>2, <2>3, <2>5, <2>6, e \in Entries
<1>11. ASSUME NEW e \in Entries, NEW pc \in {"receive", "getting"}, NEW bytes \in Bytes,
              NEW latest \in Pin, Opens(e, pc, bytes, latest)
       PROVE  /\ Working /\ Flags /\ ~At("scan")'
              /\ \A d \in Pending' : d \in Entries /\ Waits(d)
              /\ run'.listing = run.listing /\ run'.listed = run.listed
  <2>1. /\ run' = MovedTo(e, pc, bytes, latest) /\ UNCHANGED <<remote, pins>>
        /\ local' = [local EXCEPT ![e] = Partial]
    BY <1>11 DEF Opens
  <2>2. /\ run'.pc = pc /\ \A d \in Entries : d # e => run'.latest[d] = run.latest[d]
        /\ UNCHANGED <<run.cmd, run.force, run.resolve, run.blind, run.listed,
                       run.listing, run.sum, run.state, run.mem, run.todo>>
    BY <2>1, MovedIs, SumsAre DEF TInv, TypeInv
  <2>3. pc = "receive" /\ Now(e)
    BY <1>11, <2>2 DEF Opens, Working
  <2>4. Working /\ Pending \subseteq Entries /\ FirstOf(e, run.todo) /\ At("exec")
    BY <2>3, PendingIs DEF Now
  <2>5. Pending' = Pending /\ Pending = run.todo
    BY <2>2, <2>3, <2>4 DEF Pending, At
  <2>6. ASSUME NEW d \in Pending, d # e
        PROVE  Left(d) /\ Apart(d)
    <3>1. ~FirstOf(d, run.todo) /\ d \in Entries
      BY <2>4, <2>5, <2>6, FirstIsOne
    <3> QED BY <2>1, <2>2, <2>4, <2>6, <3>1 DEF Left, Apart, Loading, At, TInv, TypeInv
  <2>7. Left(e) /\ e \in Pending
    BY <2>1, <2>2, <2>4, <2>5 DEF Left, FirstOf
  <2> QED BY <1>11, <2>2, <2>3, <2>4, <2>5, <2>6, <2>7 DEF Flags, At
<1>12. ASSUME NEW e \in Entries, Tracks(e)
       PROVE  FALSE
  <2>1. run'.pc = "track"
    BY <1>12, MovedIs DEF Tracks, TInv, TypeInv, Run
  <2> QED BY <2>1 DEF Working
<1>13. CASE \/ Stops \/ Dies \/ Saves
            \/ \E e \in Entries : UploadsLost(e) \/ Removes(e)
  BY <1>6, <1>13 DEF Stops, Dies, Crash, Saves, UploadsLost, Removes
<1> QED BY <1>1, <1>2, <1>3, <1>4, <1>5, <1>7, <1>9, <1>10, <1>11, <1>12, <1>13 DEF Form, Scans

(* What a step does to the histories on OSF. *)
LEMMA RemoteStep ==
    ASSUME TInv, Form
    PROVE  \/ remote' = remote
           \/ ForeignUpload /\ \E d \in Entries, c \in Contents : remote' = Grown(d, c)
           \/ ForeignDelete
           \/ \E d \in Entries :
                 /\ Sends(d) /\ local[d] # None /\ local[d] \in Bytes /\ remote' = Grown(d, local[d])
                 /\ UploadsLost(d) \/ \E pin \in Pin : Uploads(d, pin)
<1>1. CASE Others
  BY <1>1 DEF Others, vars, Edit, ForeignUpload
<1>2. ASSUME NEW d \in Entries, UploadsLost(d) \/ \E pin \in Pin : Uploads(d, pin)
      PROVE  Sends(d) /\ local[d] # None /\ local[d] \in Bytes /\ remote' = Grown(d, local[d])
  BY <1>2 DEF UploadsLost, Uploads, Uploaded, TInv, TypeInv, Sums
<1>3. ASSUME Starts \/ OpensFile \/ Lists \/ Stops \/ Dies \/ Saves \/ Proceeds
      PROVE  remote' = remote
  BY <1>3 DEF Starts, OpensFile, Lists, Stops, Dies, Crash, Saves, Proceeds, Proceed, Kept
<1>4. ASSUME NEW d \in Entries, Scans(d)
      PROVE  remote' = remote
  BY <1>4 DEF Scans, ScansBlind, ScansFile, ScansWiki, Kept
<1>5. ASSUME NEW d \in Entries,
             \/ Removes(d) \/ Tracks(d) \/ (\E bytes \in Bytes : Delivers(d, bytes))
             \/ (\E pin \in Pin : Settles(d, pin))
             \/ (\E pc \in {"receive", "getting"}, bytes \in Bytes, latest \in Pin :
                    Opens(d, pc, bytes, latest))
      PROVE  remote' = remote
  BY <1>5 DEF Removes, Tracks, Delivers, Settles, Opens, Kept
<1> QED BY <1>1, <1>2, <1>3, <1>4, <1>5 DEF Form, Scans

-----------------------------------------------------------------------------
(* While the user leaves the files alone, what the scan read of a file is  *)
(* what the transfer will find; and a transfer chosen without --force and  *)
(* --resolve=theirs overwrites only what is on OSF or is the baseline.     *)
Expendable(e) == {None, Partial, pins[e].md5} \union Held(remote[e])
Spared(e) == ~run.force /\ run.resolve # "theirs" /\ Plan(e) \in {"pull", "restore"}

Read ==
    /\ Working => \A e \in Pending :
          /\ local[e] = IF Loading(e) THEN Partial ELSE run.sum[e]
          /\ Spared(e) => run.sum[e] \in Expendable(e)
    /\ At("scan") => run.mem = pins
    /\ Working => \A e \in Entries :
          run.listing[e].version > 0 => run.listing[e].md5 \in Held(remote[e])

LEMMA HeldGrows ==
    ASSUME TInv, Form, Working, NEW e \in Entries
    PROVE  Held(remote[e]) \subseteq Held(remote'[e])
<1>1. CASE remote' = remote
  BY <1>1
<1>2. ASSUME NEW d \in Entries, NEW c \in Bytes, remote' = Grown(d, c)
      PROVE  Held(remote[e]) \subseteq Held(remote'[e])
  <2>1. Held(remote'[d]) = Held(remote[d]) \union {c}
        /\ \A f \in Entries : f # d => remote'[f] = remote[f]
    BY <1>2, GrownIs DEF TInv, TypeInv
  <2> QED BY <2>1
<1>3. ~ForeignDelete
  BY DEF ForeignDelete, Working, At
<1> QED BY <1>1, <1>2, <1>3, RemoteStep, SumsAre

LEMMA PlanSame ==
    ASSUME Flags, NEW e \in Entries, UNCHANGED <<run.sum[e], run.state[e]>>
    PROVE  (Plan(e))' = Plan(e)
BY DEF Flags, Plan

(* What a scan of one entry leaves. *)
LEMMA ScannedSpared ==
    ASSUME TInv, Read, NEW e \in Entries, Scans(e)
    PROVE  /\ run'.sum[e] = local[e]
           /\ (Spared(e))' => local[e] \in Expendable(e)
<1>1. PICK state \in States, latest \in Pin :
         /\ Classified(e, state, latest)
         /\ \/ run.blind /\ state = ClassifyBlind(run.mem[e], local[e])
            \/ \E vs : /\ state = Classify(run.mem[e], local[e], vs)
                       /\ \/ vs = FetchedVersions(e)
                          \/ vs = WikiVersions(e)
                          \/ vs = {WikiLatest(e)} /\ run.listing[e].version > 0
  BY ScanClassifies DEF Scans
<1>2. At("scan") /\ Working /\ run.mem[e] = pins[e] /\ run.cmd \in Bulk
  <2>1. At("scan")
    BY ScanClassifies DEF Scans
  <2> QED BY <2>1, PendingIs DEF Read, Working
<1>3. /\ run'.sum[e] = local[e] /\ run'.state[e] = state
      /\ UNCHANGED <<run.cmd, run.force, run.resolve, run.blind>>
  BY <1>1, ClassifiedIs DEF TInv, TypeInv
<1>4. run.mem[e].version \in Nat /\ run.mem[e] \in Pin
  BY DEF TInv, TypeInv, Run, Pin
<1>5. ASSUME (Spared(e))'
      PROVE  local[e] \in Expendable(e)
  <2> DEFINE has == local[e] # None
  <2>1. /\ run.force = FALSE /\ run.resolve # "theirs"
        /\ Decision(run.cmd, state, has, FALSE, run.resolve) \in {"pull", "restore"}
    <3>1. run.force \in BOOLEAN
      BY DEF TInv, TypeInv, Run
    <3> QED BY <1>3, <1>5, <3>1 DEF Spared, Plan
  <2> HIDE DEF has
  <2>2. run.cmd \in {"sync", "pull"}
    <3>1. PushDecision(state, has, FALSE, run.resolve) \notin {"pull", "restore"}
      BY <1>1 DEF PushDecision, States
    <3> QED BY <1>2, <2>1, <3>1 DEF Decision, Bulk
  <2>3. CASE run.blind /\ state = ClassifyBlind(run.mem[e], local[e])
    <3>1. state \in {"NOT_PUSHED", "MISSING", "IN_SYNC", "AHEAD_OF_MANIFEST"}
          /\ (state = "MISSING" => local[e] = None)
      BY <1>4, <2>3 DEF ClassifyBlind
    <3>2. state = "MISSING"
      <4>1. CASE run.cmd = "sync"
        <5>1. SyncDecision(state, has, FALSE, run.resolve) \in {"pull", "restore"}
          BY <2>1, <4>1 DEF Decision
        <5> QED BY <3>1, <5>1 DEF SyncDecision, Modified
      <4>2. CASE run.cmd = "pull"
        <5>1. PullDecision(state, FALSE, run.resolve) \in {"pull", "restore"}
          BY <2>1, <4>2 DEF Decision
        <5> QED BY <3>1, <5>1 DEF PullDecision, Modified
      <4> QED BY <2>2, <4>1, <4>2
    <3> QED BY <3>1, <3>2 DEF Expendable
  <2>4. ASSUME NEW vs, state = Classify(run.mem[e], local[e], vs),
               \/ vs = FetchedVersions(e)
               \/ vs = WikiVersions(e)
               \/ vs = {WikiLatest(e)} /\ run.listing[e].version > 0
        PROVE  local[e] \in Expendable(e)
    <3>1. \A v \in vs : v.md5 \in Held(remote[e])
      <4>1. remote[e] \in Seq(Bytes)
        BY DEF TInv, TypeInv
      <4>2. CASE vs = FetchedVersions(e)
        <5>1. \A v \in Versions(remote[e]) : v.md5 \in Held(remote[e])
          BY <4>1, VersionsNumbered
        <5>2. run.listing[e].version > 0 => run.listing[e].md5 \in Held(remote[e])
          BY <1>2 DEF Read
        <5>3. \/ FetchedVersions(e) = {}
              \/ FetchedVersions(e) = {run.listing[e]} /\ run.listing[e].version > 0
              \/ FetchedVersions(e) = Versions(remote[e])
          BY FileVersionsAre DEF TInv
        <5> QED BY <4>2, <5>1, <5>2, <5>3
      <4>3. CASE vs = WikiVersions(e)
        BY <4>3, WikiVersionsAre DEF TInv
      <4>4. CASE vs = {WikiLatest(e)} /\ run.listing[e].version > 0
        BY <4>4, WikiLatestIs DEF TInv
      <4> QED BY <2>4, <4>2, <4>3, <4>4
    <3>2. local[e] \in {None, run.mem[e].md5} \union {v.md5 : v \in vs}
      <4>1. Decision(run.cmd, Classify(run.mem[e], local[e], vs), has, FALSE, run.resolve)
                \in {"pull", "restore"}
        BY <2>1, <2>4
      <4> QED BY <1>4, <2>1, <2>2, <4>1, FetchSafe
    <3> QED BY <1>2, <3>1, <3>2 DEF Expendable
  <2> QED BY <1>1, <2>3, <2>4
<1> QED BY <1>3, <1>5

LEMMA ReadStep ==
    ASSUME ~EditsOverlap, TInv, Read, Form
    PROVE  Read'
<1> USE DEF Read
<1>1. CASE ~Working'
  <2>1. TInv'
    BY FormTypes
  <2> QED BY <1>1, <2>1 DEF TInv, Shape, Working, At
<1>2. CASE Working'
  <2>1. CASE /\ Starts /\ Pending' = {} /\ run'.mem = pins /\ pins' = pins /\ run'.listed = {}
             /\ \A d \in Entries : run'.listing[d] = NoVersion
    BY <2>1 DEF NoVersion
  <2>2. ASSUME Working, Flags, At("scan")' => At("scan") /\ run'.mem = run.mem /\ pins' = pins,
               \A d \in Pending' : d \in Entries /\ Waits(d),
               \/ run'.listing = run.listing
               \/ Lists /\ \E kind \in Sorts : Listed(kind, OfSort(kind))
        PROVE  Read'
    <3>1. \A d \in Entries : Held(remote[d]) \subseteq Held(remote'[d])
      BY <2>2, HeldGrows
    <3>2. ASSUME NEW d \in Pending'
          PROVE  /\ local'[d] = IF (Loading(d))' THEN Partial ELSE run'.sum[d]
                 /\ (Spared(d))' => run'.sum[d] \in (Expendable(d))'
      <4>1. d \in Entries /\ Waits(d)
        BY <2>2
      <4>2. CASE Scans(d)
        <5>1. UNCHANGED <<local, remote, pins>>
          BY <4>1, <4>2, ScanClassifies DEF Scans, Kept
        <5>2. (Expendable(d))' = Expendable(d)
          BY <5>1 DEF Expendable
        <5>3. run'.sum[d] = local[d] /\ ((Spared(d))' => local[d] \in Expendable(d))
          BY <4>1, <4>2, ScannedSpared
        <5>4. ~(Loading(d))'
          <6>1. At("scan") /\ \E state \in States, latest \in Pin : Classified(d, state, latest)
            BY <4>1, <4>2, ScanClassifies DEF Scans
          <6>2. run'.pc = run.pc
            BY <4>1, <6>1, ClassifiedIs DEF TInv, TypeInv
          <6> QED BY <6>1, <6>2 DEF Loading, At
        <5> QED BY <5>1, <5>2, <5>3, <5>4
      <4>3. ASSUME d \in Pending, Left(d), Flags
            PROVE  /\ run'.sum[d] = run.sum[d]
                   /\ (Spared(d))' => run'.sum[d] \in (Expendable(d))'
        <5>1. (Spared(d))' <=> Spared(d)
          BY <4>1, <4>3, PlanSame DEF Spared, Left, Flags
        <5>2. Expendable(d) \subseteq (Expendable(d))'
          BY <3>1, <4>1, <4>3 DEF Expendable, Left
        <5> QED BY <2>2, <4>3, <5>1, <5>2 DEF Left
      <4>4. CASE d \in Pending /\ Left(d) /\ Apart(d)
        BY <2>2, <4>3, <4>4 DEF Apart
      <4>5. CASE d \in Pending /\ Left(d)
                 /\ \E bytes \in Bytes, latest \in Pin : Opens(d, "receive", bytes, latest)
        <5>1. PICK bytes \in Bytes, latest \in Pin : Opens(d, "receive", bytes, latest)
          BY <4>5
        <5>2. run' = MovedTo(d, "receive", bytes, latest) /\ local'[d] = Partial /\ FirstOf(d, run.todo)
          BY <4>1, <5>1 DEF Opens, Now, TInv, TypeInv
        <5>3. run'.pc = "receive" /\ run'.todo = run.todo
          BY <4>1, <5>2, MovedIs, SumsAre DEF TInv, TypeInv
        <5> QED BY <2>2, <4>3, <4>5, <5>2, <5>3 DEF Loading, At
      <4>6. CASE d \in Pending /\ UNCHANGED run /\ pins' = pins /\ Others
        <5>1. ~At("idle")
          BY <2>2 DEF Working, At
        <5>2. local' = local
          BY <4>6, <5>1 DEF Others, vars, Edit, ForeignUpload, ForeignDelete
        <5>3. Left(d) /\ ((Loading(d))' <=> Loading(d))
          BY <4>6 DEF Left, Loading, At
        <5> QED BY <2>2, <4>3, <4>6, <5>2, <5>3
      <4> QED BY <4>1, <4>2, <4>4, <4>5, <4>6 DEF Waits
    <3>3. ASSUME NEW d \in Entries, run'.listing[d].version > 0
          PROVE  run'.listing[d].md5 \in Held(remote'[d])
      <4>1. CASE run'.listing = run.listing
        BY <2>2, <3>1, <3>3, <4>1
      <4>2. CASE Lists /\ \E kind \in Sorts : Listed(kind, OfSort(kind))
        <5>1. PICK kind \in Sorts : Listed(kind, OfSort(kind))
          BY <4>2
        <5>2. kind \in {"file", "wiki"} /\ OfSort(kind) \in SUBSET Entries
          BY DEF Sorts, OfSort, Entries
        <5>3. run'.listing[d] = IF d \in OfSort(kind) THEN Tip(remote[d]) ELSE run.listing[d]
          <6> DEFINE S == OfSort(kind)
          <6>1. run \in Run /\ remote \in [Entries -> Seq(Bytes)]
            BY DEF TInv, TypeInv
          <6>2. S \in SUBSET Entries /\ Listed(kind, S)
            BY <5>1, <5>2
          <6> HIDE DEF S
          <6>3. run'.listing[d] = IF d \in S THEN Tip(remote[d]) ELSE run.listing[d]
            BY <5>2, <6>1, <6>2, ListedIs
          <6> QED BY <6>3 DEF S
        <5>4. remote[d] \in Seq(Bytes) /\ remote' = remote
          BY <4>2 DEF Lists, Kept, TInv, TypeInv
        <5>5. Tip(remote[d]).version > 0 => Tip(remote[d]).md5 \in Held(remote[d])
          BY <5>4, TipType DEF Held
        <5> QED BY <2>2, <3>3, <5>3, <5>4, <5>5
      <4> QED BY <2>2, <4>1, <4>2
    <3> QED BY <2>2, <3>2, <3>3
  <2> QED BY <1>2, <2>1, <2>2, WorkStep
<1> QED BY <1>1, <1>2

(* What a step overwrites or removes on disk. *)
LEMMA WriteSafe ==
    ASSUME ~EditsOverlap, TInv, Read, Form, NEW e \in Entries, local'[e] # local[e],
           edits' = edits, ~run.force, run.resolve # "theirs", run.cmd # "get"
    PROVE  local[e] \in Expendable(e)
<1>1. ASSUME Now(e), Plan(e) \in {"pull", "restore"}
      PROVE  local[e] \in Expendable(e)
  <2>1. e \in Pending /\ Working /\ Spared(e)
    BY <1>1, PendingIs DEF Spared
  <2> QED BY <2>1 DEF Read, Expendable
<1>2. ASSUME Loading(e)
      PROVE  local[e] \in Expendable(e)
  <2>1. e \in Pending /\ Working
    BY <1>2, PendingIs
  <2> QED BY <1>2, <2>1 DEF Read, Expendable
<1>3. ASSUME At("getting") \/ At("get")
      PROVE  FALSE
  BY <1>3 DEF TInv, Shape, At
<1>4. ASSUME NEW d \in Entries,
             \/ Removes(d) \/ \E bytes \in Bytes : Delivers(d, bytes)
             \/ \E pc \in {"receive", "getting"}, bytes \in Bytes, latest \in Pin :
                    Opens(d, pc, bytes, latest)
      PROVE  local[e] \in Expendable(e)
  <2>1. \E c : local' = [local EXCEPT ![d] = c]
    BY <1>4 DEF Removes, Delivers, Opens
  <2>2. d = e
    BY <2>1 DEF TInv, TypeInv
  <2>3. (Now(e) /\ Plan(e) \in {"pull", "restore"}) \/ Loading(e) \/ At("get") \/ At("getting")
    BY <1>4, <2>2 DEF Removes, Delivers, Opens, Loading
  <2> QED BY <1>1, <1>2, <1>3, <2>3
<1>5. ASSUME NEW d \in Entries, Tracks(d)
      PROVE  FALSE
  BY <1>3, <1>5 DEF Tracks
<1>6. CASE Others
  BY <1>6 DEF Others, vars, Edit, ForeignUpload, ForeignDelete, TInv, TypeInv
<1>7. ASSUME \/ Starts \/ OpensFile \/ Lists \/ Stops \/ Dies \/ Saves \/ Proceeds
             \/ \E d \in Entries :
                   \/ ScansBlind(d) \/ ScansFile(d) \/ ScansWiki(d) \/ UploadsLost(d)
                   \/ \E pin \in Pin : Uploads(d, pin) \/ Settles(d, pin)
      PROVE  local' = local
  BY <1>7 DEF Starts, OpensFile, Lists, Stops, Dies, Crash, Saves, Proceeds, Proceed, ScansBlind,
              ScansFile, ScansWiki, UploadsLost, Uploads, Settles, Kept
<1> QED BY <1>4, <1>5, <1>6, <1>7 DEF Form

LEMMA AlwaysRead ==
    ASSUME ~EditsOverlap
    PROVE  Spec => []Read
<1>1. Init => Read
  BY IdleIs DEF Init, Read, Working, At
<1>2. TInv /\ Read /\ [Next]_vars => Read'
  BY ReadStep, StepTypes
<1> QED BY <1>1, <1>2, AlwaysTyped, PTL DEF Spec

(* gate.go:77-80, sync.go:237: while the user leaves the files alone, what *)
(* a sync, push or pull writes over without --force or --resolve=theirs is *)
(* on OSF, or is the baseline, whatever a collaborator uploads meanwhile,  *)
(* whichever calls fail and wherever the run dies.                         *)
THEOREM LocalWorkSurvives ==
    ASSUME ~EditsOverlap
    PROVE  Spec => LocalWorkKept
<1>1. TInv /\ Read /\ [Next]_vars =>
         [\A e \in Entries :
             (/\ local'[e] # local[e] /\ edits' = edits
              /\ ~run.force /\ run.resolve # "theirs" /\ run.cmd # "get")
             => local[e] \in {None, Partial, pins[e].md5} \union Held(remote[e])]_vars
  BY StepTypes, WriteSafe DEF Expendable
<1> QED BY <1>1, AlwaysTyped, AlwaysRead, PTL DEF Spec, LocalWorkKept

-----------------------------------------------------------------------------
(* While no collaborator uploads, what a run was told of an entry is how   *)
(* the entry stands when its turn comes.                                   *)
Reveals(vs, h) ==
    /\ Proper(vs)
    /\ h = <<>> => vs = {}
    /\ h # <<>> => IsLatest(Tip(h), vs)

Judged(e) ==
    /\ IsListed(e) /\ run.listing[e] = Tip(remote[e]) /\ run.latest[e] = Tip(remote[e])
    /\ \E vs : Reveals(vs, remote[e]) /\ run.state[e] = Classify(run.mem[e], run.sum[e], vs)

Current ==
    Working /\ ~run.blind =>
        /\ At("scan") => \A e \in Entries : IsListed(e) => run.listing[e] = Tip(remote[e])
        /\ \A e \in Pending : Judged(e)

LEMMA RevealsLatest ==
    ASSUME NEW h \in Seq(Bytes), NEW vs, Reveals(vs, h)
    PROVE  Latest(vs) = Tip(h)
<1>1. CASE h = <<>>
  BY <1>1, TipType DEF Reveals, Latest
<1>2. CASE h # <<>>
  BY <1>2, LatestIs DEF Reveals, Proper
<1> QED BY <1>1, <1>2

LEMMA OneReveals ==
    ASSUME NEW h \in Seq(Bytes), h # <<>>
    PROVE  Reveals({Tip(h)}, h)
<1>1. Tip(h) \in Pin /\ Tip(h).version \in Nat \ {0} /\ Tip(h).md5 # None
  BY TipType, SumsAre
<1>2. Proper({Tip(h)})
  BY <1>1, OneIsProper
<1>3. IsLatest(Tip(h), {Tip(h)})
  BY <1>1 DEF IsLatest
<1> QED BY <1>2, <1>3 DEF Reveals

LEMMA AllReveal ==
    ASSUME NEW h \in Seq(Bytes)
    PROVE  Reveals(Versions(h), h)
BY HistoryIsProper, VersionsNumbered DEF Reveals

LEMMA ScanReveals ==
    ASSUME TInv, Current, NEW e \in Entries, Scans(e), ~run.blind
    PROVE  (Judged(e))'
<1>0. PICK state \in States, latest \in Pin : \E vs :
         /\ Classified(e, state, latest) /\ IsListed(e)
         /\ Proper(vs) /\ latest = Latest(vs)
         /\ state = Classify(run.mem[e], local[e], vs)
         /\ \/ vs = FetchedVersions(e)
            \/ vs = WikiVersions(e)
            \/ vs = {WikiLatest(e)} /\ run.listing[e].version > 0
  BY ScanClassifies DEF Scans
<1>1. PICK vs :
         /\ Classified(e, state, latest) /\ IsListed(e)
         /\ Proper(vs) /\ latest = Latest(vs)
         /\ state = Classify(run.mem[e], local[e], vs)
         /\ \/ vs = FetchedVersions(e)
            \/ vs = WikiVersions(e)
            \/ vs = {WikiLatest(e)} /\ run.listing[e].version > 0
  BY <1>0
<1>2. At("scan") /\ Working /\ Kept
  <2>1. At("scan") /\ Kept
    BY ScanClassifies DEF Scans
  <2> QED BY <2>1, PendingIs
<1> DEFINE h == remote[e]
<1>3. h \in Seq(Bytes) /\ run.listing[e] = Tip(h) /\ Len(h) \in Nat
  BY <1>1, <1>2 DEF Current, TInv, TypeInv
<1>4. Tip(h) \in Pin /\ Tip(h).version = Len(h) /\ (h = <<>> => Tip(h) = NoVersion)
      /\ (h # <<>> => Len(h) > 0 /\ Tip(h).md5 = h[Len(h)])
  BY <1>3, TipType
<1>5. h # <<>> => WikiLatest(e) = Tip(h)
  BY <1>3 DEF WikiLatest, Tip
<1>6. Reveals(vs, h)
  <2>1. CASE vs = FetchedVersions(e)
    <3>1. \/ vs = {} /\ h = <<>>
          \/ vs = {Tip(h)} /\ h # <<>>
          \/ vs = Versions(h)
      BY <1>3, <1>4, <2>1, FileVersionsAre DEF TInv, NoVersion
    <3> QED BY <1>1, <1>3, <3>1, OneReveals, AllReveal DEF Reveals
  <2>2. CASE vs = WikiVersions(e)
    <3>1. \/ vs = {} /\ h = <<>>
          \/ vs = {Tip(h)} /\ h # <<>>
          \/ h # <<>> /\ vs = {v \in Versions(h) : v.version # Len(h)} \union {Tip(h)}
      BY <1>3, <1>4, <1>5, <2>2, WikiVersionsAre DEF TInv, NoVersion
    <3>2. ASSUME h # <<>>, vs = {v \in Versions(h) : v.version # Len(h)} \union {Tip(h)}
          PROVE  IsLatest(Tip(h), vs)
      <4>1. IsLatest(Tip(h), Versions(h))
        BY <1>3, <3>2, VersionsNumbered
      <4> QED BY <3>2, <4>1, <1>4 DEF IsLatest
    <3> QED BY <1>1, <1>3, <3>1, <3>2, OneReveals DEF Reveals
  <2>3. CASE vs = {WikiLatest(e)} /\ run.listing[e].version > 0
    <3>1. h # <<>>
      BY <1>3, <1>4, <2>3 DEF NoVersion
    <3> QED BY <1>3, <1>5, <2>3, <3>1, OneReveals
  <2> QED BY <1>1, <2>1, <2>2, <2>3
<1>7. /\ run'.sum[e] = local[e] /\ run'.state[e] = state /\ run'.latest[e] = latest
      /\ UNCHANGED <<run.listed, run.listing, run.mem>> /\ remote' = remote
  BY <1>1, <1>2, ClassifiedIs DEF TInv, TypeInv, Kept
<1>8. latest = Tip(h)
  BY <1>1, <1>3, <1>6, RevealsLatest
<1>9. (IsListed(e))'
  BY <1>1, <1>7 DEF IsListed
<1> QED BY <1>1, <1>3, <1>6, <1>7, <1>8, <1>9 DEF Judged

LEMMA CurrentStep ==
    ASSUME ~ForeignOverlap, TInv, Current, Form
    PROVE  Current'
<1> SUFFICES ASSUME Working', ~run'.blind
             PROVE  /\ At("scan")' => \A e \in Entries : (IsListed(e))' => run'.listing[e] = Tip(remote'[e])
                    /\ \A e \in Pending' : (Judged(e))'
  BY DEF Current
<1>1. CASE /\ Starts /\ Pending' = {} /\ run'.mem = pins /\ pins' = pins /\ run'.listed = {}
           /\ \A d \in Entries : run'.listing[d] = NoVersion
  BY <1>1 DEF IsListed
<1>2. ASSUME Working, Flags, At("scan")' => At("scan") /\ run'.mem = run.mem /\ pins' = pins,
             \A d \in Pending' : d \in Entries /\ Waits(d),
             \/ run'.listing = run.listing /\ run'.listed = run.listed
             \/ Lists /\ \E kind \in Sorts : Listed(kind, OfSort(kind))
      PROVE  /\ At("scan")' => \A e \in Entries : (IsListed(e))' => run'.listing[e] = Tip(remote'[e])
             /\ \A e \in Pending' : (Judged(e))'
  <2>1. ~run.blind /\ ~At("idle") /\ ~ForeignUpload /\ ~ForeignDelete
    BY <1>2 DEF Flags, Working, At, ForeignUpload, ForeignDelete
  <2>2. At("scan") => remote' = remote
    BY <2>1, RemoteStep DEF Sends, Now, Putting, At
  <2>3. ASSUME NEW e \in Entries
        PROVE  /\ IsListed(e) => (IsListed(e))' /\ (remote' = remote /\ run.listing[e] = Tip(remote[e])
                                    => run'.listing[e] = Tip(remote'[e]))
               /\ ~IsListed(e) /\ (IsListed(e))' => run'.listing[e] = Tip(remote'[e])
    <3>1. CASE run'.listing = run.listing /\ run'.listed = run.listed
      BY <3>1 DEF IsListed
    <3>2. ASSUME NEW kind \in Sorts, Lists, Listed(kind, OfSort(kind))
          PROVE  /\ run'.listed = run.listed \union {kind} /\ remote' = remote
                 /\ run'.listing[e] = IF e \in OfSort(kind) THEN Tip(remote[e]) ELSE run.listing[e]
      <4> DEFINE S == OfSort(kind)
      <4>1. run \in Run /\ remote \in [Entries -> Seq(Bytes)] /\ kind \in {"file", "wiki"}
        BY DEF TInv, TypeInv, Sorts
      <4>2. S \in SUBSET Entries /\ Listed(kind, S)
        BY <3>2 DEF OfSort, Entries
      <4> HIDE DEF S
      <4>3. run'.listed = run.listed \union {kind}
            /\ run'.listing[e] = IF e \in S THEN Tip(remote[e]) ELSE run.listing[e]
        BY <4>1, <4>2, ListedIs
      <4> QED BY <3>2, <4>3 DEF S, Lists, Kept
    <3> QED BY <1>2, <3>1, <3>2 DEF IsListed
  <2>4. ASSUME At("scan")', NEW e \in Entries, (IsListed(e))'
        PROVE  run'.listing[e] = Tip(remote'[e])
    BY <1>2, <2>1, <2>2, <2>3, <2>4 DEF Current
  <2>5. ASSUME NEW e \in Pending'
        PROVE  (Judged(e))'
    <3>1. e \in Entries /\ Waits(e)
      BY <1>2
    <3>2. CASE Scans(e)
      BY <2>1, <3>1, <3>2, ScanReveals
    <3>3. ASSUME e \in Pending, Left(e), remote'[e] = remote[e],
                 run'.latest[e] = run.latest[e] \/ run'.latest[e] = Tip(remote[e])
          PROVE  (Judged(e))'
      <4>1. Judged(e)
        BY <1>2, <2>1, <3>3 DEF Current
      <4>2. (IsListed(e))' /\ run'.listing[e] = Tip(remote[e])
        <5>1. IsListed(e) /\ run.listing[e] = Tip(remote[e])
          BY <4>1 DEF Judged
        <5>2. CASE run'.listing = run.listing /\ run'.listed = run.listed
          BY <5>1, <5>2 DEF IsListed
        <5>3. CASE Lists
          BY <2>3, <3>1, <3>3, <5>1, <5>3 DEF Lists, Kept
        <5> QED BY <1>2, <5>2, <5>3
      <4> QED BY <3>3, <4>1, <4>2 DEF Judged, Left
    <3>4. CASE e \in Pending /\ Left(e) /\ Apart(e)
      BY <3>3, <3>4 DEF Apart
    <3>5. CASE e \in Pending /\ Left(e)
               /\ \E bytes \in Bytes, latest \in Pin : Opens(e, "receive", bytes, latest)
      <4>1. PICK bytes \in Bytes, latest \in Pin : Opens(e, "receive", bytes, latest)
        BY <3>5
      <4>2. /\ run' = MovedTo(e, "receive", bytes, latest) /\ remote' = remote
            /\ latest = run.latest[e] \/ latest = Tip(remote[e])
        BY <4>1 DEF Opens
      <4>3. run'.latest[e] = latest
        BY <3>1, <4>2, MovedIs, SumsAre DEF TInv, TypeInv
      <4> QED BY <3>3, <3>5, <4>2, <4>3
    <3>6. CASE e \in Pending /\ UNCHANGED run /\ pins' = pins /\ Others
      <4>1. remote' = remote
        BY <2>1, <3>6 DEF Others, vars, Edit
      <4>2. Left(e)
        BY <3>6 DEF Left
      <4> QED BY <3>3, <3>6, <4>1, <4>2
    <3> QED BY <3>1, <3>2, <3>4, <3>5, <3>6 DEF Waits
  <2> QED BY <2>4, <2>5
<1> QED BY <1>1, <1>2, WorkStep

(* What a run that was neither forced nor resolved sends has nothing newer *)
(* than the pin to bury.                                                   *)
LEMMA PushBuriesNothing ==
    ASSUME TInv, NEW e \in Entries, Judged(e), run.cmd \in Bulk,
           ~run.force, run.resolve # "ours", Plan(e) = "push",
           run.mem[e].version > 0 \/ run.cmd = "sync"
    PROVE  Len(remote[e]) <= run.mem[e].version
<1> DEFINE h == remote[e]
           n == run.mem[e].version
           has == run.sum[e] # None
<1>1. h \in Seq(Bytes) /\ run.mem[e] \in Pin /\ n \in Nat /\ Len(h) \in Nat /\ run.force = FALSE
  BY DEF TInv, TypeInv, Run, Pin
<1>2. PICK vs : Reveals(vs, h) /\ run.state[e] = Classify(run.mem[e], run.sum[e], vs)
  BY DEF Judged
<1>3. h # <<>> => Tip(h) \in vs /\ Tip(h).version = Len(h)
  BY <1>1, <1>2, TipType DEF Reveals, IsLatest
<1>4. CASE h = <<>>
  BY <1>1, <1>4
<1>5. CASE h # <<>>
  <2>1. Decision(run.cmd, Classify(run.mem[e], run.sum[e], vs), has, FALSE, run.resolve) = "push"
    BY <1>1, <1>2 DEF Plan
  <2> HIDE DEF has
  <2>2. CASE run.cmd = "sync"
    <3>1. SyncDecision(Classify(run.mem[e], run.sum[e], vs), has, FALSE, run.resolve) = "push"
      BY <2>1, <2>2 DEF Decision
    <3>2. run.mem[e].version = 0 /\ vs = {}
      <4> DEFINE pin == run.mem[e]
                 sum == run.sum[e]
                 resolve == run.resolve
      <4>1. pin.version \in Nat /\ resolve # "ours"
            /\ SyncDecision(Classify(pin, sum, vs), has, FALSE, resolve) = "push"
        BY <1>1, <3>1
      <4> HIDE DEF pin, sum, resolve
      <4>2. pin.version = 0 /\ vs = {}
        BY ONLY <4>1, SyncPushSafe
      <4> QED BY <4>2 DEF pin
    <3> QED BY <1>3, <1>5, <3>2
  <2>3. CASE run.cmd = "push"
    <3>1. PushDecision(Classify(run.mem[e], run.sum[e], vs), has, FALSE, run.resolve) = "push"
      BY <2>1, <2>3 DEF Decision
    <3>2. n > 0 => ~HasNewer(n, vs)
      BY <1>1, <3>1, PushSafe
    <3>3. n > 0
      BY <2>3
    <3>4. ~(Len(h) > n)
      BY <1>3, <1>5, <3>2, <3>3 DEF HasNewer
    <3> QED BY <1>1, <3>4
  <2>4. CASE run.cmd = "pull"
    <3>1. PullDecision(run.state[e], FALSE, run.resolve) = "push"
      BY <1>2, <2>1, <2>4 DEF Decision
    <3>2. run.state[e] \in States
      BY DEF TInv, TypeInv, Run
    <3> QED BY <3>1, <3>2 DEF PullDecision, Modified, States
  <2> QED BY <2>2, <2>3, <2>4 DEF Bulk
<1> QED BY <1>4, <1>5

LEMMA InitCurrent == Init => Current
BY IdleIs DEF Init, Current, Working

LEMMA AlwaysCurrent ==
    ASSUME ~ForeignOverlap
    PROVE  Spec => []Current
<1>1. TInv /\ Current /\ [Next]_vars => Current'
  BY CurrentStep, StepTypes
<1> QED BY InitCurrent, <1>1, AlwaysTyped, PTL DEF Spec

Looks == Working => ~run.blind

LEMMA LooksStep ==
    ASSUME TRUE \notin Blinds, TInv, Looks, Form
    PROVE  Looks'
<1> SUFFICES ASSUME Working' PROVE ~run'.blind
  BY DEF Looks
<1>1. CASE Starts
  <2>1. PICK cmd \in Bulk, force \in Forces, resolve \in Resolutions, blind \in BOOLEAN :
            (blind => TRUE \in Blinds) /\ force \in BOOLEAN /\ run' = Started(cmd, force, resolve, blind)
    BY <1>1 DEF Starts
  <2>2. ~blind
    BY <2>1
  <2> QED BY <2>1, <2>2, StartedIs DEF TInv, TypeInv
<1>2. CASE Working /\ Flags
  BY <1>2 DEF Looks, Flags
<1> QED BY <1>1, <1>2, WorkStep

(* gate.go:113-116, README.md:748-751: while no collaborator uploads in    *)
(* the middle of a run, nothing newer than the pin is buried by a push     *)
(* that was not forced and looked at the remote; a sync uploads an entry   *)
(* without a pin only where nothing is.                                    *)
THEOREM NewerSurvives ==
    ASSUME ~ForeignOverlap, TRUE \notin Blinds
    PROVE  Spec => NewerNotBuried
<1>1. Init => Looks
  BY IdleIs DEF Init, Looks, Working
<1>2. TInv /\ Looks /\ [Next]_vars => Looks'
  BY LooksStep, StepTypes
<1>3. ASSUME TInv, Current, Looks, Form, NEW e \in Entries,
             remote'[e] # remote[e], foreign' = foreign, deletes' = deletes,
             ~run.force, run.resolve # "ours", run.cmd # "put",
             run.mem[e].version > 0 \/ (run.cmd = "sync" /\ ~run.blind)
      PROVE  Len(remote[e]) <= run.mem[e].version
  <2>1. ~ForeignUpload /\ ~ForeignDelete
    BY <1>3 DEF ForeignUpload, ForeignDelete, TInv, TypeInv
  <2>2. PICK d \in Entries : Sends(d) /\ local[d] \in Bytes /\ remote' = Grown(d, local[d])
    BY <1>3, <2>1, RemoteStep
  <2>3. d = e
    BY <1>3, <2>2, GrownIs DEF TInv, TypeInv
  <2>4. Now(e) /\ Plan(e) = "push"
    BY <1>3, <2>2, <2>3 DEF Sends, Putting, TInv, Shape
  <2>5. Working /\ e \in Pending
    BY <1>3, <2>4, PendingIs
  <2>6. Judged(e)
    BY <1>3, <2>5 DEF Current, Looks
  <2> QED BY <1>3, <2>4, <2>5, <2>6, PushBuriesNothing DEF Working
<1>4. TInv /\ Current /\ Looks /\ [Next]_vars =>
         [\A e \in Entries :
             (/\ remote'[e] # remote[e] /\ foreign' = foreign /\ deletes' = deletes
              /\ ~run.force /\ run.resolve # "ours" /\ run.cmd # "put"
              /\ run.mem[e].version > 0 \/ (run.cmd = "sync" /\ ~run.blind))
             => Len(remote[e]) <= run.mem[e].version]_vars
  BY <1>3, StepTypes
<1> QED BY <1>1, <1>2, <1>4, AlwaysTyped, AlwaysCurrent, PTL DEF Spec, NewerNotBuried

-----------------------------------------------------------------------------
(* As long as nothing was deleted from OSF, every version a run notes down *)
(* or holds in its manifest is true of a version there, except that the    *)
(* number of a page may have been guessed too low.                         *)
RightIn(h, p, guessed) ==
    p.version > 0 =>
        /\ p.version <= Len(h)
        /\ p.md5 \in {None, h[p.version]} \/ (guessed /\ p.version < Len(h))

Truth ==
    /\ At("put") => run.conflict \in Conflicts
    /\ \A e \in Entries : run.latest[e].md5 = None => run.latest[e].version = 0
    /\ deletes = 0 => \A e \in Entries :
          /\ RightIn(remote[e], pins[e], Guessed(e)) /\ RightIn(remote[e], run.mem[e], Guessed(e))
          /\ RightIn(remote[e], run.latest[e], Guessed(e))
          /\ RightIn(remote[e], run.listing[e], Guessed(e))

LEMMA TipRight ==
    ASSUME NEW h \in Seq(Bytes), NEW guessed
    PROVE  RightIn(h, Tip(h), guessed) /\ (Tip(h).md5 = None => Tip(h).version = 0)
           /\ RightIn(h, NoVersion, guessed) /\ NoVersion.version = 0
           /\ \A v \in Versions(h) : RightIn(h, v, guessed)
<1>1. \A v \in Versions(h) : RightIn(h, v, guessed)
  BY TipType DEF Versions, RightIn
<1>2. NoVersion.version = 0 /\ RightIn(h, NoVersion, guessed)
  BY DEF NoVersion, RightIn
<1> QED BY <1>1, <1>2, TipType, SumsAre DEF RightIn

(* Only a collaborator deletes; replies that could not be read add up. *)
LEMMA DeletesSame ==
    ASSUME Form, ~Others
    PROVE  deletes' = deletes /\ unreadable' \in {unreadable, unreadable + 1}
<1>1. ASSUME Starts \/ OpensFile \/ Lists \/ Stops \/ Dies \/ Saves \/ Proceeds
      PROVE  deletes' = deletes /\ unreadable' \in {unreadable, unreadable + 1}
  BY <1>1 DEF Starts, OpensFile, Lists, Stops, Dies, Crash, Saves, Proceeds, Proceed, counters,
              Kept, Steady
<1>2. ASSUME NEW d \in Entries,
             \/ Scans(d) \/ UploadsLost(d) \/ Removes(d) \/ Tracks(d)
             \/ (\E bytes \in Bytes : Delivers(d, bytes))
             \/ (\E pin \in Pin : Uploads(d, pin) \/ Settles(d, pin))
             \/ (\E pc \in {"receive", "getting"}, bytes \in Bytes, latest \in Pin :
                    Opens(d, pc, bytes, latest))
      PROVE  deletes' = deletes /\ unreadable' \in {unreadable, unreadable + 1}
  BY <1>2 DEF Scans, ScansBlind, ScansFile, ScansWiki, UploadsLost, Removes, Uploads, Settles,
              Tracks, Delivers, Opens, Kept, Steady
<1> QED BY <1>1, <1>2 DEF Form, Scans

LEMMA GuessedStays ==
    ASSUME TInv, Form, NEW e, Guessed(e)
    PROVE  (Guessed(e))'
<1>1. unreadable' \in {unreadable, unreadable + 1}
  <2>1. CASE Others
    BY <2>1 DEF Others, vars, counters, Edit, ForeignUpload, ForeignDelete
  <2>2. CASE ~Others
    BY <2>2, DeletesSame
  <2> QED BY <2>1, <2>2
<1> QED BY <1>1 DEF Guessed, TInv, TypeInv

LEMMA RightStays ==
    ASSUME TInv, Form, deletes' = 0
    PROVE  /\ deletes = 0
           /\ \A e \in Entries, p \in Pin :
                 RightIn(remote[e], p, Guessed(e)) => RightIn(remote'[e], p, (Guessed(e))')
<1>1. deletes = 0 /\ ~ForeignDelete
  <2>1. CASE Others
    BY <2>1 DEF Others, vars, counters, Edit, ForeignUpload, ForeignDelete, TInv, TypeInv
  <2>2. CASE ~Others
    <3>1. deletes' = deletes
      BY <2>2, DeletesSame
    <3> QED BY <2>2, <3>1 DEF Others
  <2> QED BY <2>1, <2>2
<1>2. ASSUME NEW d \in Entries, NEW c \in Bytes, remote' = Grown(d, c),
             NEW e \in Entries, NEW p \in Pin, NEW guessed, RightIn(remote[e], p, guessed)
      PROVE  RightIn(remote'[e], p, guessed)
  <2>1. CASE e # d
    BY <1>2, <2>1, GrownIs DEF TInv, TypeInv
  <2>2. CASE e = d
    <3>1. /\ Len(remote'[d]) = Len(remote[d]) + 1 /\ Len(remote[d]) \in Nat
          /\ \A i \in 1..Len(remote[d]) : remote'[d][i] = remote[d][i]
      <4>1. remote[d] \in Seq(Bytes) /\ remote \in [Entries -> Seq(Bytes)]
        BY DEF TInv, TypeInv
      <4>2. DOMAIN remote[d] = 1..Len(remote[d]) /\ Len(remote[d]) \in Nat
        BY <4>1
      <4> QED BY <1>2, <4>1, <4>2, GrownIs
    <3> QED BY <1>2, <2>2, <3>1 DEF RightIn, Pin
  <2> QED BY <2>1, <2>2
<1>3. ASSUME NEW e \in Entries, NEW p \in Pin, RightIn(remote[e], p, Guessed(e))
      PROVE  RightIn(remote'[e], p, (Guessed(e))')
  <2>1. RightIn(remote'[e], p, Guessed(e))
    <3>1. remote'[e] = remote[e] \/ \E d \in Entries, c \in Bytes : remote' = Grown(d, c)
      BY <1>1, RemoteStep, SumsAre
    <3> QED BY <1>2, <1>3, <3>1
  <2> QED BY <2>1, GuessedStays DEF RightIn
<1> QED BY <1>1, <1>3

LEMMA TruthStep ==
    ASSUME Conflicts \subseteq {"skip", "overwrite"},
           Wikis = {} \/ (Read /\ Current), TInv, Truth, Form
    PROVE  Truth'
<1> DEFINE Fit(e, p) == deletes' = 0 => RightIn(remote'[e], p, (Guessed(e))')
           Sound(p) == p.md5 = None => p.version = 0
<1>1. TInv'
  BY FormTypes
<1>2. \A e \in Entries : /\ Fit(e, pins[e]) /\ Fit(e, run.mem[e]) /\ Fit(e, run.latest[e])
                         /\ Fit(e, run.listing[e]) /\ Fit(e, NoVersion) /\ Fit(e, Tip(remote[e]))
                         /\ Sound(run.latest[e]) /\ Sound(NoVersion) /\ Sound(Tip(remote[e]))
                         /\ \A v \in Versions(remote[e]) : Fit(e, v)
  <2> SUFFICES ASSUME NEW e \in Entries
               PROVE  /\ Fit(e, pins[e]) /\ Fit(e, run.mem[e]) /\ Fit(e, run.latest[e])
                      /\ Fit(e, run.listing[e]) /\ Fit(e, NoVersion) /\ Fit(e, Tip(remote[e]))
                      /\ Sound(run.latest[e]) /\ Sound(NoVersion) /\ Sound(Tip(remote[e]))
                      /\ \A v \in Versions(remote[e]) : Fit(e, v)
    OBVIOUS
  <2>1. pins[e] \in Pin /\ run.mem[e] \in Pin /\ run.latest[e] \in Pin /\ run.listing[e] \in Pin
        /\ remote[e] \in Seq(Bytes)
    BY DEF TInv, TypeInv, Run
  <2>2. Tip(remote[e]) \in Pin /\ NoVersion \in Pin /\ \A v \in Versions(remote[e]) : v \in Pin
    BY <2>1, TipType, VersionsNumbered, SumsAre DEF NoVersion, Pin
  <2>3. /\ RightIn(remote[e], Tip(remote[e]), Guessed(e)) /\ Sound(Tip(remote[e]))
        /\ RightIn(remote[e], NoVersion, Guessed(e)) /\ Sound(NoVersion)
        /\ \A v \in Versions(remote[e]) : RightIn(remote[e], v, Guessed(e))
    BY <2>1, TipRight
  <2>4. Sound(run.latest[e])
    BY DEF Truth
  <2>5. ASSUME deletes' = 0
        PROVE  /\ \A p \in Pin :
                     RightIn(remote[e], p, Guessed(e)) => RightIn(remote'[e], p, (Guessed(e))')
               /\ RightIn(remote[e], pins[e], Guessed(e))
               /\ RightIn(remote[e], run.mem[e], Guessed(e))
               /\ RightIn(remote[e], run.latest[e], Guessed(e))
               /\ RightIn(remote[e], run.listing[e], Guessed(e))
    BY <2>5, RightStays DEF Truth
  <2> QED BY <2>1, <2>2, <2>3, <2>4, <2>5
<1> HIDE DEF Fit, Sound
<1>3. ASSUME \A e \in Entries : /\ Fit(e, pins'[e]) /\ Fit(e, run'.mem[e]) /\ Fit(e, run'.latest[e])
                                /\ Fit(e, run'.listing[e]) /\ Sound(run'.latest[e]),
             run'.pc = "put" => run'.conflict \in Conflicts
      PROVE  Truth'
  BY <1>3 DEF Truth, Fit, Sound, At
<1>4. CASE Others
  <2>1. UNCHANGED <<run, pins>>
    BY <1>4 DEF Others, vars, Edit, ForeignUpload, ForeignDelete
  <2> QED BY <1>2, <1>3, <2>1 DEF Truth, At
<1>5. CASE Quit
  <2>1. \A e \in Entries : pins'[e] = pins[e] \/ pins'[e] = run.mem[e]
    BY <1>5 DEF Form, Others, vars, Edit, ForeignUpload, ForeignDelete,
                Starts, OpensFile, Lists, Stops, Dies, Crash, Saves, Proceeds, Proceed,
                ScansBlind, ScansFile, ScansWiki, UploadsLost, Removes, Uploads, Settles,
                Tracks, Delivers, Opens, Kept
  <2>2. run' = Idle
    BY <1>5 DEF Quit
  <2> QED BY <1>2, <1>3, <2>1, <2>2, IdleIs
<1>6. CASE Starts
  <2>1. PICK cmd \in Bulk, force \in BOOLEAN, resolve \in Resolutions, blind \in BOOLEAN :
            run' = Started(cmd, force, resolve, blind)
    BY <1>6 DEF Starts
  <2>2. run'.mem = pins /\ run'.latest = Idle.latest /\ run'.listing = Idle.listing
        /\ run'.pc = "scan"
    BY <2>1, StartedIs DEF TInv, TypeInv
  <2>3. pins' = pins
    BY <1>6 DEF Starts, Kept
  <2> QED BY <1>2, <1>3, <2>2, <2>3, IdleIs
<1>7. CASE OpensFile
  <2>1. PICK e \in Files, pc \in {"put", "get"}, conflict \in Answers :
            run' = OneFile(e, pc, conflict) /\ (pc = "put" => conflict \in Conflicts)
    BY <1>7 DEF OpensFile
  <2>2. /\ run'.mem = pins /\ run'.latest = Idle.latest /\ run'.listing[e] = Tip(remote[e])
        /\ \A d \in Entries : d # e => run'.listing[d] = NoVersion
        /\ run'.pc = pc /\ run'.conflict = conflict
    BY <2>1, OneFileIs
  <2>3. pins' = pins
    BY <1>7 DEF OpensFile, Kept
  <2> QED BY <1>2, <1>3, <2>1, <2>2, <2>3, IdleIs
<1>8. CASE Lists
  <2>1. PICK kind \in Sorts : Listed(kind, OfSort(kind))
    BY <1>8 DEF Lists
  <2> DEFINE S == OfSort(kind)
  <2>2. run \in Run /\ remote \in [Entries -> Seq(Bytes)] /\ kind \in {"file", "wiki"}
    BY DEF TInv, TypeInv, Sorts
  <2>3. S \in SUBSET Entries /\ Listed(kind, S)
    BY <2>1 DEF OfSort, Entries
  <2> HIDE DEF S
  <2>4. /\ \A e \in Entries : run'.listing[e] = IF e \in S THEN Tip(remote[e]) ELSE run.listing[e]
        /\ UNCHANGED <<run.pc, run.mem, run.latest, run.conflict>>
    BY <2>2, <2>3, ListedIs
  <2>5. pins' = pins /\ run.pc # "put"
    BY <1>8 DEF Lists, Kept, At
  <2> QED BY <1>2, <1>3, <2>4, <2>5
<1>9. ASSUME NEW e \in Entries, Scans(e)
      PROVE  Truth'
  <2>1. PICK state \in States, latest \in Pin :
           /\ Classified(e, state, latest)
           /\ (latest.md5 = None => latest.version = 0)
           /\ \/ latest = NoVersion
              \/ ~run.blind /\ \E vs : /\ Proper(vs) /\ latest = Latest(vs)
                                       /\ \/ vs = FetchedVersions(e)
                                          \/ ScansWiki(e)
    BY <1>9, ScanClassifies DEF Scans
  <2>2. At("scan") /\ pins' = pins /\ remote' = remote
    BY <1>9, ScanClassifies DEF Scans, Kept
  <2>3. /\ run'.latest[e] = latest /\ \A d \in Entries : d # e => run'.latest[d] = run.latest[d]
        /\ run'.pc = "scan" /\ UNCHANGED <<run.mem, run.listing>>
    BY <2>1, <2>2, ClassifiedIs DEF TInv, TypeInv, At
  <2>4. Sound(latest)
    BY <2>1 DEF Sound
  <2>5. Fit(e, latest)
    <3>1. CASE latest = NoVersion
      BY <1>2, <3>1
    <3>2. ASSUME NEW vs, Proper(vs), latest = Latest(vs), vs = FetchedVersions(e)
          PROVE  Fit(e, latest)
      <4>1. latest.version > 0 => latest \in vs
        BY <3>2, ProperLatest
      <4>2. \A v \in vs : Fit(e, v)
        <5>1. \/ vs = {} \/ vs = {run.listing[e]} \/ vs = Versions(remote[e])
          BY <3>2, FileVersionsAre DEF TInv
        <5> QED BY <1>2, <5>1
      <4> QED BY <4>1, <4>2 DEF Fit, RightIn
    <3>3. CASE ~run.blind /\ ScansWiki(e)
      <4>1. Current
        BY <3>3 DEF ScansWiki
      <4>2. (Judged(e))'
        BY <1>9, <3>3, <4>1, ScanReveals
      <4>3. latest = Tip(remote[e])
        BY <2>2, <2>3, <4>2 DEF Judged
      <4> QED BY <1>2, <4>3
    <3> QED BY <2>1, <3>1, <3>2, <3>3
  <2> QED BY <1>2, <1>3, <2>2, <2>3, <2>4, <2>5
<1>10. CASE Proceeds
  <2>1. \E todo : run' = [run EXCEPT !.pc = "exec", !.todo = todo]
    BY <1>10 DEF Proceeds, Proceed
  <2>2. run'.pc = "exec" /\ UNCHANGED <<run.mem, run.latest, run.listing>>
    BY <2>1 DEF TInv, TypeInv, Run
  <2>3. pins' = pins
    BY <1>10 DEF Proceeds, Proceed
  <2> QED BY <1>2, <1>3, <2>2, <2>3
<1>11. ASSUME NEW e \in Entries, NEW pin \in Pin, Done(e, pin), Fit(e, pin), pins' = pins
       PROVE  Truth'
  <2>1. /\ run'.pc = "exec" /\ run'.mem[e] = pin
        /\ \A d \in Entries : d # e => run'.mem[d] = run.mem[d]
        /\ UNCHANGED <<run.listing, run.latest>>
    BY <1>11, DoneIs DEF TInv, TypeInv
  <2> QED BY <1>2, <1>3, <1>11, <2>1
<1>12. ASSUME NEW e \in Entries, NEW pin \in Pin, Settles(e, pin)
       PROVE  Truth'
  <2>1. Done(e, pin) /\ pins' = pins
    BY <1>12 DEF Settles, Kept
  <2>2. ~(Putting(e) /\ run.conflict \in {"elsewhere", "rename"})
    BY DEF Truth, Putting
  <2>3. pin \in {run.latest[e], run.mem[e], Tip(remote[e])} \/ pin.version = 0
    BY <1>12, <2>2 DEF Settles
  <2>4. Fit(e, pin)
    BY <1>2, <2>3 DEF Fit, RightIn
  <2> QED BY <1>11, <1>12, <2>1, <2>4
<1>13. ASSUME NEW e \in Entries, NEW pin \in Pin, Uploads(e, pin)
       PROVE  Truth'
  <2> DEFINE h == remote[e]
  <2>1. Done(e, pin) /\ pins' = pins /\ local[e] # None /\ remote' = Grown(e, local[e])
    BY <1>13 DEF Uploads, Uploaded
  <2>2. local[e] \in Bytes /\ Len(h) \in Nat /\ run.mem[e] \in Pin
    BY <2>1 DEF TInv, TypeInv, Run, Sums
  <2>3. Len(remote'[e]) = Len(h) + 1 /\ remote'[e][Len(h) + 1] = local[e]
    BY <2>1, <2>2, GrownIs DEF TInv, TypeInv
  <2>4. CASE pin = [version |-> Len(h) + 1, md5 |-> local[e]]
    <3>1. Fit(e, pin)
      BY <2>2, <2>3, <2>4 DEF Fit, RightIn
    <3> QED BY <1>11, <2>1, <3>1
  <2>7. ASSUME deletes' = 0
        PROVE  run.mem[e].version <= Len(h)
    <3>1. RightIn(h, run.mem[e], Guessed(e))
      BY <2>7, RightStays DEF Truth
    <3> QED BY <2>2, <3>1 DEF RightIn, Pin
  <2>5. CASE pin = [version |-> run.mem[e].version + 1, md5 |-> None]
    <3>1. Fit(e, pin)
      BY <2>2, <2>3, <2>5, <2>7 DEF Fit, RightIn, Pin
    <3> QED BY <1>11, <2>1, <3>1
  <2>6. CASE e \in Wikis /\ Now(e) /\ pin = [version |-> Len(h) + 1, md5 |-> run.sum[e]]
    <3>1. e \in Pending /\ Working /\ ~Loading(e)
      BY <2>6, PendingIs DEF Loading, Now, At
    <3>2. local[e] = run.sum[e]
      BY <2>6, <3>1 DEF Read
    <3>3. Fit(e, pin)
      BY <2>2, <2>3, <2>6, <3>2 DEF Fit, RightIn
    <3> QED BY <1>11, <2>1, <3>3
  <2>8. CASE /\ e \in Wikis /\ Now(e) /\ unreadable' = unreadable + 1
             /\ pin = [version |-> run.mem[e].version + 1, md5 |-> run.sum[e]]
    <3>1. e \in Pending /\ Working /\ ~Loading(e)
      BY <2>8, PendingIs DEF Loading, Now, At
    <3>2. local[e] = run.sum[e]
      BY <2>8, <3>1 DEF Read
    <3>3. (Guessed(e))'
      BY <2>8 DEF Guessed, TInv, TypeInv
    <3> DEFINE n == run.mem[e].version
    <3>4. pin.version = n + 1 /\ pin.md5 = local[e] /\ n \in Nat
      BY <2>2, <2>8, <3>2 DEF Pin
    <3> HIDE DEF n
    <3>5. Fit(e, pin)
      <4>1. SUFFICES ASSUME deletes' = 0 PROVE RightIn(remote'[e], pin, (Guessed(e))')
        BY DEF Fit
      <4>2. n <= Len(h)
        BY <2>7, <4>1 DEF n
      <4>3. CASE n = Len(h)
        BY <2>2, <2>3, <3>4, <4>3 DEF RightIn
      <4>4. CASE n # Len(h)
        <5>1. n + 1 < Len(h) + 1 /\ n + 1 <= Len(h) + 1
          BY <2>2, <3>4, <4>2, <4>4
        <5> QED BY <2>3, <3>3, <3>4, <5>1 DEF RightIn
      <4> QED BY <4>3, <4>4
    <3> QED BY <1>11, <2>1, <3>5
  <2>9. CASE pin = run.mem[e]
    BY <1>2, <1>11, <2>1, <2>9
  <2> QED BY <1>13, <2>4, <2>5, <2>6, <2>8, <2>9 DEF Uploads
<1>14. ASSUME NEW e \in Entries, NEW bytes \in Bytes, Delivers(e, bytes)
       PROVE  Truth'
  <2> DEFINE pin == IF ToLatest(e) THEN LatestPin(e, bytes) ELSE run.mem[e]
  <2>1. Done(e, pin) /\ pins' = pins
    BY <1>14 DEF Delivers
  <2>2. run.latest[e] \in Pin /\ run.mem[e] \in Pin /\ bytes \in Sums
    BY SumsAre DEF TInv, TypeInv, Run
  <2>3. pin \in Pin
    BY <2>2 DEF LatestPin, Pin
  <2>4. CASE ToLatest(e) /\ run.latest[e].md5 = None
    <3>1. run.latest[e].version = 0
      BY <2>4 DEF Truth
    <3>2. pin = [run.latest[e] EXCEPT !.md5 = bytes]
      BY <2>4 DEF LatestPin
    <3>3. pin.version = 0
      BY <2>2, <3>1, <3>2 DEF Pin
    <3> HIDE DEF pin
    <3> QED BY <1>11, <2>1, <2>3, <3>3 DEF Fit, RightIn
  <2>5. CASE pin \in {run.latest[e], run.mem[e]}
    <3> HIDE DEF pin
    <3> QED BY <1>2, <1>11, <2>1, <2>3, <2>5
  <2> QED BY <2>4, <2>5 DEF LatestPin
<1>15. ASSUME NEW e \in Entries, NEW pc \in {"receive", "getting", "track"}, NEW bytes \in Sums,
              NEW latest \in Pin, run' = MovedTo(e, pc, bytes, latest), pins' = pins,
              latest = run.latest[e] \/ latest = Tip(remote[e])
       PROVE  Truth'
  <2>1. /\ run'.pc = pc /\ run'.latest[e] = latest
        /\ \A d \in Entries : d # e => run'.latest[d] = run.latest[d]
        /\ UNCHANGED <<run.mem, run.listing>>
    BY <1>15, MovedIs DEF TInv, TypeInv
  <2> QED BY <1>2, <1>3, <1>15, <2>1
<1>16. ASSUME NEW e \in Entries, NEW pc \in {"receive", "getting"}, NEW bytes \in Bytes,
              NEW latest \in Pin, Opens(e, pc, bytes, latest)
       PROVE  Truth'
  <2>1. /\ run' = MovedTo(e, pc, bytes, latest) /\ pins' = pins
        /\ latest = run.latest[e] \/ latest = Tip(remote[e])
    BY <1>16 DEF Opens
  <2> QED BY <1>15, <2>1, SumsAre
<1>17. ASSUME NEW e \in Entries, Tracks(e)
       PROVE  Truth'
  <2>1. run' = MovedTo(e, "track", run.bytes, run.latest[e]) /\ pins' = pins
    BY <1>17 DEF Tracks
  <2>2. run.bytes \in Sums /\ run.latest[e] \in Pin
    BY DEF TInv, TypeInv, Run
  <2> QED BY <1>15, <2>1, <2>2
<1>18. CASE Stops \/ Dies \/ Saves \/ \E e \in Entries : UploadsLost(e) \/ Removes(e)
  BY <1>5, <1>18 DEF Stops, Dies, Crash, Saves, UploadsLost, Removes
<1> QED BY <1>4, <1>6, <1>7, <1>8, <1>9, <1>10, <1>12, <1>13, <1>14, <1>16, <1>17, <1>18
        DEF Form, Scans

LEMMA InitTruth == Init => Truth
<1> SUFFICES ASSUME Init PROVE Truth OBVIOUS
<1>1. run = Idle /\ \A e \in Entries : pins[e] = NoVersion
  BY DEF Init
<1> QED BY <1>1, IdleIs DEF Truth, At, NoVersion, RightIn

LEMMA AlwaysTrue ==
    ASSUME Conflicts \subseteq {"skip", "overwrite"},
           Wikis = {} \/ (~EditsOverlap /\ ~ForeignOverlap)
    PROVE  Spec => []Truth
<1>1. TInv /\ Truth /\ (Wikis = {} \/ (Read /\ Current)) /\ [Next]_vars => Truth'
  BY TruthStep, StepTypes
<1>2. CASE Wikis = {}
  <2>1. TInv /\ Truth /\ [Next]_vars => Truth'
    BY <1>1, <1>2
  <2> QED BY <2>1, InitTruth, AlwaysTyped, PTL DEF Spec
<1>3. CASE ~EditsOverlap /\ ~ForeignOverlap
  <2>1. Spec => []Read /\ []Current
    BY <1>3, AlwaysRead, AlwaysCurrent
  <2>2. TInv /\ Truth /\ Read /\ Current /\ [Next]_vars => Truth'
    BY <1>1
  <2> QED BY <2>1, <2>2, InitTruth, AlwaysTyped, PTL DEF Spec
<1> QED BY <1>2, <1>3

(* README.md:720 a pin is the version and "MD5 of the pinned version": as  *)
(* long as nothing is deleted from OSF, a saved pin names a version that   *)
(* is there, with the checksum it has there.  For files whatever the user  *)
(* and a collaborator do in the middle of a run; for wiki pages, whose     *)
(* number and content are fetched apart (wiki_sync.go), while they do not, *)
(* and a page's number that was guessed may be too low.                    *)
THEOREM PinsAreTrue ==
    ASSUME Conflicts \subseteq {"skip", "overwrite"},
           Wikis = {} \/ (~EditsOverlap /\ ~ForeignOverlap)
    PROVE  Spec => []PinTrue
<1>1. TInv /\ Truth => PinTrue
  <2> SUFFICES ASSUME TInv, Truth, NEW e \in Entries, pins[e].version > 0, deletes = 0
               PROVE  /\ pins[e].version <= Len(remote[e])
                      /\ \/ pins[e].md5 \in {None, remote[e][pins[e].version]}
                         \/ Guessed(e) /\ pins[e].version < Len(remote[e])
    BY DEF PinTrue
  <2> QED BY DEF Truth, RightIn
<1> QED BY <1>1, AlwaysTyped, AlwaysTrue, PTL

-----------------------------------------------------------------------------
(* What IN_SYNC says, and when an entry has it.                            *)
LEMMA InSyncSays ==
    ASSUME NEW pin, pin.version \in Nat, NEW sum, NEW vs, Classify(pin, sum, vs) = "IN_SYNC"
    PROVE  pin.version > 0 /\ sum # None /\ sum = pin.md5 /\ ~HasNewer(pin.version, vs)
<1>1. ClassifyUnpinned(sum, vs) # "IN_SYNC" /\ ClassifyChanged(pin, sum, vs) # "IN_SYNC"
  BY DEF ClassifyUnpinned, ClassifyChanged, MatchesLatest
<1>2. pin.version > 0 /\ sum # None /\ sum = pin.md5
  BY <1>1 DEF Classify
<1>3. pin.version # 0
  BY <1>2
<1> QED BY <1>2, <1>3 DEF Classify

LEMMA InSyncIf ==
    ASSUME NEW pin, pin.version \in Nat, pin.version > 0, pin.md5 # None, NEW vs,
           ~HasNewer(pin.version, vs)
    PROVE  Classify(pin, pin.md5, vs) = "IN_SYNC"
BY DEF Classify

LEMMA TipInSync ==
    ASSUME NEW h \in Seq(Bytes), h # <<>>
    PROVE  Classify(Tip(h), Tip(h).md5, Versions(h)) = "IN_SYNC"
<1>1. Numbered(Versions(h)) /\ IsLatest(Tip(h), Versions(h)) /\ Tip(h).md5 # None
  BY VersionsNumbered, TipType, SumsAre
<1> QED BY <1>1, PinnedIsInSync

(* A pin without a checksum: the next sync notes it. *)
LEMMA TipPinOnly ==
    ASSUME NEW h \in Seq(Bytes), h # <<>>, NEW pin \in Pin, pin.version > 0, pin.md5 = None
    PROVE  Classify(pin, Tip(h).md5, Versions(h)) = "PIN_ONLY"
<1> DEFINE vs == Versions(h)
           sum == Tip(h).md5
<1>1. Numbered(vs) /\ IsLatest(Tip(h), vs) /\ sum # None /\ vs # {}
  BY VersionsNumbered, TipType, SumsAre DEF IsLatest
<1>2. Latest(vs) = Tip(h)
  BY <1>1, LatestIs
<1> HIDE DEF vs
<1>3. MatchesLatest(sum, vs)
  BY <1>1, <1>2 DEF MatchesLatest
<1> HIDE DEF sum
<1>4. ClassifyChanged(pin, sum, vs) = "PIN_ONLY"
  BY <1>3 DEF ClassifyChanged
<1>5. pin.version # 0 /\ pin.version \in Nat
  BY DEF Pin
<1>6. Classify(pin, sum, vs) = "PIN_ONLY"
  BY <1>1, <1>4, <1>5 DEF Classify
<1> QED BY <1>6 DEF vs, sum

(* A pin that is true of an entry, and no newer version shown: the latest. *)
LEMMA RightAndLast ==
    ASSUME NEW h \in Seq(Bytes), NEW vs, Reveals(vs, h), NEW pin \in Pin, pin.version > 0,
           NEW guessed, RightIn(h, pin, guessed), ~HasNewer(pin.version, vs)
    PROVE  /\ h # <<>> /\ pin.version = Len(h) /\ pin.md5 \in {None, Tip(h).md5}
           /\ ~HasNewer(pin.version, Versions(h))
<1>1. pin.version \in Nat /\ Len(h) \in Nat /\ pin.version <= Len(h)
  BY DEF Pin, RightIn
<1>2. h # <<>>
  BY <1>1
<1>3. Tip(h) \in vs /\ Tip(h).version = Len(h) /\ Tip(h).md5 = h[Len(h)]
  BY <1>2, TipType DEF Reveals, IsLatest
<1>4. ~(Len(h) > pin.version)
  BY <1>3 DEF HasNewer
<1>5. pin.version = Len(h)
  BY <1>1, <1>4
<1>6. \A v \in Versions(h) : v.version <= Len(h) /\ v.version \in Nat
  BY TipType DEF Versions
<1>7. ~HasNewer(pin.version, Versions(h))
  BY <1>1, <1>5, <1>6 DEF HasNewer
<1> QED BY <1>2, <1>3, <1>5, <1>7 DEF RightIn

-----------------------------------------------------------------------------
(* Pass 2, step by step: who is acted on, and who is not. *)
Untouched(e) == UNCHANGED <<local[e], remote[e], run.mem[e]>> /\ (e \in run.todo <=> e \in run'.todo)
Acts(e) ==
    \/ \E pin \in Pin : (Uploads(e, pin) \/ Settles(e, pin)) /\ Now(e)
    \/ \E bytes \in Bytes : Delivers(e, bytes)
Begins(e) == \E bytes \in Bytes, latest \in Pin : Opens(e, "receive", bytes, latest)

LEMMA ExecStep ==
    ASSUME TInv, Form, Working', ~At("scan"), ~At("scan")'
    PROVE  /\ Working /\ Flags /\ UNCHANGED <<run.sum, run.state>>
           /\ \/ Others /\ run' = run
              \/ Lists /\ At("exec")' /\ \A d \in Entries : Untouched(d)
              \/ \E e \in Entries : /\ Acts(e) /\ At("exec")' /\ e \notin run'.todo
                                    /\ \A d \in Entries \ {e} : Untouched(d)
              \/ \E e \in Entries : Begins(e) /\ \A d \in Entries \ {e} : Untouched(d)
<1>1. Working /\ Flags /\ ~Starts
  <2>1. ~Starts
    <3>1. ASSUME Starts PROVE At("scan")'
      <4>1. PICK cmd \in Bulk, force \in BOOLEAN, resolve \in Resolutions, blind \in BOOLEAN :
                run' = Started(cmd, force, resolve, blind)
        BY <3>1 DEF Starts
      <4> QED BY <4>1, StartedIs DEF TInv, TypeInv, At
    <3> QED BY <3>1
  <2> QED BY <2>1, WorkStep
<1>2. CASE Others
  BY <1>1, <1>2 DEF Others, vars, Edit, ForeignUpload, ForeignDelete
<1>3. CASE Lists
  <2>1. PICK kind \in Sorts : Listed(kind, OfSort(kind))
    BY <1>3 DEF Lists
  <2> DEFINE S == OfSort(kind)
  <2>2. run \in Run /\ remote \in [Entries -> Seq(Bytes)] /\ kind \in {"file", "wiki"}
    BY DEF TInv, TypeInv, Sorts
  <2>3. S \in SUBSET Entries /\ Listed(kind, S)
    BY <2>1 DEF OfSort, Entries
  <2> HIDE DEF S
  <2>4. UNCHANGED <<run.pc, run.mem, run.sum, run.state, run.todo>>
    BY <2>2, <2>3, ListedIs
  <2> QED BY <1>1, <1>3, <2>4 DEF Lists, Kept, Untouched, At
<1>4. ASSUME NEW e \in Entries, NEW pin \in Pin, Done(e, pin),
             \A d \in Entries \ {e} : UNCHANGED <<local[d], remote[d]>>
      PROVE  /\ UNCHANGED <<run.sum, run.state>> /\ At("exec")' /\ e \notin run'.todo
             /\ \A d \in Entries \ {e} : Untouched(d)
  <2>1. /\ run'.pc = "exec" /\ run'.todo = run.todo \ {e}
        /\ \A d \in Entries : d # e => run'.mem[d] = run.mem[d]
        /\ UNCHANGED <<run.sum, run.state>>
    BY <1>4, DoneIs DEF TInv, TypeInv
  <2> QED BY <1>4, <2>1 DEF Untouched, At
<1>5. ASSUME NEW e \in Entries, NEW pin \in Pin, Uploads(e, pin) \/ Settles(e, pin)
      PROVE  /\ Acts(e) /\ UNCHANGED <<run.sum, run.state>> /\ At("exec")' /\ e \notin run'.todo
             /\ \A d \in Entries \ {e} : Untouched(d)
  <2>1. Now(e)
    <3>1. run.pc \in {"exec", "receive"}
      BY <1>1 DEF Working, At
    <3> QED BY <1>5, <3>1 DEF Uploads, Settles, Sends, Putting, At
  <2>2. Done(e, pin) /\ local' = local
    BY <1>5 DEF Uploads, Settles, Kept
  <2>3. \A d \in Entries \ {e} : UNCHANGED <<local[d], remote[d]>>
    <3>1. remote' = remote \/ (remote' = Grown(e, local[e]) /\ local[e] \in Bytes)
      BY <1>5 DEF Uploads, Settles, Kept, Uploaded, TInv, TypeInv, Sums
    <3> QED BY <2>2, <3>1, GrownIs DEF TInv, TypeInv
  <2> QED BY <1>4, <1>5, <2>1, <2>2, <2>3 DEF Acts
<1>6. ASSUME NEW e \in Entries, NEW bytes \in Bytes, Delivers(e, bytes)
      PROVE  /\ Acts(e) /\ UNCHANGED <<run.sum, run.state>> /\ At("exec")' /\ e \notin run'.todo
             /\ \A d \in Entries \ {e} : Untouched(d)
  <2> DEFINE pin == IF ToLatest(e) THEN LatestPin(e, bytes) ELSE run.mem[e]
  <2>1. Done(e, pin) /\ remote' = remote /\ local' = [local EXCEPT ![e] = bytes]
    BY <1>6 DEF Delivers
  <2>2. pin \in Pin
    <3>1. run.latest[e] \in Pin /\ run.mem[e] \in Pin /\ bytes \in Sums
      BY SumsAre DEF TInv, TypeInv, Run
    <3> QED BY <3>1 DEF LatestPin, Pin
  <2> HIDE DEF pin
  <2>3. \A d \in Entries \ {e} : UNCHANGED <<local[d], remote[d]>>
    BY <2>1 DEF TInv, TypeInv
  <2> QED BY <1>4, <1>6, <2>1, <2>2, <2>3 DEF Acts
<1>7. ASSUME NEW e \in Entries, NEW pc \in {"receive", "getting"}, NEW bytes \in Bytes,
             NEW latest \in Pin, Opens(e, pc, bytes, latest)
      PROVE  Begins(e) /\ UNCHANGED <<run.sum, run.state>> /\ \A d \in Entries \ {e} : Untouched(d)
  <2>1. /\ run' = MovedTo(e, pc, bytes, latest) /\ remote' = remote
        /\ local' = [local EXCEPT ![e] = Partial]
    BY <1>7 DEF Opens
  <2>2. run'.pc = pc /\ UNCHANGED <<run.sum, run.state, run.mem, run.todo>>
    BY <2>1, MovedIs, SumsAre DEF TInv, TypeInv
  <2>3. pc = "receive"
    BY <2>2 DEF Working
  <2> QED BY <1>7, <2>1, <2>2, <2>3 DEF Begins, Untouched, TInv, TypeInv
<1>8. CASE Quit
  <2>1. run'.pc = "idle"
    BY <1>8, IdleIs DEF Quit
  <2> QED BY <2>1 DEF Working
<1>9. CASE OpensFile \/ \E e \in Entries : Tracks(e)
  <2>1. CASE OpensFile
    BY <1>1, <2>1 DEF OpensFile, Working, At
  <2>2. CASE \E e \in Entries : Tracks(e)
    BY <1>1, <2>2 DEF Tracks, Working, At
  <2> QED BY <1>9, <2>1, <2>2
<1>10. CASE Proceeds \/ \E e \in Entries : Scans(e)
  BY <1>10 DEF Proceeds, Proceed, Scans, ScansBlind, ScansFile, ScansWiki
<1>11. CASE Stops \/ Dies \/ Saves \/ \E e \in Entries : UploadsLost(e) \/ Removes(e)
  BY <1>8, <1>11 DEF Stops, Dies, Crash, Saves, UploadsLost, Removes
<1> QED BY <1>1, <1>2, <1>3, <1>5, <1>6, <1>7, <1>9, <1>10, <1>11 DEF Form, Scans

(* Nothing is ever deleted from OSF. *)
LEMMA NoDeletes ==
    ASSUME MaxDeletes = 0
    PROVE  Spec => [](deletes = 0)
<1>1. Init => deletes = 0
  BY DEF Init
<1>2. ASSUME TInv, deletes = 0, Form  PROVE deletes' = 0
  <2>1. CASE Others
    BY <1>2, <2>1 DEF Others, vars, counters, Edit, ForeignUpload, ForeignDelete
  <2>2. CASE ~Others
    BY <1>2, <2>2, DeletesSame
  <2> QED BY <2>1, <2>2
<1>3. TInv /\ deletes = 0 /\ [Next]_vars => (deletes = 0)'
  BY <1>2, StepTypes
<1> QED BY <1>1, <1>3, AlwaysTyped, PTL DEF Spec

LEMMA RemoteStill ==
    ASSUME ~ForeignOverlap, TInv, Form, Working, NEW e \in Entries, remote'[e] # remote[e]
    PROVE  Now(e) /\ Plan(e) = "push"
<1>1. ~At("idle") /\ ~At("put")
  BY DEF Working, At
<1>2. ~ForeignUpload /\ ~ForeignDelete
  BY <1>1 DEF ForeignUpload, ForeignDelete
<1>3. PICK d \in Entries : Sends(d) /\ local[d] \in Bytes /\ remote' = Grown(d, local[d])
  BY <1>2, RemoteStep
<1>4. d = e
  BY <1>3, GrownIs DEF TInv, TypeInv
<1> QED BY <1>1, <1>3, <1>4 DEF Sends, Putting

(* The scan ends as pass 2 begins. *)
LEMMA ScanLeads ==
    ASSUME TInv, Form, At("scan"), Working', ~At("scan")'
    PROVE  Proceeds
<1>1. ASSUME ~Proceeds PROVE run'.pc \in {"scan", "idle"}
  <2>1. CASE Others
    BY <2>1 DEF Others, vars, Edit, ForeignUpload, ForeignDelete, At
  <2>2. CASE Lists
    <3>1. PICK kind \in Sorts : Listed(kind, OfSort(kind))
      BY <2>2 DEF Lists
    <3> DEFINE S == OfSort(kind)
    <3>2. run \in Run /\ remote \in [Entries -> Seq(Bytes)] /\ kind \in {"file", "wiki"}
      BY DEF TInv, TypeInv, Sorts
    <3>3. S \in SUBSET Entries /\ Listed(kind, S)
      BY <3>1 DEF OfSort, Entries
    <3> HIDE DEF S
    <3> QED BY <3>2, <3>3, ListedIs DEF At
  <2>3. ASSUME NEW d \in Entries, Scans(d) PROVE run'.pc = "scan"
    <3>1. \E state \in States, latest \in Pin : Classified(d, state, latest)
      BY <2>3, ScanClassifies DEF Scans
    <3> QED BY <3>1, ClassifiedIs DEF At, TInv, TypeInv
  <2>4. CASE Quit
    BY <2>4, IdleIs DEF Quit
  <2>5. CASE Stops \/ Dies \/ \E d \in Entries : UploadsLost(d)
    BY <2>4, <2>5 DEF Stops, Dies, Crash, UploadsLost
  <2> QED BY <1>1, <2>1, <2>2, <2>3, <2>4, <2>5
          DEF Form, Scans, Starts, OpensFile, Saves, Removes, Uploads, Settles, Sends, Tracks,
              Delivers, Opens, Now, Putting, At
<1> QED BY <1>1 DEF Working, At

Agree ==
    Working /\ ~At("scan") /\ ~run.blind =>
        \A e \in Scope(run.cmd) : run.state[e] = "IN_SYNC" => Tip(remote[e]).md5 = run.sum[e]

LEMMA AgreeStep ==
    ASSUME ~ForeignOverlap, deletes = 0, TInv, Current, Truth, Agree, Form
    PROVE  Agree'
<1> SUFFICES ASSUME Working', ~At("scan")', ~run'.blind,
                    NEW e \in Scope(run'.cmd), run'.state[e] = "IN_SYNC"
             PROVE  Tip(remote'[e]).md5 = run'.sum[e]
  BY DEF Agree
<1>1. Scope(run'.cmd) \subseteq Entries
  BY ScopeIs
<1>2. CASE At("scan")
  <2> DEFINE todo == {d \in Scope(run.cmd) : Plan(d) # "none"}
  <2>1. Proceeds
    BY <1>2, ScanLeads
  <2>2. run' = [run EXCEPT !.pc = "exec", !.todo = todo] /\ run.todo = {} /\ remote' = remote
    BY <2>1 DEF Proceeds, Proceed
  <2> HIDE DEF todo
  <2>3. UNCHANGED <<run.cmd, run.blind, run.sum, run.state>>
    BY <2>2 DEF TInv, TypeInv, Run
  <2>4. e \in Pending /\ Working
    BY <1>2, <2>2, <2>3, PendingIs DEF Pending
  <2>5. PICK vs : /\ Reveals(vs, remote[e])
                  /\ Classify(run.mem[e], run.sum[e], vs) = "IN_SYNC"
    BY <2>3, <2>4 DEF Current, Judged
  <2>6. run.mem[e] \in Pin /\ run.mem[e].version \in Nat /\ remote[e] \in Seq(Bytes)
        /\ RightIn(remote[e], run.mem[e], Guessed(e))
    BY <1>1 DEF TInv, TypeInv, Run, Pin, Truth
  <2>7. run.mem[e].version > 0 /\ run.sum[e] # None /\ run.sum[e] = run.mem[e].md5
        /\ ~HasNewer(run.mem[e].version, vs)
    BY <2>5, <2>6, InSyncSays
  <2>8. run.mem[e].md5 \in {None, Tip(remote[e]).md5}
    BY <2>5, <2>6, <2>7, RightAndLast
  <2> QED BY <2>2, <2>3, <2>7, <2>8
<1>3. CASE ~At("scan")
  <2>1. Working /\ Flags /\ UNCHANGED <<run.sum, run.state>>
    BY <1>3, ExecStep
  <2>2. Tip(remote[e]).md5 = run.sum[e] /\ run.state[e] = "IN_SYNC"
    BY <1>3, <2>1 DEF Agree, Flags
  <2>3. Plan(e) # "push"
    <3>1. run.cmd \in Bulk
      BY <2>1 DEF Working
    <3> QED BY <2>2, <3>1 DEF Plan, Decision, SyncDecision, PushDecision, PullDecision, Bulk
  <2>4. remote'[e] = remote[e]
    BY <1>1, <2>1, <2>3, RemoteStill
  <2> QED BY <2>1, <2>2, <2>4
<1> QED BY <1>2, <1>3

(* README.md:744: while nobody else uploads during a run, and nothing is   *)
(* deleted from OSF, an entry the scan found IN_SYNC is and stays, until   *)
(* the run is over, the latest version on OSF.                             *)
THEOREM InSyncMeansSame ==
    ASSUME ~ForeignOverlap, MaxDeletes = 0, Conflicts \subseteq {"skip", "overwrite"},
           Wikis = {} \/ ~EditsOverlap
    PROVE  Spec => []InSyncIsSame
<1>1. Init => Agree
  BY IdleIs DEF Init, Agree, Working
<1>2. TInv /\ deletes = 0 /\ Current /\ Truth /\ Agree /\ [Next]_vars => Agree'
  BY AgreeStep, StepTypes
<1>3. Agree => InSyncIsSame
  BY DEF Agree, InSyncIsSame, Working, At
<1>4. Spec => []Truth
  BY AlwaysTrue
<1> QED BY <1>1, <1>2, <1>3, <1>4, NoDeletes, AlwaysTyped, AlwaysCurrent, PTL DEF Spec

-----------------------------------------------------------------------------
(* How a sync has left an entry it is done with. *)
Rests(pin, sum, h) ==
    \/ Classify(pin, sum, Versions(h)) = "IN_SYNC"
    \/ Classify(pin, sum, Versions(h)) = "PIN_ONLY" /\ pin.md5 = None
    \/ sum = None /\ h = <<>>

(* A page whose number was guessed too low is fetched once more. *)
Stale(pin, sum, h) == Classify(pin, sum, Versions(h)) = "REMOTE_NEWER" /\ Tip(h).md5 = sum

Settled(e) ==
    \/ Rests(run.mem[e], local[e], remote[e])
    \/ Guessed(e) /\ Stale(run.mem[e], local[e], remote[e])
    \/ Plan(e) = "report"
Fetched(e) ==
    /\ Plan(e) \in {"pull", "restore"} /\ Revision(e) \in DOMAIN remote[e]
    /\ run.bytes = remote[e][Revision(e)]

Syncing == Working /\ run.cmd = "sync" /\ ~run.blind
Settling ==
    Syncing /\ ~At("scan") =>
        /\ \A e \in Entries \ run.todo : Settled(e)
        /\ \A e \in Entries : Loading(e) => Fetched(e)

(* What a sync need not touch is settled already. *)
LEMMA NothingToDo ==
    ASSUME TInv, NEW e \in Entries, Judged(e), RightIn(remote[e], run.mem[e], Guessed(e)), run.cmd = "sync",
           Plan(e) = "none"
    PROVE  Rests(run.mem[e], run.sum[e], remote[e])
<1> DEFINE h == remote[e]
           pin == run.mem[e]
           sum == run.sum[e]
           state == run.state[e]
<1>1. PICK vs : Reveals(vs, h) /\ state = Classify(pin, sum, vs)
  BY DEF Judged
<1>2. h \in Seq(Bytes) /\ pin \in Pin /\ pin.version \in Nat /\ state \in States
  BY DEF TInv, TypeInv, Run, Pin
<1>3. SyncDecision(state, sum # None, run.force, run.resolve) = "none"
  BY DEF Plan, Decision
<1>4. state = "IN_SYNC" \/ (state = "NOT_PUSHED" /\ sum = None)
  BY <1>2, <1>3 DEF SyncDecision, Modified, ResolveDecision, States
<1>5. CASE state = "IN_SYNC"
  <2>1. pin.version > 0 /\ sum # None /\ sum = pin.md5 /\ ~HasNewer(pin.version, vs)
    BY <1>1, <1>2, <1>5, InSyncSays
  <2>2. ~HasNewer(pin.version, Versions(h))
    BY <1>1, <1>2, <2>1, RightAndLast
  <2> HIDE DEF pin, sum, h
  <2>3. Classify(pin, sum, Versions(h)) = "IN_SYNC"
    BY <1>2, <2>1, <2>2, InSyncIf
  <2>4. Rests(pin, sum, h)
    BY <2>3 DEF Rests
  <2> QED BY <2>4 DEF pin, sum, h
<1>6. CASE state = "NOT_PUSHED" /\ sum = None
  <2>1. vs = {}
    BY <1>1, <1>2, <1>6, NotPushed
  <2>2. h = <<>>
    BY <2>1, <1>1 DEF Reveals, IsLatest
  <2> QED BY <1>6, <2>2 DEF Rests
<1> QED BY <1>4, <1>5, <1>6

(* A pin of the latest version beside its content is settled, and one      *)
(* without a checksum is noted by the next sync.                           *)
LEMMA TipRests ==
    ASSUME NEW h \in Seq(Bytes), h # <<>>, NEW pin \in Pin, pin.version > 0,
           pin = Tip(h) \/ pin.md5 = None
    PROVE  Rests(pin, Tip(h).md5, h)
BY TipInSync, TipPinOnly DEF Rests

LEMMA OlderIsStale ==
    ASSUME NEW h \in Seq(Bytes), h # <<>>, NEW pin \in Pin, pin.version > 0,
           pin.version < Len(h), pin.md5 = Tip(h).md5
    PROVE  Stale(pin, Tip(h).md5, h)
<1> DEFINE vs == Versions(h)
           sum == Tip(h).md5
<1>1. sum # None /\ Tip(h) \in vs /\ Tip(h).version = Len(h)
  BY VersionsNumbered, TipType, SumsAre DEF IsLatest
<1>2. HasNewer(pin.version, vs)
  BY <1>1 DEF HasNewer, Pin
<1>3. pin.version # 0 /\ pin.md5 = sum
  BY DEF Pin
<1> HIDE DEF vs, sum
<1>4. Classify(pin, sum, vs) = "REMOTE_NEWER"
  BY <1>1, <1>2, <1>3 DEF Classify
<1> QED BY <1>4 DEF Stale, vs, sum

LEMMA TipIs ==
    ASSUME NEW h \in Seq(Bytes), h # <<>>, NEW pin \in Pin, pin.version = Len(h), pin.md5 = h[Len(h)]
    PROVE  pin = Tip(h)
BY DEF Tip, Pin

(* The version a download is after is the latest, and so is what it pins. *)
LEMMA FetchRests ==
    ASSUME TInv, NEW e \in Entries, Judged(e), RightIn(remote[e], run.mem[e], Guessed(e)), run.cmd = "sync",
           Plan(e) \in {"pull", "restore"}, Revision(e) \in DOMAIN remote[e],
           NEW bytes, bytes = remote[e][Revision(e)], Verified(e, bytes)
    PROVE  Rests(IF ToLatest(e) THEN LatestPin(e, bytes) ELSE run.mem[e], bytes, remote[e])
<1> DEFINE h == remote[e]
           pin == run.mem[e]
           sum == run.sum[e]
           state == run.state[e]
<1>1. PICK vs : Reveals(vs, h) /\ state = Classify(pin, sum, vs)
  BY DEF Judged
<1>2. h \in Seq(Bytes) /\ pin \in Pin /\ pin.version \in Nat /\ state \in States
  BY DEF TInv, TypeInv, Run, Pin
<1>3. h # <<>>
  BY <1>2, TipType
<1>4. /\ Tip(h) \in Pin /\ Tip(h).version = Len(h) /\ Len(h) > 0 /\ Tip(h).md5 = h[Len(h)]
      /\ Tip(h).md5 # None /\ Len(h) \in Nat
  BY <1>2, <1>3, TipType, SumsAre
<1>5. CASE ToLatest(e)
  <2>1. bytes = Tip(h).md5
    BY <1>4, <1>5 DEF Revision
  <2>2. LatestPin(e, bytes) = Tip(h)
    BY <1>4 DEF LatestPin, Judged
  <2> HIDE DEF h
  <2>3. Rests(Tip(h), Tip(h).md5, h)
    BY <1>2, <1>3, <1>4, TipRests
  <2> QED BY <1>5, <2>1, <2>2, <2>3 DEF h
<1>6. CASE ~ToLatest(e)
  <2>1. pin.version > 0 /\ Plan(e) = "restore" /\ bytes = h[pin.version] /\ pin.md5 \in {None, bytes}
    BY <1>2, <1>6 DEF ToLatest, Revision, Verified
  <2>2. state = "AHEAD_OF_MANIFEST"
    <3>1. SyncDecision(state, sum # None, run.force, run.resolve) = "restore"
      BY <2>1 DEF Plan, Decision
    <3> QED BY <1>2, <3>1 DEF SyncDecision, Modified, ResolveDecision, States
  <2>3. ~HasNewer(pin.version, vs)
    BY <1>1, <1>2, <2>1, <2>2, Ahead
  <2>4. pin.version = Len(h)
    BY <1>1, <1>2, <2>1, <2>3, RightAndLast
  <2>5. pin = Tip(h) \/ pin.md5 = None
    BY <1>2, <1>3, <2>1, <2>4, TipIs
  <2>6. bytes = Tip(h).md5
    BY <1>4, <2>1, <2>4
  <2> HIDE DEF h, pin
  <2>7. Rests(pin, Tip(h).md5, h)
    BY <1>2, <1>3, <2>1, <2>5, TipRests
  <2> QED BY <1>6, <2>6, <2>7 DEF h, pin
<1> QED BY <1>5, <1>6

(* A sync that fetches finds the entry on OSF: a pin that is true cannot    *)
(* ask for what is not there.                                              *)
LEMMA FetchFound ==
    ASSUME TInv, NEW e \in Entries, Judged(e), RightIn(remote[e], run.mem[e], Guessed(e)), run.cmd = "sync",
           Plan(e) \in {"pull", "restore"}
    PROVE  remote[e] # <<>>
<1> SUFFICES ASSUME remote[e] = <<>> PROVE FALSE OBVIOUS
<1> DEFINE pin == run.mem[e]
           sum == run.sum[e]
           state == run.state[e]
<1>1. PICK vs : Reveals(vs, remote[e]) /\ state = Classify(pin, sum, vs)
  BY DEF Judged
<1>2. vs = {} /\ pin \in Pin /\ pin.version \in Nat /\ state \in States
  BY <1>1 DEF Reveals, TInv, TypeInv, Run, Pin
<1>3. pin.version = 0
  BY <1>2 DEF RightIn
<1>4. ClassifyUnpinned(sum, vs) = "NOT_PUSHED"
  BY <1>2 DEF ClassifyUnpinned, MatchesLatest, MatchesAny
<1>5. state = "NOT_PUSHED"
  BY <1>1, <1>3, <1>4 DEF Classify
<1>6. SyncDecision(state, sum # None, run.force, run.resolve) \in {"pull", "restore"}
  BY DEF Plan, Decision
<1> QED BY <1>5, <1>6 DEF SyncDecision

(* PIN_ONLY: the content is the latest version's. *)
LEMMA PinOnlySays ==
    ASSUME NEW pin, pin.version \in Nat, NEW sum, NEW vs, Classify(pin, sum, vs) = "PIN_ONLY"
    PROVE  MatchesLatest(sum, vs)
<1>1. ClassifyUnpinned(sum, vs) = "PIN_ONLY" \/ ClassifyChanged(pin, sum, vs) = "PIN_ONLY"
  <2>1. CASE pin.version = 0
    BY <2>1 DEF Classify
  <2>2. CASE pin.version > 0
    <3>1. pin.version # 0
      BY <2>2
    <3> QED BY <2>2, <3>1 DEF Classify
  <2> QED BY <2>1, <2>2
<1> QED BY <1>1 DEF ClassifyUnpinned, ClassifyChanged, MatchesLatest

LEMMA ActSettles ==
    ASSUME TInv, NEW e \in Entries, Acts(e), Syncing, Judged(e),
           RightIn(remote[e], run.mem[e], Guessed(e)),
           At("exec") => local[e] = run.sum[e], Loading(e) => Fetched(e),
           Flags, UNCHANGED <<run.sum, run.state>>
    PROVE  (Settled(e))'
<1> DEFINE h == remote[e]
<1>1. h \in Seq(Bytes) /\ run.mem[e] \in Pin /\ run.mem[e].version \in Nat /\ run.cmd = "sync"
      /\ Tip(h) \in Pin /\ Tip(h).version = Len(h) /\ Len(h) \in Nat
      /\ (h # <<>> => Len(h) > 0)
  <2>1. h \in Seq(Bytes) /\ run.mem[e] \in Pin /\ run.mem[e].version \in Nat /\ run.cmd = "sync"
    BY DEF TInv, TypeInv, Run, Pin, Syncing
  <2> QED BY <2>1, TipType
<1>2. (Plan(e))' = Plan(e)
  BY PlanSame
<1>3. ASSUME NEW pin \in Pin, Uploads(e, pin), Now(e)
      PROVE  (Settled(e))'
  <2>1. Done(e, pin) /\ local' = local /\ local[e] # None /\ remote' = Grown(e, local[e])
    BY <1>3 DEF Uploads, Uploaded
  <2>2. local[e] \in Bytes /\ local[e] = run.sum[e]
    BY <1>3, <2>1 DEF Now, TInv, TypeInv, Sums
  <2>3. /\ remote'[e] # <<>> /\ remote'[e] \in Seq(Bytes)
        /\ Tip(remote'[e]) = [version |-> Len(h) + 1, md5 |-> local[e]]
    BY <2>1, <2>2, GrownIs DEF TInv, TypeInv
  <2>4. run'.mem[e] = pin
    BY <2>1, DoneIs DEF TInv, TypeInv
  <2>5. Tip(remote'[e]).md5 = local'[e]
    BY <2>1, <2>3
  <2>6. CASE pin.version > 0 /\ (pin = Tip(remote'[e]) \/ pin.md5 = None)
    <3>1. Rests(pin, Tip(remote'[e]).md5, remote'[e])
      BY <2>3, <2>6, TipRests
    <3> QED BY <2>4, <2>5, <3>1 DEF Settled
  <2>7. CASE /\ e \in Wikis /\ unreadable' = unreadable + 1
             /\ pin = [version |-> run.mem[e].version + 1, md5 |-> run.sum[e]]
    <3> DEFINE n == run.mem[e].version
               g == remote'[e]
    <3>1. n <= Len(h) /\ n \in Nat /\ Len(g) = Len(h) + 1
      <4>1. n > 0 => n <= Len(h)
        BY DEF RightIn
      <4>2. n \in Nat /\ Len(h) \in Nat
        BY <1>1
      <4>3. Len(g) = Len(h) + 1
        BY <2>1, <2>2, GrownIs DEF TInv, TypeInv
      <4> HIDE DEF n, g
      <4> QED BY <4>1, <4>2, <4>3
    <3>2. pin.version = n + 1 /\ pin.md5 = local[e]
      BY <2>2, <2>7 DEF Pin
    <3>3. g # <<>> /\ g \in Seq(Bytes) /\ Tip(g).md5 = local[e] /\ Tip(g) = [version |-> Len(h) + 1, md5 |-> local[e]]
      BY <2>3
    <3>4. CASE n = Len(h)
      BY <2>2, <2>3, <2>6, <2>7, <3>4
    <3>5. CASE n # Len(h)
      <4>1. pin.version > 0 /\ pin.version < Len(g)
        BY <1>1, <3>1, <3>2, <3>5
      <4> HIDE DEF g
      <4>2. Stale(pin, Tip(g).md5, g)
        BY <3>2, <3>3, <4>1, OlderIsStale
      <4>3. (Guessed(e))'
        BY <2>7 DEF Guessed, TInv, TypeInv
      <4> QED BY <2>4, <2>5, <4>2, <4>3 DEF Settled, g
    <3> QED BY <3>4, <3>5
  <2>8. ~Putting(e)
    BY <1>3 DEF Putting, Now, At
  <2>9. \/ pin.version > 0 /\ (pin = Tip(remote'[e]) \/ pin.md5 = None)
        \/ /\ e \in Wikis /\ unreadable' = unreadable + 1
           /\ pin = [version |-> run.mem[e].version + 1, md5 |-> run.sum[e]]
    BY <1>1, <1>3, <2>2, <2>3, <2>8 DEF Uploads
  <2> QED BY <2>6, <2>7, <2>9
<1>4. ASSUME NEW pin \in Pin, Settles(e, pin), Now(e)
      PROVE  (Settled(e))'
  <2>1. Done(e, pin) /\ UNCHANGED <<local, remote>> /\ local[e] = run.sum[e]
        /\ ~At("put") /\ ~At("track")
    BY <1>4 DEF Settles, Kept, Now, At
  <2>2. run'.mem[e] = pin
    BY <2>1, DoneIs DEF TInv, TypeInv
  <2>3. CASE Plan(e) = "pin" /\ pin = run.latest[e]
    <3>1. PICK vs : Reveals(vs, h) /\ run.state[e] = Classify(run.mem[e], run.sum[e], vs)
      BY DEF Judged
    <3>2. SyncDecision(run.state[e], run.sum[e] # None, run.force, run.resolve) = "pin"
      BY <1>1, <2>3 DEF Plan, Decision
    <3>3. run.state[e] = "PIN_ONLY"
      <4>1. run.state[e] \in States
        BY DEF TInv, TypeInv, Run
      <4> QED BY <3>2, <4>1 DEF SyncDecision, Modified, ResolveDecision, States
    <3>4. MatchesLatest(run.sum[e], vs)
      BY <1>1, <3>1, <3>3, PinOnlySays
    <3>5. Latest(vs) = Tip(h) /\ h # <<>> /\ run.sum[e] = Tip(h).md5
      BY <1>1, <3>1, <3>4, RevealsLatest DEF MatchesLatest, Reveals
    <3>6. pin = Tip(h)
      BY <2>3 DEF Judged
    <3>7. Rests(pin, Tip(h).md5, h)
      BY <1>1, <3>5, <3>6, TipRests
    <3> QED BY <2>1, <2>2, <3>5, <3>7 DEF Settled
  <2>4. CASE Plan(e) = "report"
    BY <1>2, <2>4 DEF Settled
  <2>5. CASE Plan(e) \in {"pull", "restore"} /\ (run.listing[e].version = 0 \/ ~IsListed(e))
    <3>1. h # <<>>
      BY <1>1, <2>5, FetchFound
    <3>2. IsListed(e) /\ run.listing[e] = Tip(h)
      BY DEF Judged
    <3> QED BY <1>1, <2>5, <3>1, <3>2
  <2> QED BY <1>4, <2>1, <2>3, <2>4, <2>5 DEF Settles, Putting
<1>5. ASSUME NEW bytes \in Bytes, Delivers(e, bytes)
      PROVE  (Settled(e))'
  <2> DEFINE pin == IF ToLatest(e) THEN LatestPin(e, bytes) ELSE run.mem[e]
  <2>1. Done(e, pin) /\ local' = [local EXCEPT ![e] = bytes] /\ remote' = remote /\ Verified(e, bytes)
    BY <1>5 DEF Delivers
  <2>2. Plan(e) \in {"pull", "restore"} /\ Revision(e) \in DOMAIN h /\ bytes = h[Revision(e)]
    <3>1. CASE Loading(e) /\ bytes = run.bytes
      BY <3>1 DEF Fetched
    <3>2. CASE Plan(e) \in {"pull", "restore"} /\ Served(e) /\ bytes = h[Revision(e)]
      BY <3>2 DEF Served
    <3> QED BY <1>5, <3>1, <3>2 DEF Delivers, Loading
  <2>3. Rests(pin, bytes, h)
    BY <1>1, <2>1, <2>2, FetchRests
  <2>4. pin \in Pin
    <3>1. run.latest[e] \in Pin /\ bytes \in Sums
      BY SumsAre DEF TInv, TypeInv, Run
    <3> QED BY <1>1, <3>1 DEF LatestPin, Pin
  <2> HIDE DEF pin
  <2>5. run'.mem[e] = pin
    BY <2>1, <2>4, DoneIs DEF TInv, TypeInv
  <2>6. local'[e] = bytes
    BY <2>1 DEF TInv, TypeInv
  <2> QED BY <2>1, <2>3, <2>5, <2>6 DEF Settled
<1> QED BY <1>3, <1>4, <1>5 DEF Acts

LEMMA SettlingStep ==
    ASSUME ~EditsOverlap, ~ForeignOverlap, deletes = 0, TInv, Read, Current, Truth, Settling, Form
    PROVE  Settling'
<1> SUFFICES ASSUME Syncing', ~At("scan")'
             PROVE  /\ \A e \in Entries \ run'.todo : (Settled(e))'
                    /\ \A e \in Entries : (Loading(e))' => (Fetched(e))'
  BY DEF Settling
<1>1. Working'
  BY DEF Syncing
<1>2. \A e \in Entries : RightIn(remote[e], run.mem[e], Guessed(e))
  BY DEF Truth
<1>3. CASE At("scan")
  <2> DEFINE todo == {d \in Scope(run.cmd) : Plan(d) # "none"}
  <2>1. Proceeds
    BY <1>1, <1>3, ScanLeads
  <2>2. run' = [run EXCEPT !.pc = "exec", !.todo = todo] /\ run.todo = {} /\ UNCHANGED <<local, remote>>
    BY <2>1 DEF Proceeds, Proceed
  <2> HIDE DEF todo
  <2>3. run'.pc = "exec" /\ run'.todo = todo
        /\ UNCHANGED <<run.cmd, run.force, run.resolve, run.blind, run.sum, run.state, run.mem>>
    BY <2>2 DEF TInv, TypeInv, Run
  <2>4. Working /\ run.cmd = "sync" /\ ~run.blind /\ Scope(run.cmd) = Entries /\ Pending = Entries
    BY <1>3, <2>2, <2>3, PendingIs DEF Syncing, Scope, Pending
  <2>5. ASSUME NEW e \in Entries \ run'.todo
        PROVE  (Settled(e))'
    <3>1. Plan(e) = "none"
      BY <2>3, <2>4, <2>5 DEF todo
    <3>2. Judged(e) /\ local[e] = run.sum[e]
      BY <1>3, <2>4 DEF Current, Read, Loading, At
    <3>3. Rests(run.mem[e], run.sum[e], remote[e])
      BY <1>2, <2>4, <3>1, <3>2, NothingToDo
    <3> QED BY <2>2, <2>3, <3>2, <3>3 DEF Settled
  <2>6. \A e \in Entries : ~(Loading(e))'
    BY <2>3 DEF Loading, At
  <2> QED BY <2>5, <2>6
<1>4. CASE ~At("scan")
  <2>1. /\ Working /\ Flags /\ UNCHANGED <<run.sum, run.state>>
        /\ \/ Others /\ run' = run
           \/ Lists /\ At("exec")' /\ \A d \in Entries : Untouched(d)
           \/ \E e \in Entries : /\ Acts(e) /\ At("exec")' /\ e \notin run'.todo
                                 /\ \A d \in Entries \ {e} : Untouched(d)
           \/ \E e \in Entries : Begins(e) /\ \A d \in Entries \ {e} : Untouched(d)
    BY <1>1, <1>4, ExecStep
  <2>2. Syncing /\ ~At("idle")
    BY <2>1 DEF Syncing, Flags, Working, At
  <2>3. /\ \A e \in Entries \ run.todo : Settled(e)
        /\ \A e \in Entries : Loading(e) => Fetched(e)
    BY <1>4, <2>2 DEF Settling
  <2>4. \A e \in Entries : (Plan(e))' = Plan(e)
    BY <2>1, PlanSame
  <2>5. ASSUME NEW d \in Entries, d \notin run'.todo, Untouched(d)
        PROVE  (Settled(d))'
    BY <2>3, <2>4, <2>5, GuessedStays DEF Settled, Untouched
  <2>6. CASE Others /\ run' = run
    <3>1. UNCHANGED <<local, remote>>
      BY <2>2, <2>6 DEF Others, vars, Edit, ForeignUpload, ForeignDelete
    <3>2. \A d \in Entries : Untouched(d)
      BY <2>6, <3>1 DEF Untouched
    <3>3. \A d \in Entries : (Loading(d))' => (Fetched(d))'
      BY <2>3, <2>4, <2>6, <3>1 DEF Loading, Fetched, Revision, ToLatest, At
    <3> QED BY <2>5, <3>2, <3>3
  <2>7. CASE Lists /\ At("exec")' /\ \A d \in Entries : Untouched(d)
    BY <2>5, <2>7 DEF Loading, At
  <2>8. ASSUME NEW e \in Entries, Acts(e), At("exec")', \A d \in Entries \ {e} : Untouched(d)
        PROVE  /\ \A d \in Entries \ run'.todo : (Settled(d))'
               /\ \A d \in Entries : (Loading(d))' => (Fetched(d))'
    <3>1. e \in Pending
      BY <2>8, PendingIs DEF Acts, Delivers, Loading
    <3>2. Judged(e)
      BY <2>2, <3>1 DEF Current, Syncing
    <3>3. At("exec") => local[e] = run.sum[e]
      BY <2>1, <3>1 DEF Read, Loading, At
    <3>4. (Settled(e))'
      BY <1>2, <2>1, <2>2, <2>3, <2>8, <3>2, <3>3, ActSettles
    <3>5. \A d \in Entries : ~(Loading(d))'
      BY <2>8 DEF Loading, At
    <3> QED BY <2>5, <2>8, <3>4, <3>5
  <2>9. ASSUME NEW e \in Entries, Begins(e), \A d \in Entries \ {e} : Untouched(d)
        PROVE  /\ \A d \in Entries \ run'.todo : (Settled(d))'
               /\ \A d \in Entries : (Loading(d))' => (Fetched(d))'
    <3>1. PICK bytes \in Bytes, latest \in Pin : Opens(e, "receive", bytes, latest)
      BY <2>9 DEF Begins
    <3>2. /\ run' = MovedTo(e, "receive", bytes, latest) /\ remote' = remote
          /\ Now(e) /\ Plan(e) \in {"pull", "restore"} /\ Served(e) /\ bytes = remote[e][Revision(e)]
      BY <3>1 DEF Opens
    <3>3. run'.pc = "receive" /\ run'.bytes = bytes /\ UNCHANGED <<run.mem, run.todo>>
      BY <3>2, MovedIs, SumsAre DEF TInv, TypeInv
    <3>4. e \in run'.todo /\ FirstOf(e, run'.todo) /\ run'.todo \in SUBSET Entries
      BY <3>2, <3>3 DEF Now, FirstOf, TInv, TypeInv, Run
    <3>5. (Fetched(e))'
      BY <2>4, <3>2, <3>3 DEF Fetched, Revision, ToLatest, Served
    <3>6. \A d \in Entries : (Loading(d))' => d = e
      BY <3>4, FirstIsOne DEF Loading
    <3> QED BY <2>5, <2>9, <3>4, <3>5, <3>6
  <2> QED BY <2>1, <2>6, <2>7, <2>8, <2>9
<1> QED BY <1>3, <1>4

(* gate.go:65 "reconcile everything that has an unambiguous answer, report *)
(* what does not": while the user and others leave files and project       *)
(* alone, a sync that comes to its end has brought every entry into sync,  *)
(* but for those it reported, those absent on both sides, a checksum it    *)
(* could not read, which the next sync notes, and a page whose number it   *)
(* guessed too low, which the next sync fetches although it is there;      *)
(* failed calls and unreadable replies on the way notwithstanding.         *)
THEOREM SyncSettlesAll ==
    ASSUME ~EditsOverlap, ~ForeignOverlap, MaxDeletes = 0, Conflicts \subseteq {"skip", "overwrite"}
    PROVE  Spec => []SyncSettles
<1>1. Init => Settling
  BY IdleIs DEF Init, Settling, Syncing, Working
<1>2. TInv /\ deletes = 0 /\ Read /\ Current /\ Truth /\ Settling /\ [Next]_vars => Settling'
  BY SettlingStep, StepTypes
<1>3. Settling => SyncSettles
  <2> SUFFICES ASSUME Settling, At("exec"), run.todo = {}, run.cmd = "sync", ~run.blind,
                      NEW e \in Entries
               PROVE  LET state == Classify(run.mem[e], local[e], Versions(remote[e])) IN
                      \/ state = "IN_SYNC"
                      \/ state = "PIN_ONLY" /\ run.mem[e].md5 = None
                      \/ state = "REMOTE_NEWER" /\ Guessed(e) /\ Tip(remote[e]).md5 = local[e]
                      \/ local[e] = None /\ remote[e] = <<>>
                      \/ Plan(e) = "report"
    BY DEF SyncSettles
  <2>1. Syncing /\ ~At("scan") /\ e \in Entries \ run.todo
    BY DEF Syncing, Working, Bulk, At
  <2>2. Settled(e)
    BY <2>1 DEF Settling
  <2> QED BY <2>2 DEF Settled, Rests, Stale
<1>4. Spec => []Truth
  BY AlwaysTrue
<1>5. Spec => []Read /\ []Current
  BY AlwaysRead, AlwaysCurrent
<1> QED BY <1>1, <1>2, <1>3, <1>4, <1>5, NoDeletes, AlwaysTyped, PTL DEF Spec
=============================================================================
