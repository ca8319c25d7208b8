--------------------------- MODULE ManifestProofs ---------------------------
(***************************************************************************)
(* The manifest, and every copy of it a command holds, is pinned to what   *)
(* the servers have and names the records the archive made; for any number *)
(* of commands side by side, files, pages and initial manifests.           *)
(*                                                                         *)
(* A command's copy stays good while others move the servers because the   *)
(* servers only grow (Grows). What makes its save safe is that the copy    *)
(* keeps every record of the manifest it was loaded from (Keeps): a save   *)
(* that replaces exactly that manifest then loses nothing, and whatever it *)
(* lacks was put there by a save the command did not see (overlap).        *)
(***************************************************************************)
EXTENDS Migrate, FiniteSetTheorems, SequenceTheorems, TLAPS

ManifestFields == {"schema", "id", "defaults", "files", "wikis", "sets", "pages"}
SetFields == {"slug", "locals", "record", "version", "reviewed"}
CommandFields == {"cmd", "pc", "next", "m", "base", "path", "plan"}

Entries(m) == m.files \union m.wikis
UniqueSlugs(m) == \A d, e \in m.sets : d.slug = e.slug => d = e

(* The server sv has the version an entry is pinned to, in project q, or   *)
(* the pin is one of as: of a tracked file that was pushed elsewhere.      *)
Strayed(as, e) == <<e.local, e.pin>> \in as
Has(sv, as, q, e) == Strayed(as, e) \/ e.pin.version <= sv[q][e.remote]

(* What holds of a manifest in anybody's hands: entries that name their    *)
(* project are pinned to versions it has, entries that belong to no        *)
(* project are not pinned, and published datasets name records in ar.      *)
Formed(m) ==
    /\ DOMAIN m = ManifestFields /\ m.id \in Projects \union {None}
    /\ \A e \in Entries(m) : IsEntry(e)
Pinned(m, sv, as) ==
    \A e \in Entries(m) :
        /\ e.project # None => Has(sv, as, e.project, e)
        /\ e.project = None /\ m.id = None => Strayed(as, e) \/ e.pin.version = 0
Recorded(m, ar) ==
    \A d \in m.sets :
        /\ DOMAIN d = SetFields /\ d.record \in Nat /\ d.version \in Nat
        /\ d.record > 0 => /\ d.slug \in Slugs /\ d.record <= Len(ar[d.slug])
                           /\ d.version <= ar[d.slug][d.record]
Fine(m, sv, as, ar) == Formed(m) /\ Pinned(m, sv, as) /\ Recorded(m, ar)

(* The entries without a project of their own, in the manifest's. *)
PinnedAtHome(m, sv, as) ==
    m.id # None => \A e \in Entries(m) : e.project = None => Has(sv, as, m.id, e)

(* Every record of b is in m, at its version or a later one. *)
Keeps(b, m) ==
    \A d \in b.sets : d.record > 0 =>
        \E e \in m.sets : e.slug = d.slug /\ e.record = d.record /\ e.version >= d.version

(* Saving m would change the project of the manifest dk on disk. *)
Rehomes(dk, m) == dk # NoManifest /\ dk.id \notin {None, m.id}

(* What each command knows of the manifest it holds, by where it is. *)
Situated(r) ==
    /\ r.next \notin {"loaded", "exporting"}
    /\ r.pc = "created" \/ r.next = "created" => r.cmd \notin {"publish", "sync", "push"}
    /\ r.pc = "loaded" /\ r.base = NoManifest => r.m.id \in Projects
    /\ r.pc = "loaded" /\ r.cmd \in {"sync", "push"} => r.m.id # None
    /\ r.cmd = "publish" => r.path = "new"
    /\ r.cmd = "publish" /\ r.pc = "loaded" => r.m = r.base /\ UniqueSlugs(r.m)
    /\ r.cmd = "migrate guid" /\ r.pc = "exporting" => UniqueSlugs(r.m)
Held(r, dk, sv, as, ar, reh) ==
    /\ DOMAIN r = CommandFields
    /\ Fine(r.m, sv, as, ar)
    /\ reh \/ PinnedAtHome(r.m, sv, as) \/ Rehomes(dk, r.m)
    /\ r.base # NoManifest => Fine(r.base, sv, as, ar) /\ Keeps(r.base, r.m)
    /\ Situated(r)

OnDisk(dk, sv, as, ar, reh) ==
    dk # NoManifest => Fine(dk, sv, as, ar) /\ (reh \/ PinnedAtHome(dk, sv, as))
AsBefore(lg, sv, as, ar) ==
    lg # NoManifest => Fine(lg, sv, as, ar) /\ PinnedAtHome(lg, sv, as) /\ lg.sets = {}
Counted(sv, ar) ==
    sv \in [Projects -> [Names -> Nat]] /\ ar \in [Slugs -> Seq(Nat)]

Kept(dk, lg, pr, sv, as, ar, reh) ==
    /\ Counted(sv, ar) /\ reh \in BOOLEAN
    /\ OnDisk(dk, sv, as, ar, reh) /\ AsBefore(lg, sv, as, ar)
    /\ DOMAIN pr = Procs /\ \A p \in Procs : Held(pr[p], dk, sv, as, ar, reh)
IInv == Kept(disk, legacy, proc, server, astray, archive, rehomed)

-----------------------------------------------------------------------------
(* The server and the archive only grow.                                   *)

Grown(sv, as, ar, sv2, as2, ar2) ==
    /\ as \subseteq as2
    /\ \A q \in Projects, n \in Names : sv[q][n] <= sv2[q][n]
    /\ \A s \in Slugs : /\ Len(ar[s]) <= Len(ar2[s])
                        /\ \A i \in 1..Len(ar[s]) : ar[s][i] <= ar2[s][i]

LEMMA GrownRefl == \A sv, as, ar : Counted(sv, ar) => Grown(sv, as, ar, sv, as, ar)
<1> SUFFICES ASSUME NEW sv, NEW as, NEW ar, Counted(sv, ar) PROVE Grown(sv, as, ar, sv, as, ar)
    OBVIOUS
<1>1. \A q \in Projects, n \in Names : sv[q][n] \in Nat
    BY DEF Counted
<1>2. \A s \in Slugs : ar[s] \in Seq(Nat)
    BY DEF Counted
<1>3. \A s \in Slugs : Len(ar[s]) \in Nat /\ \A i \in 1..Len(ar[s]) : ar[s][i] \in Nat
    BY <1>2
<1> QED BY <1>1, <1>3 DEF Grown

LEMMA FineGrows ==
    ASSUME NEW m, NEW sv, NEW as, NEW ar, NEW sv2, NEW as2, NEW ar2,
           Counted(sv, ar), Counted(sv2, ar2), Grown(sv, as, ar, sv2, as2, ar2), Fine(m, sv, as, ar)
    PROVE  Fine(m, sv2, as2, ar2) /\ (PinnedAtHome(m, sv, as) => PinnedAtHome(m, sv2, as2))
<1>1. \A e \in Entries(m) :
        /\ e.remote \in Names /\ e.project \in Projects \union {None} /\ e.pin.version \in Nat
        /\ m.id \in Projects \union {None}
    BY DEF Fine, Formed, IsEntry
<1>2. \A q \in Projects, n \in Names : sv[q][n] \in Nat /\ sv2[q][n] \in Nat /\ sv[q][n] <= sv2[q][n]
    BY DEF Counted, Grown
<1>3. \A q \in Projects : \A e \in Entries(m) : Has(sv, as, q, e) => Has(sv2, as2, q, e)
  <2> TAKE q \in Projects
  <2> TAKE e \in Entries(m)
  <2> HAVE Has(sv, as, q, e)
  <2>a. Strayed(as, e) => Has(sv2, as2, q, e)
      BY DEF Grown, Strayed, Has
  <2> SUFFICES ASSUME e.pin.version <= sv[q][e.remote] PROVE Has(sv2, as2, q, e)
      BY <2>a DEF Has
  <2> DEFINE x == e.pin.version
             y == sv[q][e.remote]
             z == sv2[q][e.remote]
  <2>1. x \in Nat /\ y \in Nat /\ z \in Nat /\ x <= y /\ y <= z
      BY <1>1, <1>2
  <2> HIDE DEF x, y, z
  <2>2. x <= z
      BY <2>1
  <2> QED BY <2>2 DEF Has, x, z
<1>4. Pinned(m, sv2, as2)
    BY <1>1, <1>3 DEF Fine, Pinned, Grown, Strayed
<1>5. PinnedAtHome(m, sv, as) => PinnedAtHome(m, sv2, as2)
    BY <1>1, <1>3 DEF PinnedAtHome
<1>6. Recorded(m, ar2)
  <2> SUFFICES ASSUME NEW d \in m.sets, d.record > 0
               PROVE  /\ d.slug \in Slugs /\ d.record <= Len(ar2[d.slug])
                      /\ d.version <= ar2[d.slug][d.record]
      BY DEF Fine, Recorded
  <2> DEFINE s == d.slug
             r == d.record
             v == d.version
             a == ar[s]
             b == ar2[s]
  <2>1. s \in Slugs /\ r \in Nat /\ v \in Nat /\ r > 0 /\ r <= Len(a) /\ v <= a[r]
      BY DEF Fine, Recorded
  <2>2. a \in Seq(Nat) /\ b \in Seq(Nat)
      BY <2>1 DEF Counted
  <2>3. Len(a) <= Len(b) /\ \A i \in 1..Len(a) : a[i] <= b[i]
      BY <2>1 DEF Grown
  <2> HIDE DEF s, r, v, a, b
  <2>4. r \in 1..Len(a) /\ r \in 1..Len(b)
      BY <2>1, <2>2, <2>3
  <2>5. a[r] \in Nat /\ b[r] \in Nat /\ a[r] <= b[r]
      BY <2>2, <2>3, <2>4
  <2>6. r <= Len(b) /\ v <= b[r]
      BY <2>1, <2>4, <2>5
  <2> QED BY <2>1, <2>6 DEF s, r, v, b
<1> QED BY <1>4, <1>5, <1>6 DEF Fine

LEMMA HeldGrows ==
    ASSUME NEW r, NEW dk, NEW sv, NEW as, NEW ar, NEW sv2, NEW as2, NEW ar2, NEW reh,
           Counted(sv, ar), Counted(sv2, ar2), Grown(sv, as, ar, sv2, as2, ar2), Held(r, dk, sv, as, ar, reh)
    PROVE  Held(r, dk, sv2, as2, ar2, reh)
BY FineGrows DEF Held

(* A step of one command: the others and what is on disk are as good as    *)
(* they were.                                                              *)
LEMMA MoveKeeps ==
    ASSUME NEW dk, NEW lg, NEW pr, NEW sv, NEW as, NEW ar, NEW reh, NEW sv2, NEW as2, NEW ar2, NEW p \in Procs, NEW r,
           Kept(dk, lg, pr, sv, as, ar, reh), Counted(sv2, ar2), Grown(sv, as, ar, sv2, as2, ar2),
           Held(r, dk, sv2, as2, ar2, reh)
    PROVE  Kept(dk, lg, [pr EXCEPT ![p] = r], sv2, as2, ar2, reh)
<1>1. OnDisk(dk, sv2, as2, ar2, reh)
    BY FineGrows DEF Kept, OnDisk
<1>2. AsBefore(lg, sv2, as2, ar2)
    BY FineGrows DEF Kept, AsBefore
<1>3. \A q \in Procs : Held(pr[q], dk, sv2, as2, ar2, reh)
    BY HeldGrows DEF Kept
<1> DEFINE pr2 == [pr EXCEPT ![p] = r]
<1>4. DOMAIN pr2 = Procs /\ pr2[p] = r /\ \A q \in Procs : q # p => pr2[q] = pr[q]
    BY DEF Kept
<1> HIDE DEF pr2
<1>5. \A q \in Procs : Held(pr2[q], dk, sv2, as2, ar2, reh)
    BY <1>3, <1>4
<1>6. Kept(dk, lg, pr2, sv2, as2, ar2, reh)
    BY <1>1, <1>2, <1>4, <1>5 DEF Kept
<1> QED BY <1>6 DEF pr2

-----------------------------------------------------------------------------
(* The forms a command's record takes.                                     *)

LEMMA EmptyForm ==
    /\ DOMAIN Empty = ManifestFields /\ DOMAIN NoManifest # ManifestFields
    /\ Empty.id = None /\ Empty.files = {} /\ Empty.wikis = {} /\ Empty.sets = {}
BY DEF Empty, ManifestFields, NoManifest

(* Empty with a project, or with none. *)
LEMMA NewForm ==
    ASSUME NEW id \in Projects \union {None}, NEW m, NEW sv, NEW as, NEW ar,
           DOMAIN m = ManifestFields, m.id = id, Entries(m) = {}, m.sets = {}
    PROVE  Fine(m, sv, as, ar) /\ PinnedAtHome(m, sv, as) /\ UniqueSlugs(m)
BY DEF Fine, Formed, Pinned, Recorded, PinnedAtHome, UniqueSlugs

LEMMA IdleHeld ==
    ASSUME NEW dk, NEW sv, NEW as, NEW ar, NEW reh
    PROVE  Held(Idle, dk, sv, as, ar, reh)
<1>1. /\ DOMAIN Idle = CommandFields /\ Idle.m = Empty /\ Idle.base = NoManifest /\ Idle.pc = "idle"
      /\ Idle.cmd = "none" /\ Idle.next = "idle"
    BY DEF Idle, CommandFields
<1>2. Entries(Empty) = {}
    BY EmptyForm DEF Entries
<1>3. Fine(Empty, sv, as, ar) /\ PinnedAtHome(Empty, sv, as)
    BY EmptyForm, NewForm, <1>2
<1>4. Situated(Idle)
    BY <1>1 DEF Situated
<1> QED BY <1>1, <1>3, <1>4 DEF Held

LEMMA KeepsRefl ==
    ASSUME NEW m, NEW sv, NEW as, NEW ar, Fine(m, sv, as, ar)
    PROVE  Keeps(m, m)
<1>1. \A d \in m.sets : d.version \in Nat
    BY DEF Fine, Recorded
<1> SUFFICES ASSUME NEW d \in m.sets, d.record > 0
             PROVE  \E e \in m.sets : e.slug = d.slug /\ e.record = d.record /\ e.version >= d.version
    BY DEF Keeps
<1>2. d.version >= d.version
    BY <1>1
<1> QED BY <1>2

LEMMA KeepsTrans ==
    ASSUME NEW a, NEW b, NEW c, NEW sv, NEW as, NEW ar, Fine(a, sv, as, ar), Fine(b, sv, as, ar), Fine(c, sv, as, ar),
           Keeps(a, b), Keeps(b, c)
    PROVE  Keeps(a, c)
<1> SUFFICES ASSUME NEW d \in a.sets, d.record > 0
             PROVE  \E e \in c.sets : e.slug = d.slug /\ e.record = d.record /\ e.version >= d.version
    BY DEF Keeps
<1>1. PICK e \in b.sets : e.slug = d.slug /\ e.record = d.record /\ e.version >= d.version
    BY DEF Keeps
<1>2. PICK f \in c.sets : f.slug = e.slug /\ f.record = e.record /\ f.version >= e.version
    BY <1>1 DEF Keeps
<1> DEFINE x == d.version
           y == e.version
           z == f.version
<1>3. x \in Nat /\ y \in Nat /\ z \in Nat /\ y >= x /\ z >= y
    BY <1>1, <1>2 DEF Fine, Recorded
<1> HIDE DEF x, y, z
<1>4. z >= x
    BY <1>3
<1> QED BY <1>1, <1>2, <1>4 DEF x, z

(* A command that starts with the manifest m, loaded from base. *)
LEMMA StartsHeld ==
    ASSUME NEW cmd, NEW m, NEW base, NEW path, NEW dk, NEW sv, NEW as, NEW ar, NEW reh,
           Fine(m, sv, as, ar), reh \/ PinnedAtHome(m, sv, as),
           base = m \/ (base = NoManifest /\ m.id \in Projects /\ cmd \notin {"publish", "sync", "push"}),
           cmd \in {"sync", "push"} => m.id # None,
           cmd = "publish" => path = "new" /\ UniqueSlugs(m)
    PROVE  Held([Idle EXCEPT !.cmd = cmd, !.pc = "loaded", !.m = m, !.base = base, !.path = path],
                dk, sv, as, ar, reh)
<1> DEFINE r == [Idle EXCEPT !.cmd = cmd, !.pc = "loaded", !.m = m, !.base = base, !.path = path]
<1>1. /\ DOMAIN r = CommandFields /\ r.m = m /\ r.base = base /\ r.pc = "loaded"
      /\ r.cmd = cmd /\ r.path = path /\ r.next = "idle"
    BY DEF Idle, CommandFields
<1> HIDE DEF r
<1>2. m # NoManifest
    BY EmptyForm DEF Fine, Formed
<1>3. Situated(r)
    BY <1>1, <1>2 DEF Situated
<1>4. base # NoManifest => Fine(base, sv, as, ar) /\ Keeps(base, m)
    BY KeepsRefl
<1>5. Held(r, dk, sv, as, ar, reh)
    BY <1>1, <1>3, <1>4 DEF Held
<1> QED BY <1>5 DEF r

(* A command that goes on with the manifest m. *)
LEMMA GoesHeld ==
    ASSUME NEW r, NEW m, NEW pc, NEW next, NEW dk, NEW sv, NEW as, NEW ar, NEW sv2, NEW as2, NEW ar2, NEW reh,
           Counted(sv, ar), Counted(sv2, ar2), Grown(sv, as, ar, sv2, as2, ar2), Held(r, dk, sv, as, ar, reh),
           Fine(m, sv2, as2, ar2), reh \/ PinnedAtHome(m, sv2, as2) \/ Rehomes(dk, m), Keeps(r.m, m),
           pc \notin {"loaded", "exporting", "created"},
           next \notin {"loaded", "exporting", "created"}
    PROVE  Held([r EXCEPT !.m = m, !.pc = pc, !.next = next], dk, sv2, as2, ar2, reh)
<1> DEFINE r2 == [r EXCEPT !.m = m, !.pc = pc, !.next = next]
<1>1. /\ DOMAIN r2 = CommandFields /\ r2.m = m /\ r2.pc = pc /\ r2.base = r.base
      /\ r2.cmd = r.cmd /\ r2.path = r.path /\ r2.next = next
    BY DEF Held, CommandFields
<1> HIDE DEF r2
<1>2. Fine(r.m, sv2, as2, ar2) /\ (r.base # NoManifest => Fine(r.base, sv2, as2, ar2))
    BY FineGrows DEF Held
<1>3. r.base # NoManifest => Keeps(r.base, m)
    BY <1>2, KeepsTrans DEF Held
<1>4. Situated(r2)
    BY <1>1 DEF Situated, Held
<1>5. Held(r2, dk, sv2, as2, ar2, reh)
    BY <1>1, <1>2, <1>3, <1>4 DEF Held
<1> QED BY <1>5 DEF r2

(* A command that goes on with another plan, at another place. *)
LEMMA PlansHeld ==
    ASSUME NEW r, NEW r2, NEW dk, NEW sv, NEW as, NEW ar, NEW reh, Held(r, dk, sv, as, ar, reh),
           DOMAIN r2 = CommandFields, r2.m = r.m, r2.base = r.base, r2.cmd = r.cmd, r2.path = r.path,
           r2.next = r.next, r2.pc = r.pc \/ r2.pc = "fetching"
    PROVE  Held(r2, dk, sv, as, ar, reh)
<1>1. Situated(r2)
    BY DEF Situated, Held
<1> QED BY <1>1 DEF Held

-----------------------------------------------------------------------------
(* What the commands do to a manifest.                                     *)

(* An entry that may be added to a manifest of project id. *)
Welcome(e, id, sv, as) ==
    /\ IsEntry(e)
    /\ e.project # None => Has(sv, as, e.project, e)
    /\ e.project = None => IF id = None THEN Strayed(as, e) \/ e.pin.version = 0 ELSE Has(sv, as, id, e)

LEMMA Retracked ==
    ASSUME NEW m, NEW m2, NEW dk, NEW sv, NEW as, NEW ar, NEW sv2, NEW as2, NEW ar2, NEW reh,
           Counted(sv, ar), Counted(sv2, ar2), Grown(sv, as, ar, sv2, as2, ar2), Fine(m, sv, as, ar),
           reh \/ PinnedAtHome(m, sv, as) \/ Rehomes(dk, m),
           DOMAIN m2 = ManifestFields, m2.id = m.id, m2.sets = m.sets,
           \A e \in Entries(m2) : e \in Entries(m) \/ Welcome(e, m.id, sv2, as2)
    PROVE  Fine(m2, sv2, as2, ar2) /\ (reh \/ PinnedAtHome(m2, sv2, as2) \/ Rehomes(dk, m2)) /\ Keeps(m, m2)
<1>1. Fine(m, sv2, as2, ar2) /\ (PinnedAtHome(m, sv, as) => PinnedAtHome(m, sv2, as2))
    BY FineGrows
<1>2. Formed(m2)
    BY DEF Fine, Formed, Welcome
<1>3. Pinned(m2, sv2, as2)
    BY <1>1 DEF Fine, Pinned, Welcome
<1>4. Recorded(m2, ar2)
    BY <1>1 DEF Fine, Recorded
<1>5. PinnedAtHome(m, sv2, as2) => PinnedAtHome(m2, sv2, as2)
    BY DEF PinnedAtHome, Welcome
<1>6. Rehomes(dk, m) => Rehomes(dk, m2)
    BY DEF Rehomes
<1>7. Keeps(m, m2)
    BY KeepsRefl DEF Keeps
<1> QED BY <1>1, <1>2, <1>3, <1>4, <1>5, <1>6, <1>7 DEF Fine

(* Datasets changed, entries kept or dropped. *)
LEMMA Regrouped ==
    ASSUME NEW m, NEW m2, NEW dk, NEW sv, NEW as, NEW ar, NEW ar2, NEW reh,
           Counted(sv, ar), Fine(m, sv, as, ar), reh \/ PinnedAtHome(m, sv, as) \/ Rehomes(dk, m),
           DOMAIN m2 = ManifestFields, m2.id = m.id, Entries(m2) \subseteq Entries(m),
           Recorded(m2, ar2)
    PROVE  Fine(m2, sv, as, ar2) /\ (reh \/ PinnedAtHome(m2, sv, as) \/ Rehomes(dk, m2))
<1>1. Formed(m2) /\ Pinned(m2, sv, as)
    BY DEF Fine, Formed, Pinned
<1>2. PinnedAtHome(m, sv, as) => PinnedAtHome(m2, sv, as)
    BY DEF PinnedAtHome
<1>3. Rehomes(dk, m) => Rehomes(dk, m2)
    BY DEF Rehomes
<1> QED BY <1>1, <1>2, <1>3 DEF Fine

(* [m EXCEPT ...] field by field. *)
LEMMA FilesField ==
    ASSUME NEW m, NEW v, NEW n, DOMAIN m = ManifestFields, n = [m EXCEPT !.files = v]
    PROVE  /\ DOMAIN n = ManifestFields /\ n.id = m.id /\ n.files = v
           /\ n.wikis = m.wikis /\ n.sets = m.sets
BY DEF ManifestFields

LEMMA WikisField ==
    ASSUME NEW m, NEW v, NEW n, DOMAIN m = ManifestFields, n = [m EXCEPT !.wikis = v]
    PROVE  /\ DOMAIN n = ManifestFields /\ n.id = m.id /\ n.files = m.files
           /\ n.wikis = v /\ n.sets = m.sets
BY DEF ManifestFields

LEMMA SetsField ==
    ASSUME NEW m, NEW v, NEW n, DOMAIN m = ManifestFields, n = [m EXCEPT !.sets = v]
    PROVE  /\ DOMAIN n = ManifestFields /\ n.id = m.id /\ n.files = m.files
           /\ n.wikis = m.wikis /\ n.sets = v
BY DEF ManifestFields

LEMMA IdField ==
    ASSUME NEW m, NEW v, NEW n, DOMAIN m = ManifestFields, n = [m EXCEPT !.id = v]
    PROVE  /\ DOMAIN n = ManifestFields /\ n.id = v /\ n.files = m.files
           /\ n.wikis = m.wikis /\ n.sets = m.sets
BY DEF ManifestFields

LEMMA DefaultsField ==
    ASSUME NEW m, NEW v, NEW n, DOMAIN m = ManifestFields, n = [m EXCEPT !.defaults = v]
    PROVE  /\ DOMAIN n = ManifestFields /\ n.id = m.id /\ n.files = m.files
           /\ n.wikis = m.wikis /\ n.sets = m.sets
BY DEF ManifestFields

LEMMA SchemaField ==
    ASSUME NEW m, NEW v, NEW n, DOMAIN m = ManifestFields, n = [m EXCEPT !.schema = v]
    PROVE  /\ DOMAIN n = ManifestFields /\ n.id = m.id /\ n.files = m.files
           /\ n.wikis = m.wikis /\ n.sets = m.sets
BY DEF ManifestFields


-----------------------------------------------------------------------------
(* The ways a process moves.                                               *)

Grows == Counted(server', archive') /\ Grown(server, astray, archive, server', astray', archive')
Aside == UNCHANGED <<disk, legacy, rehomed>>

LEMMA Stays == IInv /\ UNCHANGED <<server, archive, astray>> => Grows
BY GrownRefl DEF Grows, IInv, Kept

LEMMA HeldBy == IInv => \A p \in Procs : Held(proc[p], disk, server, astray, archive, rehomed)
BY DEF IInv, Kept

LEMMA MovesKept ==
    ASSUME IInv, NEW p \in Procs, NEW r, proc' = [proc EXCEPT ![p] = r], Aside, Grows,
           Held(r, disk, server', astray', archive', rehomed)
    PROVE  IInv'
<1>1. Kept(disk, legacy, [proc EXCEPT ![p] = r], server', astray', archive', rehomed)
    BY MoveKeeps DEF IInv, Grows
<1>2. Kept(disk', legacy', proc', server', astray', archive', rehomed')
    BY <1>1 DEF Aside
<1> QED BY <1>2 DEF IInv

LEMMA EndsKept ==
    ASSUME IInv, NEW p \in Procs, Ends(p), Aside, Grows
    PROVE  IInv'
BY MovesKept, IdleHeld DEF Ends

LEMMA StartsKept ==
    ASSUME IInv, NEW p \in Procs, NEW cmd, NEW m, NEW base, NEW path, Starts(p, cmd, m, base, path),
           Fine(m, server, astray, archive), rehomed \/ PinnedAtHome(m, server, astray),
           base = m \/ (base = NoManifest /\ m.id \in Projects /\ cmd \notin {"publish", "sync", "push"}),
           cmd \in {"sync", "push"} => m.id # None,
           cmd = "publish" => path = "new" /\ UniqueSlugs(m)
    PROVE  IInv'
<1> DEFINE r == [Idle EXCEPT !.cmd = cmd, !.pc = "loaded", !.m = m, !.base = base, !.path = path]
<1>1. Aside /\ UNCHANGED <<server, archive, astray>> /\ proc' = [proc EXCEPT ![p] = r]
    BY DEF Starts, Aside, world
<1>2. Held(r, disk, server, astray, archive, rehomed)
    BY StartsHeld
<1> HIDE DEF r
<1>3. Grows /\ Held(r, disk, server', astray', archive', rehomed)
    BY <1>1, <1>2, Stays
<1> QED BY <1>1, <1>3, MovesKept

LEMMA GoesKept ==
    ASSUME IInv, NEW p \in Procs, NEW m, NEW pc, NEW next, Goes(p, m, pc, next), Aside, Grows,
           Fine(m, server', astray', archive'), rehomed \/ PinnedAtHome(m, server', astray') \/ Rehomes(disk, m),
           Keeps(proc[p].m, m), pc \notin {"loaded", "exporting", "created"},
           next \notin {"loaded", "exporting", "created"}
    PROVE  IInv'
<1> DEFINE r == [proc[p] EXCEPT !.m = m, !.pc = pc, !.next = next]
<1>1. proc' = [proc EXCEPT ![p] = r]
    BY DEF Goes
<1>2. Held(r, disk, server', astray', archive', rehomed)
    BY HeldBy, GoesHeld DEF Grows, IInv, Kept
<1> HIDE DEF r
<1> QED BY <1>1, <1>2, MovesKept

LEMMA PlansKept ==
    ASSUME IInv, NEW p \in Procs, NEW r, proc' = [proc EXCEPT ![p] = r],
           Aside, UNCHANGED <<server, archive, astray>>,
           DOMAIN r = CommandFields, r.m = proc[p].m, r.base = proc[p].base, r.cmd = proc[p].cmd,
           r.path = proc[p].path, r.next = proc[p].next, r.pc = proc[p].pc \/ r.pc = "fetching"
    PROVE  IInv'
<1>1. Held(r, disk, server, astray, archive, rehomed)
    BY HeldBy, PlansHeld
<1>2. Held(r, disk, server', astray', archive', rehomed)
    BY <1>1
<1> QED BY <1>2, Stays, MovesKept

-----------------------------------------------------------------------------
(* Starting.                                                               *)

LEMMA LoadKept ==
    ASSUME IInv, NEW p \in Procs, NEW cmd, Load(p, cmd)
    PROVE  IInv'
<1>1. Found # NoManifest /\ Loads(Found) /\ Ready(cmd, Found) /\ Starts(p, cmd, Found, Found, FoundPath)
    BY DEF Load
<1>2. \/ Found = disk /\ disk # NoManifest /\ FoundPath = "new"
      \/ Found = legacy /\ legacy # NoManifest
    BY <1>1 DEF Found, FoundPath
<1>3. Fine(Found, server, astray, archive) /\ (rehomed \/ PinnedAtHome(Found, server, astray))
    BY <1>2 DEF IInv, Kept, OnDisk, AsBefore
<1>4. UniqueSlugs(Found)
    BY <1>1 DEF Loads, SetsValid, UniqueSlugs
<1>5. cmd = "publish" => FoundPath = "new"
    BY <1>1, <1>2 DEF Ready, IInv, Kept, AsBefore
<1>6. cmd \in {"sync", "push"} => Found.id # None
    BY <1>1 DEF Ready
<1> HIDE DEF Found, FoundPath
<1> QED BY <1>1, <1>3, <1>4, <1>5, <1>6, StartsKept

LEMMA NewForKept ==
    ASSUME IInv, NEW p \in Procs, NEW cmd, NEW path, NewFor(p, cmd, path),
           cmd \notin {"publish", "sync", "push"}
    PROVE  IInv'
<1>1. PICK id \in Projects : Starts(p, cmd, [Empty EXCEPT !.id = id], NoManifest, path)
    BY DEF NewFor
<1> DEFINE m == [Empty EXCEPT !.id = id]
<1>2. DOMAIN m = ManifestFields /\ m.id = id /\ m.files = {} /\ m.wikis = {} /\ m.sets = {}
    BY EmptyForm, IdField
<1>3. Starts(p, cmd, m, NoManifest, path)
    BY <1>1
<1> HIDE DEF m
<1>4. Entries(m) = {}
    BY <1>2 DEF Entries
<1>5. Fine(m, server, astray, archive) /\ PinnedAtHome(m, server, astray)
    BY <1>2, <1>4, NewForm
<1> QED BY <1>2, <1>3, <1>5, StartsKept

Making == {"init", "onboard", "onboard --osf"}

LEMMA InitsKept ==
    ASSUME IInv, NEW p \in Procs, NEW cmd, NEW id, Inits(p, cmd, id), id \in Projects \union {None},
           cmd \in Making,
           id = None => disk = NoManifest
    PROVE  IInv'
<1> DEFINE from == IF disk = NoManifest THEN Empty ELSE disk
           m == [from EXCEPT !.id = id]
           next == IF cmd = "init" THEN "idle" ELSE "created"
           r == [Idle EXCEPT !.cmd = cmd, !.pc = "save", !.base = disk, !.next = next, !.m = m]
<1>1. Aside /\ UNCHANGED <<server, archive, astray>> /\ proc' = [proc EXCEPT ![p] = r]
    BY DEF Inits, Aside, world
<1>2. /\ DOMAIN r = CommandFields /\ r.m = m /\ r.base = disk /\ r.pc = "save"
      /\ r.cmd = cmd /\ r.next = next
    BY DEF Idle, CommandFields
<1>3. DOMAIN from = ManifestFields
    BY EmptyForm DEF IInv, Kept, OnDisk, Fine, Formed
<1> HIDE DEF from
<1>4. /\ DOMAIN m = ManifestFields /\ m.id = id /\ m.files = from.files /\ m.wikis = from.wikis
      /\ m.sets = from.sets
    BY <1>3, IdField
<1>a. next \notin {"loaded", "exporting"}
    OBVIOUS
<1> HIDE DEF m, r, next
<1>5. Fine(m, server, astray, archive) /\ (rehomed \/ PinnedAtHome(m, server, astray) \/ Rehomes(disk, m))
  <2>1. CASE disk = NoManifest
    <3>1. Entries(m) = {} /\ m.sets = {}
        BY <2>1, <1>4, EmptyForm DEF Entries, from
    <3> QED BY <3>1, <1>4, NewForm
  <2>2. CASE disk # NoManifest
    <3>1. Fine(disk, server, astray, archive) /\ (rehomed \/ PinnedAtHome(disk, server, astray))
        BY <2>2 DEF IInv, Kept, OnDisk
    <3>2. Entries(m) = Entries(disk) /\ m.sets = disk.sets /\ m.id \in Projects /\ m.id # None
        BY <2>2, <1>4, BytesAssumption DEF Entries, from
    <3>3. Fine(m, server, astray, archive)
        BY <3>1, <3>2, <1>4 DEF Fine, Formed, Pinned, Recorded
    <3>4. CASE disk.id = None
      <4>1. \A e \in Entries(m) : e.project = None => Strayed(astray, e) \/ e.pin.version = 0
          BY <3>1, <3>2, <3>4 DEF Fine, Pinned
      <4>2. \A e \in Entries(m) : server[m.id][e.remote] \in Nat
          BY <3>2, <3>3 DEF IInv, Kept, Counted, Fine, Formed, IsEntry
      <4>3. \A e \in Entries(m) : e.project = None => Has(server, astray, m.id, e)
        <5> SUFFICES ASSUME NEW e \in Entries(m), e.pin.version = 0 PROVE Has(server, astray, m.id, e)
            BY <4>1 DEF Has
        <5> DEFINE x == e.pin.version
                   y == server[m.id][e.remote]
        <5>1. x \in Nat /\ y \in Nat /\ x = 0
            BY <4>2
        <5> HIDE DEF x, y
        <5>2. x <= y
            BY <5>1
        <5> QED BY <5>2 DEF Has, x, y
      <4>4. PinnedAtHome(m, server, astray)
          BY <4>3 DEF PinnedAtHome
      <4> QED BY <4>4, <3>3
    <3>5. CASE disk.id # None /\ disk.id = m.id
      <4>1. PinnedAtHome(disk, server, astray) => PinnedAtHome(m, server, astray)
          BY <3>2, <3>5 DEF PinnedAtHome
      <4> QED BY <4>1, <3>1, <3>3
    <3>6. CASE disk.id # None /\ disk.id # m.id
        BY <2>2, <3>3, <3>6 DEF Rehomes
    <3> QED BY <3>4, <3>5, <3>6
  <2> QED BY <2>1, <2>2
<1>6. disk # NoManifest => Fine(disk, server, astray, archive) /\ Keeps(disk, m)
  <2> SUFFICES ASSUME disk # NoManifest PROVE Fine(disk, server, astray, archive) /\ Keeps(disk, m)
      OBVIOUS
  <2>1. Fine(disk, server, astray, archive) /\ m.sets = disk.sets
      BY <1>4 DEF IInv, Kept, OnDisk, from
  <2> QED BY <2>1, KeepsRefl DEF Keeps
<1>7. Situated(r)
    BY <1>2, <1>a DEF Situated, Making
<1>8. Held(r, disk, server, astray, archive, rehomed)
    BY <1>2, <1>5, <1>6, <1>7 DEF Held
<1>9. Grows /\ Held(r, disk, server', astray', archive', rehomed)
    BY <1>1, <1>8, Stays
<1> QED BY <1>1, <1>9, MovesKept

LEMMA BeginKept ==
    ASSUME IInv, NEW p \in Procs, Begin(p)
    PROVE  IInv'
<1>1. CASE InitProject(p)
  <2>1. PICK id \in Projects : Inits(p, "init", id)
      BY <1>1 DEF InitProject
  <2>2. id # None
      BY BytesAssumption
  <2>3. "init" \in Making
      BY DEF Making
  <2> QED BY <2>1, <2>2, <2>3, InitsKept
<1>2. CASE \E cmd \in {"add", "wiki add", "push path", "pull path"} : Load(p, cmd) \/ AddCreates(p, cmd)
  <2>1. PICK cmd \in {"add", "wiki add", "push path", "pull path"} : Load(p, cmd) \/ AddCreates(p, cmd)
      BY <1>2
  <2>2. cmd \notin {"publish", "sync", "push"}
      BY <2>1
  <2> QED BY <2>1, <2>2, LoadKept, NewForKept DEF AddCreates
<1>3. CASE PathUnloaded(p)
  <2>1. NewFor(p, "push path", "none") \/ NewFor(p, "pull path", "new")
      BY <1>3 DEF PathUnloaded
  <2> QED BY <2>1, NewForKept
<1>4. CASE \E cmd \in {"onboard", "onboard --osf"} : Load(p, cmd) \/ OnboardCreates(p, cmd)
  <2>1. PICK cmd \in {"onboard", "onboard --osf"} : Load(p, cmd) \/ OnboardCreates(p, cmd)
      BY <1>4
  <2>2. CASE OnboardCreates(p, cmd)
    <3>1. disk = NoManifest
        BY <2>2 DEF OnboardCreates, Found
    <3>2. PICK id \in Projects \union {None} : Inits(p, cmd, id)
        BY <2>2 DEF OnboardCreates
    <3>3. cmd \in Making
        BY <2>1 DEF Making
    <3> QED BY <3>1, <3>2, <3>3, InitsKept
  <2> QED BY <2>1, <2>2, LoadKept
<1>5. CASE \E cmd \in {"sync", "push", "publish", "pull dataset"} : Load(p, cmd)
    BY <1>5, LoadKept
<1> QED BY <1>1, <1>2, <1>3, <1>4, <1>5 DEF Begin

LEMMA CreatedKept ==
    ASSUME IInv, NEW p \in Procs, Created(p)
    PROVE  IInv'
<1>0. Aside /\ UNCHANGED <<server, archive, astray>>
    BY DEF Created, Aside, world
<1>1. CASE disk # NoManifest /\ Loads(disk)
  <2> DEFINE r == [proc[p] EXCEPT !.m = disk, !.base = disk, !.pc = "loaded"]
  <2>1. proc' = [proc EXCEPT ![p] = r]
      BY <1>1 DEF Created
  <2>2. /\ DOMAIN r = CommandFields /\ r.m = disk /\ r.base = disk /\ r.pc = "loaded"
        /\ r.cmd = proc[p].cmd /\ r.path = proc[p].path /\ r.next = proc[p].next
      BY HeldBy DEF Held, CommandFields
  <2> HIDE DEF r
  <2>3. Fine(disk, server, astray, archive) /\ (rehomed \/ PinnedAtHome(disk, server, astray)) /\ Keeps(disk, disk)
      BY <1>1, KeepsRefl DEF IInv, Kept, OnDisk
  <2>4. Situated(proc[p])
      BY HeldBy DEF Held
  <2>5. proc[p].pc = "created"
      BY DEF Created
  <2>8. Situated(r)
      BY <1>1, <2>2, <2>4, <2>5 DEF Situated
  <2>6. Held(r, disk, server, astray, archive, rehomed)
      BY <2>2, <2>3, <2>8 DEF Held
  <2>7. Held(r, disk, server', astray', archive', rehomed)
      BY <1>0, <2>6
  <2> QED BY <1>0, <2>1, <2>7, Stays, MovesKept
<1>2. CASE ~(disk # NoManifest /\ Loads(disk))
  <2>1. Ends(p)
      BY <1>2 DEF Created
  <2> QED BY <1>0, <2>1, Stays, EndsKept
<1> QED BY <1>1, <1>2

LEMMA SaveRefusedKept ==
    ASSUME IInv, NEW p \in Procs, SaveRefused(p)
    PROVE  IInv'
BY Stays, EndsKept DEF SaveRefused, Aside, world

(* A save changes the disk under the others, but not the project it is     *)
(* for, or nothing without a project of its own is spoken of any more.     *)
LEMMA SaveKept ==
    ASSUME IInv, NEW p \in Procs, Save(p)
    PROVE  IInv'
<1> DEFINE m == [Mine(p) EXCEPT !.schema = SchemaMax]
           moves == disk # NoManifest /\ disk.id \notin {None, m.id}
           r == IF proc[p].next = "idle" THEN Idle
                ELSE [proc[p] EXCEPT !.m = m, !.base = m, !.pc = proc[p].next]
<1>1. /\ disk' = m /\ rehomed' = (rehomed \/ moves) /\ legacy' = legacy
      /\ UNCHANGED <<server, archive, astray>>
    BY DEF Save, world
<1>2. proc' = [proc EXCEPT ![p] = r]
    BY DEF Save, Ends
<1>3. /\ DOMAIN m = ManifestFields /\ m.id = Mine(p).id /\ m.files = Mine(p).files
      /\ m.wikis = Mine(p).wikis /\ m.sets = Mine(p).sets
    BY HeldBy, SchemaField DEF Held, Fine, Formed, Mine
<1>4. moves = Rehomes(disk, m)
    BY DEF Rehomes
<1>5. proc[p].next # "idle" =>
        /\ DOMAIN r = CommandFields /\ r.m = m /\ r.base = m /\ r.pc = proc[p].next
        /\ r.cmd = proc[p].cmd /\ r.path = proc[p].path /\ r.next = proc[p].next
    BY HeldBy DEF Held, CommandFields
<1>6. proc[p].next = "idle" => r = Idle
    OBVIOUS
<1> HIDE DEF m, r, moves
<1>7. Entries(m) = Entries(Mine(p))
    BY <1>3 DEF Entries
<1>8. Fine(m, server, astray, archive) /\ (PinnedAtHome(Mine(p), server, astray) => PinnedAtHome(m, server, astray))
      /\ (Rehomes(disk, Mine(p)) => Rehomes(disk, m))
  <2>1. Fine(Mine(p), server, astray, archive)
      BY HeldBy DEF Held, Mine
  <2> QED BY <2>1, <1>3, <1>7 DEF Fine, Formed, Pinned, Recorded, PinnedAtHome, Rehomes
<1>9. rehomed' \/ PinnedAtHome(m, server, astray)
  <2>1. rehomed \/ PinnedAtHome(Mine(p), server, astray) \/ Rehomes(disk, Mine(p))
      BY HeldBy DEF Held, Mine
  <2> QED BY <2>1, <1>8, <1>1, <1>4
<1>10. Held(r, m, server, astray, archive, rehomed')
  <2>1. CASE proc[p].next = "idle"
      BY <2>1, <1>6, IdleHeld
  <2>2. CASE proc[p].next # "idle"
    <3>1. Situated(proc[p])
        BY HeldBy DEF Held
    <3>2. Situated(r)
        BY <2>2, <3>1, <1>5 DEF Situated
    <3>3. Keeps(m, m)
        BY <1>8, KeepsRefl
    <3> QED BY <2>2, <3>2, <3>3, <1>5, <1>8, <1>9 DEF Held
  <2> QED BY <2>1, <2>2
<1>11. ASSUME NEW q \in Procs
       PROVE  Held(proc[q], m, server, astray, archive, rehomed')
  <2>1. Held(proc[q], disk, server, astray, archive, rehomed)
      BY HeldBy
  <2>2. rehomed' \/ PinnedAtHome(proc[q].m, server, astray) \/ Rehomes(m, proc[q].m)
    <3>1. SUFFICES ASSUME ~rehomed', Rehomes(disk, proc[q].m)
                   PROVE  Rehomes(m, proc[q].m)
        BY <2>1, <1>1 DEF Held
    <3>2. ~Rehomes(disk, m)
        BY <3>1, <1>1, <1>4
    <3>3. m # NoManifest
        BY <1>3, EmptyForm
    <3> QED BY <3>1, <3>2, <3>3 DEF Rehomes
  <2> QED BY <2>1, <2>2 DEF Held
<1>12. DOMAIN proc' = Procs /\ proc'[p] = r /\ \A q \in Procs : q # p => proc'[q] = proc[q]
    BY <1>2 DEF IInv, Kept
<1>13. \A q \in Procs : Held(proc'[q], m, server, astray, archive, rehomed')
    BY <1>10, <1>11, <1>12
<1>14. OnDisk(m, server, astray, archive, rehomed')
    BY <1>8, <1>9 DEF OnDisk
<1>15. rehomed' \in BOOLEAN
    BY <1>1, <1>4 DEF IInv, Kept, Rehomes
<1>16. AsBefore(legacy, server, astray, archive) /\ Counted(server, archive)
    BY DEF IInv, Kept
<1>17. Kept(m, legacy, proc', server, astray, archive, rehomed')
    BY <1>12, <1>13, <1>14, <1>15, <1>16 DEF Kept
<1>18. Kept(disk', legacy', proc', server', astray', archive', rehomed')
    BY <1>1, <1>17
<1> QED BY <1>18 DEF IInv

-----------------------------------------------------------------------------
(* Commands that track.                                                    *)

LEMMA HeldManifest ==
    IInv => \A p \in Procs :
        /\ Fine(Mine(p), server, astray, archive) /\ DOMAIN Mine(p) = ManifestFields
        /\ rehomed \/ PinnedAtHome(Mine(p), server, astray) \/ Rehomes(disk, Mine(p))
        /\ Mine(p).id \in Projects \union {None}
BY HeldBy DEF Held, Fine, Formed, Mine

LEMMA ServedIs == IInv => \A q \in Projects, n \in Names : server[q][n] \in Nat
BY DEF IInv, Kept, Counted

LEMMA TipIs ==
    IInv => \A q \in Projects, n \in Names :
        Tip(q, n).version \in Nat /\ Tip(q, n).version <= server[q][n]
BY ServedIs DEF Tip, NoVersion

LEMMA NamedIs ==
    ASSUME IInv, NEW p \in Procs, proc[p].pc = "loaded"
    PROVE  Named(p) \subseteq Projects
BY HeldBy DEF Named, Held, Situated, Mine

LEMMA EntryWelcome ==
    ASSUME NEW m, NEW l, NEW n \in Names, NEW q \in Projects, NEW pin, NEW sv, NEW as,
           pin.version \in Nat, pin.version <= sv[q][n]
    PROVE  Welcome(Entry(m, l, n, q, pin), m.id, sv, as)
<1> DEFINE e == Entry(m, l, n, q, pin)
<1>1. /\ DOMAIN e = {"local", "remote", "project", "pin"} /\ e.remote = n /\ e.pin = pin
      /\ e.project = IF q = m.id THEN None ELSE q
    BY DEF Entry
<1> HIDE DEF e
<1>2. IsEntry(e)
    BY <1>1 DEF IsEntry
<1>3. q # None
    BY BytesAssumption
<1>4. Has(sv, as, q, e)
    BY <1>1 DEF Has
<1>5. Welcome(e, m.id, sv, as)
    BY <1>1, <1>2, <1>3, <1>4 DEF Welcome
<1> QED BY <1>5 DEF e

LEMMA TracksKept ==
    ASSUME IInv, NEW p \in Procs, NEW m, NEW pc, NEW next, Goes(p, m, pc, next), Aside, Grows,
           pc \notin {"loaded", "exporting", "created"}, next \notin {"loaded", "exporting", "created"},
           DOMAIN m = ManifestFields, m.id = Mine(p).id, m.sets = Mine(p).sets,
           \A e \in Entries(m) : e \in Entries(Mine(p)) \/ Welcome(e, Mine(p).id, server', astray')
    PROVE  IInv'
<1>1. Counted(server, archive) /\ Counted(server', archive') /\ Grown(server, astray, archive, server', astray', archive')
    BY DEF IInv, Kept, Grows
<1>2. /\ Fine(m, server', astray', archive') /\ Keeps(Mine(p), m)
      /\ rehomed \/ PinnedAtHome(m, server', astray') \/ Rehomes(disk, m)
    BY <1>1, HeldManifest, Retracked
<1> QED BY <1>2, GoesKept DEF Mine

(* One more entry, in place of those of its path or beside them. *)
LEMMA AddsKept ==
    ASSUME IInv, NEW p \in Procs, NEW m, NEW F, NEW S,
           m = [Mine(p) EXCEPT !.files = F] \/ m = [Mine(p) EXCEPT !.wikis = F], ToSave(p, m),
           Aside, Grows, F \subseteq Entries(Mine(p)) \union S,
           \A e \in S : Welcome(e, Mine(p).id, server', astray')
    PROVE  IInv'
<1>0. DOMAIN Mine(p) = ManifestFields
    BY HeldManifest
<1>1. /\ DOMAIN m = ManifestFields /\ m.id = Mine(p).id /\ m.sets = Mine(p).sets
      /\ Entries(m) \subseteq Entries(Mine(p)) \union S
  <2>1. CASE m = [Mine(p) EXCEPT !.files = F]
    <3>1. /\ DOMAIN m = ManifestFields /\ m.id = Mine(p).id /\ m.sets = Mine(p).sets
          /\ m.files = F /\ m.wikis = Mine(p).wikis
        BY <1>0, <2>1, FilesField
    <3> QED BY <3>1 DEF Entries
  <2>2. CASE m = [Mine(p) EXCEPT !.wikis = F]
    <3>1. /\ DOMAIN m = ManifestFields /\ m.id = Mine(p).id /\ m.sets = Mine(p).sets
          /\ m.wikis = F /\ m.files = Mine(p).files
        BY <1>0, <2>2, WikisField
    <3> QED BY <3>1 DEF Entries
  <2> QED BY <2>1, <2>2
<1> QED BY <1>1, TracksKept DEF ToSave

LEMMA AddKept ==
    ASSUME IInv, NEW p \in Procs, Add(p)
    PROVE  IInv'
<1>0. Aside /\ UNCHANGED <<server, archive, astray>> /\ proc[p].pc = "loaded"
    BY DEF Add, Working, Aside, world, At
<1>1. PICK l \in Paths, n \in Remotes, q \in Named(p) : \E pin \in {NoVersion, Tip(q, n)} :
          ToSave(p, [Mine(p) EXCEPT !.files = @ \union {Entry(Mine(p), l, n, q, pin)}])
    BY DEF Add
<1>2. PICK pin \in {NoVersion, Tip(q, n)} :
          ToSave(p, [Mine(p) EXCEPT !.files = @ \union {Entry(Mine(p), l, n, q, pin)}])
    BY <1>1
<1>3. q \in Projects /\ n \in Names
    BY <1>0, NamedIs DEF Names
<1>4. pin.version \in Nat /\ pin.version <= server[q][n]
    BY <1>3, TipIs, ServedIs DEF NoVersion
<1>5. Welcome(Entry(Mine(p), l, n, q, pin), Mine(p).id, server', astray')
    BY <1>0, <1>3, <1>4, EntryWelcome
<1> DEFINE e == Entry(Mine(p), l, n, q, pin)
           F == Mine(p).files \union {e}
           m == [Mine(p) EXCEPT !.files = F]
<1>6. ToSave(p, m)
    BY <1>2
<1>7. F \subseteq Entries(Mine(p)) \union {e} /\ m = [Mine(p) EXCEPT !.files = F]
    BY DEF Entries
<1>8. \A x \in {e} : Welcome(x, Mine(p).id, server', astray')
    BY <1>5
<1> HIDE DEF e, F, m
<1> QED BY <1>0, <1>6, <1>7, <1>8, Stays, AddsKept

LEMMA WikiAddKept ==
    ASSUME IInv, NEW p \in Procs, WikiAdd(p)
    PROVE  IInv'
<1>0. Aside /\ UNCHANGED <<server, archive, astray>> /\ proc[p].pc = "loaded"
    BY DEF WikiAdd, Working, Aside, world, At
<1>1. PICK l \in Paths, n \in Pages, q \in Named(p) : \E pin \in {NoVersion, Tip(q, n)} :
          ToSave(p, [Mine(p) EXCEPT !.wikis = @ \union {Entry(Mine(p), l, n, q, pin)}])
    BY DEF WikiAdd
<1>2. PICK pin \in {NoVersion, Tip(q, n)} :
          ToSave(p, [Mine(p) EXCEPT !.wikis = @ \union {Entry(Mine(p), l, n, q, pin)}])
    BY <1>1
<1>3. q \in Projects /\ n \in Names
    BY <1>0, NamedIs DEF Names
<1>4. pin.version \in Nat /\ pin.version <= server[q][n]
    BY <1>3, TipIs, ServedIs DEF NoVersion
<1>5. Welcome(Entry(Mine(p), l, n, q, pin), Mine(p).id, server', astray')
    BY <1>0, <1>3, <1>4, EntryWelcome
<1> DEFINE e == Entry(Mine(p), l, n, q, pin)
           F == Mine(p).wikis \union {e}
           m == [Mine(p) EXCEPT !.wikis = F]
<1>6. ToSave(p, m)
    BY <1>2
<1>7. F \subseteq Entries(Mine(p)) \union {e} /\ m = [Mine(p) EXCEPT !.wikis = F]
    BY DEF Entries
<1>8. \A x \in {e} : Welcome(x, Mine(p).id, server', astray')
    BY <1>5
<1> HIDE DEF e, F, m
<1> QED BY <1>0, <1>6, <1>7, <1>8, Stays, AddsKept

LEMMA AddDirectoryKept ==
    ASSUME IInv, NEW p \in Procs, AddDirectory(p)
    PROVE  IInv'
<1>0. Aside /\ UNCHANGED <<server, archive, astray>> /\ proc[p].pc = "loaded"
    BY DEF AddDirectory, Offline, Working, Aside, world, At
<1> DEFINE here == {l \in Remotes : local[l] # None}
<1>1. PICK q \in Named(p) :
          ToSave(p, [Mine(p) EXCEPT !.files =
                     @ \union {Entry(Mine(p), l, l, q, NoVersion) : l \in here}])
    BY DEF AddDirectory
<1>2. q \in Projects
    BY <1>0, NamedIs
<1>3. ASSUME NEW l \in here
      PROVE  Welcome(Entry(Mine(p), l, l, q, NoVersion), Mine(p).id, server', astray')
  <2>1. l \in Names
      BY DEF Names
  <2>2. NoVersion.version \in Nat /\ NoVersion.version <= server'[q][l]
      BY <1>0, <1>2, <2>1, ServedIs DEF NoVersion
  <2> QED BY <1>2, <2>1, <2>2, EntryWelcome
<1> DEFINE S == {Entry(Mine(p), l, l, q, NoVersion) : l \in here}
           F == Mine(p).files \union S
           m == [Mine(p) EXCEPT !.files = F]
<1>6. ToSave(p, m)
    BY <1>1
<1>7. F \subseteq Entries(Mine(p)) \union S /\ m = [Mine(p) EXCEPT !.files = F]
    BY DEF Entries
<1>8. \A x \in S : Welcome(x, Mine(p).id, server', astray')
    BY <1>3
<1> HIDE DEF S, F, m
<1> QED BY <1>0, <1>6, <1>7, <1>8, Stays, AddsKept

LEMMA OnboardOsfFilesKept ==
    ASSUME IInv, NEW p \in Procs, OnboardOsfFiles(p)
    PROVE  IInv'
<1>0. Aside /\ UNCHANGED <<server, archive, astray>>
    BY DEF OnboardOsfFiles, Offline, Working, Aside, world
<1> DEFINE entry(l) == [local |-> l, remote |-> l, project |-> None, pin |-> NoVersion]
<1>1. CASE Ends(p)
    BY <1>0, <1>1, Stays, EndsKept
<1>2. CASE \E selected \in SUBSET Remotes :
             ToSave(p, [Mine(p) EXCEPT !.files = @ \union {entry(l) : l \in selected}])
  <2>1. PICK selected \in SUBSET Remotes :
             ToSave(p, [Mine(p) EXCEPT !.files = @ \union {entry(l) : l \in selected}])
      BY <1>2
  <2>2. ASSUME NEW l \in selected PROVE Welcome(entry(l), Mine(p).id, server', astray')
    <3> DEFINE e == entry(l)
    <3>1. /\ DOMAIN e = {"local", "remote", "project", "pin"} /\ e.remote = l /\ e.project = None
          /\ e.pin.version = 0
        BY DEF NoVersion
    <3> HIDE DEF e
    <3>2. l \in Names /\ IsEntry(e)
        BY <3>1 DEF IsEntry, Names
    <3>3. Mine(p).id # None => server'[Mine(p).id][e.remote] \in Nat
        BY <1>0, <3>1, <3>2, ServedIs, HeldManifest
    <3>4. Mine(p).id # None => Has(server', astray', Mine(p).id, e)
      <4> SUFFICES ASSUME Mine(p).id # None PROVE Has(server', astray', Mine(p).id, e)
          OBVIOUS
      <4> DEFINE x == e.pin.version
                 y == server'[Mine(p).id][e.remote]
      <4>1. x \in Nat /\ y \in Nat /\ x = 0
          BY <3>1, <3>3
      <4> HIDE DEF x, y
      <4>2. x <= y
          BY <4>1
      <4> QED BY <4>2 DEF x, y, Has
    <3>5. Welcome(e, Mine(p).id, server', astray')
        BY <3>1, <3>2, <3>4 DEF Welcome
    <3> QED BY <3>5 DEF e
  <2> DEFINE S == {entry(l) : l \in selected}
             F == Mine(p).files \union S
             m == [Mine(p) EXCEPT !.files = F]
  <2>6. ToSave(p, m)
      BY <2>1
  <2>7. F \subseteq Entries(Mine(p)) \union S /\ m = [Mine(p) EXCEPT !.files = F]
      BY DEF Entries
  <2>8. \A x \in S : Welcome(x, Mine(p).id, server', astray')
      BY <2>2
  <2> HIDE DEF S, F, m
  <2> QED BY <1>0, <2>6, <2>7, <2>8, Stays, AddsKept
<1> QED BY <1>1, <1>2 DEF OnboardOsfFiles

-----------------------------------------------------------------------------
(* Commands that transfer.                                                 *)

LEMMA GrowsIf ==
    ASSUME IInv, archive' = archive, astray \subseteq astray', server' \in [Projects -> [Names -> Nat]],
           \A q \in Projects, n \in Names : server[q][n] <= server'[q][n]
    PROVE  Grows
<1>1. Counted(server', archive')
    BY DEF IInv, Kept, Counted
<1>2. Grown(server, astray, archive, server, astray, archive)
    BY GrownRefl DEF IInv, Kept
<1> QED BY <1>1, <1>2 DEF Grows, Grown

LEMMA ReconcileKept ==
    ASSUME IInv, NEW p \in Procs, NEW cmd, NEW entries, Aside, astray' = astray, Reconcile(p, cmd, entries),
           entries \subseteq Entries(Mine(p)), Mine(p).id # None
    PROVE  IInv'
<1> DEFINE m == Mine(p)
           moved == Transfers(cmd, entries, m)
           push == {e \in moved : DecisionOf(cmd, e, m) = "push"}
           pinned(S) == (S \ moved) \union {Repin(cmd, e, m) : e \in S \cap moved}
           up(q, n) == \E e \in push : Home(e, m) = q /\ e.remote = n
<1>1. /\ server' = [q \in Projects |-> [n \in Names |->
                       IF up(q, n) THEN server[q][n] + 1 ELSE server[q][n]]]
      /\ archive' = archive
      /\ IF moved = {} THEN Ends(p)
         ELSE ToSave(p, [m EXCEPT !.files = pinned(@), !.wikis = pinned(@)])
    BY DEF Reconcile
<1>2. moved \subseteq Entries(m)
    BY DEF Transfers
<1>3. \A e \in Entries(m) : IsEntry(e) /\ Home(e, m) \in Projects /\ e.remote \in Names
    BY HeldManifest DEF Fine, Formed, IsEntry, Home
<1>4. \A e \in moved : DecisionOf(cmd, e, m) = "push" => up(Home(e, m), e.remote)
    OBVIOUS
<1> HIDE DEF m, moved, push, up
<1>5. /\ server' \in [Projects -> [Names -> Nat]]
      /\ \A q \in Projects, n \in Names :
            /\ server[q][n] <= server'[q][n]
            /\ up(q, n) => server'[q][n] = server[q][n] + 1
    BY <1>1, ServedIs
<1>6. Grows
    BY <1>1, <1>5, GrowsIf
<1>7. ASSUME NEW e \in moved
      PROVE  Welcome(Repin(cmd, e, m), m.id, server', astray')
  <2> DEFINE f == Repin(cmd, e, m)
             h == Home(e, m)
  <2>1. /\ DOMAIN f = {"local", "remote", "project", "pin"} /\ f.remote = e.remote
        /\ f.project = e.project
        /\ f.pin = IF DecisionOf(cmd, e, m) = "push" THEN Pushed(e, m) ELSE Tip(h, e.remote)
      BY <1>2, <1>3 DEF Repin, IsEntry
  <2>2. h \in Projects /\ e.remote \in Names /\ IsEntry(e)
      BY <1>2, <1>3
  <2> HIDE DEF f
  <2>3. /\ server[h][e.remote] \in Nat /\ server'[h][e.remote] \in Nat
        /\ server[h][e.remote] <= server'[h][e.remote]
      BY <1>5, <2>2, ServedIs
  <2>4. f.pin.version \in Nat /\ f.pin.version <= server'[h][e.remote]
    <3>1. CASE DecisionOf(cmd, e, m) = "push"
      <4>1. server'[h][e.remote] = server[h][e.remote] + 1
          BY <1>4, <1>5, <2>2, <3>1
      <4>2. f.pin.version = server[h][e.remote] + 1
          BY <2>1, <3>1 DEF Pushed
      <4> QED BY <4>1, <4>2, <2>3
    <3>2. CASE DecisionOf(cmd, e, m) # "push"
      <4>1. f.pin.version \in Nat /\ f.pin.version <= server[h][e.remote]
          BY <2>1, <2>2, <3>2, TipIs
      <4> QED BY <4>1, <2>3
    <3> QED BY <3>1, <3>2
  <2>5. Has(server', astray', h, f)
      BY <2>1, <2>4 DEF Has
  <2>6. IsEntry(f)
      BY <2>1, <2>2, <2>4 DEF IsEntry
  <2>7. h = IF e.project # None THEN e.project ELSE m.id
      BY DEF Home
  <2> HIDE DEF h
  <2>8. Welcome(f, m.id, server', astray')
      BY <2>1, <2>5, <2>6, <2>7 DEF Welcome, m
  <2> QED BY <2>8 DEF f
<1>8. CASE moved = {}
    BY <1>1, <1>6, <1>8, EndsKept
<1>9. CASE moved # {}
  <2> DEFINE n == [m EXCEPT !.files = pinned(m.files), !.wikis = pinned(m.wikis)]
  <2>1. ToSave(p, n)
      BY <1>1, <1>9
  <2>2. DOMAIN m = ManifestFields
      BY HeldManifest DEF m
  <2>3. /\ DOMAIN n = ManifestFields /\ n.id = m.id /\ n.sets = m.sets
        /\ n.files = pinned(m.files) /\ n.wikis = pinned(m.wikis)
      BY <2>2 DEF ManifestFields
  <2> HIDE DEF n
  <2>4. \A e \in Entries(n) : e \in Entries(m) \/ Welcome(e, m.id, server', astray')
      BY <2>3, <1>7 DEF Entries
  <2> QED BY <2>1, <2>3, <2>4, <1>6, TracksKept DEF ToSave, m
<1> QED BY <1>8, <1>9

LEMMA SyncKept ==
    ASSUME IInv, NEW p \in Procs, Sync(p)
    PROVE  IInv'
<1>1. Aside /\ astray' = astray /\ proc[p].pc = "loaded" /\ proc[p].cmd = "sync"
    BY DEF Sync, Working, Aside, At
<1>2. Mine(p).id # None
    BY <1>1, HeldBy DEF Held, Situated, Mine
<1>3. \/ Reconcile(p, "sync", Mine(p).files \union Mine(p).wikis)
      \/ Refused(p, "sync", Mine(p).files \union Mine(p).wikis)
    BY DEF Sync
<1>4. Refused(p, "sync", Mine(p).files \union Mine(p).wikis) => Ends(p) /\ UNCHANGED <<server, archive>>
    BY DEF Refused, world
<1>5. Mine(p).files \union Mine(p).wikis \subseteq Entries(Mine(p))
    BY DEF Entries
<1> QED BY <1>1, <1>2, <1>3, <1>4, <1>5, Stays, EndsKept, ReconcileKept

LEMMA PushKept ==
    ASSUME IInv, NEW p \in Procs, Push(p)
    PROVE  IInv'
<1>1. Aside /\ astray' = astray /\ proc[p].pc = "loaded" /\ proc[p].cmd = "push"
    BY DEF Push, Working, Aside, At
<1>2. Mine(p).id # None
    BY <1>1, HeldBy DEF Held, Situated, Mine
<1>3. Reconcile(p, "push", Mine(p).files) \/ Refused(p, "push", Mine(p).files)
    BY DEF Push
<1>4. Refused(p, "push", Mine(p).files) => Ends(p) /\ UNCHANGED <<server, archive>>
    BY DEF Refused, world
<1>5. Mine(p).files \subseteq Entries(Mine(p))
    BY DEF Entries
<1> QED BY <1>1, <1>2, <1>3, <1>4, <1>5, Stays, EndsKept, ReconcileKept

(* The entry of a path, at a pin the server has. *)
LEMMA TrackedKept ==
    ASSUME IInv, NEW p \in Procs, NEW l, NEW n \in Names, NEW q \in Projects, NEW pin,
           ToSave(p, Tracked(Mine(p), l, n, q, pin)), Aside, Grows,
           pin.version \in Nat, pin.version <= server'[q][n]
    PROVE  IInv'
<1> DEFINE e == Entry(Mine(p), l, n, q, pin)
           F == {x \in Mine(p).files : x.local # l} \union {e}
           m == [Mine(p) EXCEPT !.files = F]
<1>1. ToSave(p, m)
    BY DEF Tracked
<1>2. Welcome(e, Mine(p).id, server', astray')
    BY EntryWelcome
<1>3. F \subseteq Entries(Mine(p)) \union {e} /\ m = [Mine(p) EXCEPT !.files = F]
    BY DEF Entries
<1>4. \A x \in {e} : Welcome(x, Mine(p).id, server', astray')
    BY <1>2
<1> HIDE DEF e, F, m
<1> QED BY <1>1, <1>3, <1>4, AddsKept

(* What a push makes of the manifest: a new entry, or the old one under    *)
(* the new pin -- which is astray where the entry is tracked elsewhere.    *)
LEMMA PushedWelcome ==
    ASSUME NEW m, NEW l, NEW n \in Names, NEW q \in Projects, NEW pin, NEW sv, NEW as,
           Formed(m), pin.version \in Nat, pin.version <= sv[q][n],
           TrackedOff(m, l, n, q) => <<l, pin>> \in as,
           NEW e \in m.files, e.local = l, NEW x, x = [e EXCEPT !.pin = pin]
    PROVE  Welcome(x, m.id, sv, as)
<1>1. IsEntry(e)
    BY DEF Formed, Entries
<1>2. /\ DOMAIN x = {"local", "remote", "project", "pin"}
      /\ x.local = l /\ x.remote = e.remote /\ x.project = e.project /\ x.pin = pin
    BY <1>1 DEF IsEntry
<1>3. IsEntry(x)
    BY <1>1, <1>2 DEF IsEntry
<1>4. CASE TrackedOff(m, l, n, q)
    BY <1>2, <1>3, <1>4 DEF Welcome, Has, Strayed
<1>5. CASE ~TrackedOff(m, l, n, q)
  <2>1. Home(e, m) = q /\ e.remote = n
      BY <1>5 DEF TrackedOff
  <2>2. x.pin.version <= sv[q][x.remote]
      BY <1>2, <2>1
  <2>3. q # None
      BY BytesAssumption
  <2> QED BY <1>2, <1>3, <2>1, <2>2, <2>3 DEF Home, Welcome, Has
<1> QED BY <1>4, <1>5

LEMMA PushTrackedKept ==
    ASSUME IInv, NEW p \in Procs, NEW l, NEW n \in Names, NEW q \in Projects, NEW pin,
           ToSave(p, PushTracked(Mine(p), l, n, q, pin)), Aside, Grows,
           pin.version \in Nat, pin.version <= server'[q][n],
           TrackedOff(Mine(p), l, n, q) => <<l, pin>> \in astray'
    PROVE  IInv'
<1>1. CASE l \notin LocalsOf(Mine(p).files)
  <2> DEFINE e == Entry(Mine(p), l, n, q, pin)
             F == Mine(p).files \union {e}
             m == [Mine(p) EXCEPT !.files = F]
  <2>1. ToSave(p, m)
      BY <1>1 DEF PushTracked
  <2>2. Welcome(e, Mine(p).id, server', astray')
      BY EntryWelcome
  <2>3. F \subseteq Entries(Mine(p)) \union {e} /\ m = [Mine(p) EXCEPT !.files = F]
      BY DEF Entries
  <2>4. \A x \in {e} : Welcome(x, Mine(p).id, server', astray')
      BY <2>2
  <2> HIDE DEF e, F, m
  <2> QED BY <2>1, <2>3, <2>4, AddsKept
<1>2. CASE l \in LocalsOf(Mine(p).files)
  <2> DEFINE S == {[e EXCEPT !.pin = pin] : e \in {e \in Mine(p).files : e.local = l}}
             F == {IF e.local = l THEN [e EXCEPT !.pin = pin] ELSE e : e \in Mine(p).files}
             m == [Mine(p) EXCEPT !.files = F]
  <2>1. ToSave(p, m)
      BY <1>2 DEF PushTracked
  <2>2. Formed(Mine(p))
      BY HeldBy DEF Held, Fine, Mine
  <2>3. \A x \in S : Welcome(x, Mine(p).id, server', astray')
    <3> TAKE x \in S
    <3>1. PICK e \in Mine(p).files : e.local = l /\ x = [e EXCEPT !.pin = pin]
        OBVIOUS
    <3> HIDE DEF S, F, m
    <3> QED BY <2>2, <3>1, PushedWelcome
  <2>4. F \subseteq Entries(Mine(p)) \union S /\ m = [Mine(p) EXCEPT !.files = F]
      BY DEF Entries
  <2> HIDE DEF S, F, m
  <2> QED BY <2>1, <2>3, <2>4, AddsKept
<1> QED BY <1>1, <1>2

LEMMA PushPathKept ==
    ASSUME IInv, NEW p \in Procs, PushPath(p)
    PROVE  IInv'
<1>1. Aside /\ proc[p].pc = "loaded" /\ archive' = archive
    BY DEF PushPath, Aside, At
<1> DEFINE new(q, n) == [version |-> server[q][n] + 1, md5 |-> <<q, n, server[q][n] + 1>>]
<1>a. PICK l \in Paths, n \in Remotes, q \in Named(p) :
         /\ server' = [server EXCEPT ![q][n] = new(q, n).version]
         /\ astray' = IF TrackedOff(Mine(p), l, n, q) THEN astray \union {<<l, new(q, n)>>} ELSE astray
         /\ \/ /\ proc[p].path # "none" /\ ToSave(p, PushTracked(Mine(p), l, n, q, new(q, n)))
               /\ UNCHANGED faults
            \/ proc[p].path = "none" /\ Ends(p) /\ UNCHANGED faults
            \/ Undisturbed /\ Ends(p) /\ faults' = faults + 1
    BY ZenonT(60) DEF PushPath
<1>2. /\ server' = [server EXCEPT ![q][n] = new(q, n).version]
      /\ Ends(p) \/ ToSave(p, PushTracked(Mine(p), l, n, q, new(q, n)))
    BY <1>a
<1> DEFINE pin == new(q, n)
<1>3. q \in Projects /\ n \in Names
    BY <1>1, NamedIs DEF Names
<1>4. pin.version = server[q][n] + 1 /\ server[q][n] \in Nat
    BY <1>3, ServedIs
<1>5. server' = [server EXCEPT ![q][n] = pin.version]
    BY <1>2
<1>6. Ends(p) \/ ToSave(p, PushTracked(Mine(p), l, n, q, pin))
    BY <1>2
<1>b. astray' = IF TrackedOff(Mine(p), l, n, q) THEN astray \union {<<l, pin>>} ELSE astray
    BY <1>a
<1> HIDE DEF pin
<1>c. astray \subseteq astray' /\ (TrackedOff(Mine(p), l, n, q) => <<l, pin>> \in astray')
    BY <1>b
<1>7. pin.version \in Nat /\ server[q][n] <= pin.version
    BY <1>4
<1>8. server \in [Projects -> [Names -> Nat]]
    BY DEF IInv, Kept, Counted
<1>9. /\ server' \in [Projects -> [Names -> Nat]] /\ server'[q][n] = pin.version
      /\ \A q2 \in Projects, n2 \in Names : q2 # q \/ n2 # n => server'[q2][n2] = server[q2][n2]
    BY <1>3, <1>5, <1>7, <1>8
<1>10. \A q2 \in Projects, n2 \in Names : server[q2][n2] <= server'[q2][n2]
    BY <1>7, <1>8, <1>9
<1>11. Grows
    BY <1>1, <1>c, <1>9, <1>10, GrowsIf
<1>12. pin.version <= server'[q][n]
    BY <1>7, <1>9
<1> QED BY <1>1, <1>3, <1>6, <1>7, <1>c, <1>11, <1>12, EndsKept, PushTrackedKept

LEMMA PullPathKept ==
    ASSUME IInv, NEW p \in Procs, PullPath(p)
    PROVE  IInv'
<1>1. Aside /\ proc[p].pc = "loaded" /\ UNCHANGED <<server, archive, astray>>
    BY DEF PullPath, Working, Aside, At
<1> DEFINE Pulls(l, n, q, fetch, v) ==
             IF Elsewhere(Mine(p), l, q, n) THEN Ends(p) /\ UNCHANGED faults
             ELSE \/ ToSave(p, Tracked(Mine(p), l, n, q, v)) /\ UNCHANGED faults
                  \/ /\ v = Tip(q, n) /\ Undisturbed /\ faults' = faults + 1
                     /\ ToSave(p, Tracked(Mine(p), l, n, q,
                            [version |-> 0, md5 |-> IF fetch THEN v.md5 ELSE None]))
<1>2. PICK l \in Paths, n \in Remotes, q \in Named(p), fetch \in BOOLEAN :
         \E v \in History(q, n) :
            /\ <<l, n>> \in Targets
            /\ local' = IF fetch THEN [local EXCEPT ![l] = v.md5] ELSE local
            /\ Pulls(l, n, q, fetch, v)
    BY ZenonT(60) DEF PullPath
<1>3. q \in Projects /\ n \in Names
    BY <1>1, NamedIs DEF Names
<1>4. PICK v \in History(q, n) : Pulls(l, n, q, fetch, v)
    BY <1>2
<1> DEFINE none == [version |-> 0, md5 |-> IF fetch THEN v.md5 ELSE None]
<1>5. v.version \in Nat /\ v.version <= server'[q][n]
    BY <1>1, <1>3, ServedIs DEF History
<1>6. none.version \in Nat /\ none.version <= server'[q][n]
    BY <1>1, <1>3, ServedIs
<1>7. Ends(p) \/ ToSave(p, Tracked(Mine(p), l, n, q, v)) \/ ToSave(p, Tracked(Mine(p), l, n, q, none))
    BY <1>4
<1> HIDE DEF none
<1> QED BY <1>1, <1>3, <1>5, <1>6, <1>7, Stays, EndsKept, TrackedKept

-----------------------------------------------------------------------------
(* Commands that group, publish and pull datasets.                         *)

LEMMA RegroupsKept ==
    ASSUME IInv, NEW p \in Procs, NEW m, NEW pc, NEW next, Goes(p, m, pc, next), Aside, Grows,
           UNCHANGED <<server, astray>>,
           pc \notin {"loaded", "exporting", "created"}, next \notin {"loaded", "exporting", "created"},
           DOMAIN m = ManifestFields, m.id = Mine(p).id, Entries(m) \subseteq Entries(Mine(p)),
           Recorded(m, archive'), Keeps(Mine(p), m)
    PROVE  IInv'
<1>1. Counted(server, archive)
    BY DEF IInv, Kept
<1>2. Fine(m, server, astray, archive') /\ (rehomed \/ PinnedAtHome(m, server, astray) \/ Rehomes(disk, m))
    BY <1>1, HeldManifest, Regrouped
<1>3. Fine(m, server', astray', archive') /\ (rehomed \/ PinnedAtHome(m, server', astray') \/ Rehomes(disk, m))
    BY <1>2
<1> QED BY <1>3, GoesKept DEF Mine

(* The manifest as it is, or with a default more. *)
LEMMA PassesKept ==
    ASSUME IInv, NEW p \in Procs, NEW m, NEW pc, NEW next,
           DOMAIN m = ManifestFields, m.id = Mine(p).id, m.sets = Mine(p).sets,
           m.files = Mine(p).files, m.wikis = Mine(p).wikis,
           Goes(p, m, pc, next), Aside, UNCHANGED <<server, archive, astray>>,
           pc \notin {"loaded", "exporting", "created"}, next \notin {"loaded", "exporting", "created"}
    PROVE  IInv'
<1>1. Entries(m) = Entries(Mine(p))
    BY DEF Entries
<1> QED BY <1>1, Stays, TracksKept

LEMMA PassesOn ==
    ASSUME IInv, NEW p \in Procs, NEW pc, NEW next, Goes(p, Mine(p), pc, next),
           Aside, UNCHANGED <<server, archive, astray>>,
           pc \notin {"loaded", "exporting", "created"}, next \notin {"loaded", "exporting", "created"}
    PROVE  IInv'
BY HeldManifest, PassesKept

LEMMA OnboardArchiveKept ==
    ASSUME IInv, NEW p \in Procs, OnboardArchive(p)
    PROVE  IInv'
<1>1. Aside /\ UNCHANGED <<server, archive, astray>>
    BY DEF OnboardArchive, Offline, Working, Aside, world
<1> DEFINE v == Mine(p).defaults \union {"archive"}
           m == [Mine(p) EXCEPT !.defaults = v]
<1>2. Goes(p, Mine(p), "grouping", "idle") \/ Goes(p, m, "save", "grouping")
    BY DEF OnboardArchive
<1>3. /\ DOMAIN m = ManifestFields /\ m.id = Mine(p).id /\ m.sets = Mine(p).sets
      /\ m.files = Mine(p).files /\ m.wikis = Mine(p).wikis
    BY HeldManifest, DefaultsField
<1> HIDE DEF m, v
<1> QED BY <1>1, <1>2, <1>3, PassesKept, PassesOn

LEMMA OnboardWorkspaceKept ==
    ASSUME IInv, NEW p \in Procs, OnboardWorkspace(p)
    PROVE  IInv'
<1>1. Aside /\ UNCHANGED <<server, archive, astray>>
    BY DEF OnboardWorkspace, Offline, Working, Aside, world
<1> DEFINE v == Mine(p).defaults \union {"workspace"}
           m == [Mine(p) EXCEPT !.defaults = v]
<1>2. Goes(p, m, "save", "idle") \/ Ends(p)
    BY DEF OnboardWorkspace, ToSave
<1>3. /\ DOMAIN m = ManifestFields /\ m.id = Mine(p).id /\ m.sets = Mine(p).sets
      /\ m.files = Mine(p).files /\ m.wikis = Mine(p).wikis
    BY HeldManifest, DefaultsField
<1> HIDE DEF m, v
<1> QED BY <1>1, <1>2, <1>3, PassesKept, EndsKept, Stays

LEMMA OnboardOsfProjectKept ==
    ASSUME IInv, NEW p \in Procs, OnboardOsfProject(p)
    PROVE  IInv'
<1>1. Aside /\ UNCHANGED <<server, archive, astray>>
    BY DEF OnboardOsfProject, Offline, Working, Aside, world
<1>2. CASE Mine(p).id # None
  <2>1. Goes(p, Mine(p), "grouping", "idle")
      BY <1>2 DEF OnboardOsfProject
  <2> QED BY <1>1, <2>1, PassesOn
<1>3. CASE Mine(p).id = None
  <2>1. PICK id \in Projects : Goes(p, [Mine(p) EXCEPT !.id = id], "save", "grouping")
      BY <1>3 DEF OnboardOsfProject
  <2> DEFINE m == [Mine(p) EXCEPT !.id = id]
  <2>2. Goes(p, m, "save", "grouping")
      BY <2>1
  <2>3. /\ DOMAIN m = ManifestFields /\ m.id = id /\ m.sets = Mine(p).sets
        /\ m.files = Mine(p).files /\ m.wikis = Mine(p).wikis
      BY HeldManifest, IdField
  <2> HIDE DEF m
  <2>4. Entries(m) = Entries(Mine(p)) /\ id # None
      BY <2>3, BytesAssumption DEF Entries
  <2>5. Fine(m, server, astray, archive)
      BY <2>3, <2>4, HeldManifest DEF Fine, Formed, Pinned, Recorded
  <2>6. \A e \in Entries(m) : e.project = None => Has(server, astray, id, e)
    <3>1. \A e \in Entries(m) : e.project = None => Strayed(astray, e) \/ e.pin.version = 0
        BY <1>3, <2>4, HeldManifest DEF Fine, Pinned
    <3> SUFFICES ASSUME NEW e \in Entries(m), e.pin.version = 0 PROVE Has(server, astray, id, e)
        BY <3>1 DEF Has
    <3> DEFINE x == e.pin.version
               y == server[id][e.remote]
    <3>2. y \in Nat
        BY <2>5, ServedIs DEF Fine, Formed, IsEntry
    <3>3. x \in Nat /\ y \in Nat /\ x = 0
        BY <3>2
    <3> HIDE DEF x, y
    <3>4. x <= y
        BY <3>3
    <3> QED BY <3>4 DEF x, y, Has
  <2>7. PinnedAtHome(m, server, astray)
      BY <2>3, <2>6 DEF PinnedAtHome
  <2>8. Keeps(proc[p].m, m)
      BY <2>3, HeldManifest, KeepsRefl DEF Keeps, Mine
  <2>9. Fine(m, server', astray', archive') /\ PinnedAtHome(m, server', astray')
      BY <1>1, <2>5, <2>7
  <2> QED BY <1>1, <2>2, <2>8, <2>9, Stays, GoesKept
<1> QED BY <1>2, <1>3

(* A dataset more that was never published. *)
LEMMA NewSetForm ==
    ASSUME NEW s, NEW L, NEW b
    PROVE  /\ DOMAIN NewSet(s, L, b) = SetFields
           /\ NewSet(s, L, b).record = 0 /\ NewSet(s, L, b).version = 0
           /\ NewSet(s, L, b).slug = s
BY DEF NewSet, SetFields

LEMMA MoreSets ==
    ASSUME NEW m, NEW m2, NEW S, NEW sv, NEW as, NEW ar, Fine(m, sv, as, ar), m2.sets = m.sets \union S,
           \A d \in S : DOMAIN d = SetFields /\ d.record = 0 /\ d.version = 0
    PROVE  Recorded(m2, ar) /\ Keeps(m, m2)
<1>1. Recorded(m2, ar)
    BY DEF Fine, Recorded
<1>2. Keeps(m, m2)
    BY KeepsRefl DEF Keeps
<1> QED BY <1>1, <1>2

LEMMA OnboardDatasetKept ==
    ASSUME IInv, NEW p \in Procs, OnboardDataset(p)
    PROVE  IInv'
<1>1. Aside /\ UNCHANGED <<server, archive, astray>>
    BY DEF OnboardDataset, Offline, Working, Aside, world
<1>2. CASE Goes(p, Mine(p), "offering", "idle")
    BY <1>1, <1>2, PassesOn
<1>3. CASE \E selected, slug, reviewed :
             Goes(p, [Mine(p) EXCEPT !.sets = @ \union {NewSet(slug, selected, reviewed)}],
                  "save", "offering")
  <2>1. PICK selected, slug, reviewed :
             Goes(p, [Mine(p) EXCEPT !.sets = @ \union {NewSet(slug, selected, reviewed)}],
                  "save", "offering")
      BY <1>3
  <2> DEFINE d == NewSet(slug, selected, reviewed)
             T == {d}
             S == Mine(p).sets \union T
             m == [Mine(p) EXCEPT !.sets = S]
  <2>2. Goes(p, m, "save", "offering")
      BY <2>1
  <2>3. \A x \in T : DOMAIN x = SetFields /\ x.record = 0 /\ x.version = 0
      BY NewSetForm
  <2>4. /\ DOMAIN m = ManifestFields /\ m.id = Mine(p).id /\ m.sets = S
        /\ m.files = Mine(p).files /\ m.wikis = Mine(p).wikis
      BY HeldManifest, SetsField
  <2>5. m.sets = Mine(p).sets \union T
      BY <2>4
  <2> HIDE DEF m, S, T, d
  <2>8. Fine(Mine(p), server, astray, archive)
      BY HeldManifest
  <2>6. Recorded(m, archive) /\ Keeps(Mine(p), m)
      BY <2>3, <2>5, <2>8, MoreSets
  <2>7. Recorded(m, archive') /\ Entries(m) = Entries(Mine(p))
      BY <1>1, <2>4, <2>6 DEF Entries
  <2> QED BY <1>1, <2>2, <2>4, <2>6, <2>7, Stays, RegroupsKept
<1> QED BY <1>2, <1>3 DEF OnboardDataset

(* One dataset of a manifest goes on to a later version of its record, or  *)
(* to its first.                                                           *)
LEMMA Replaced ==
    ASSUME NEW m, NEW m2, NEW d \in m.sets, NEW e, NEW sv, NEW as, NEW ar, NEW ar2, Counted(sv, ar), Counted(sv, ar2),
           Grown(sv, as, ar, sv, as, ar2), Fine(m, sv, as, ar), m2.sets = (m.sets \ {d}) \union {e},
           DOMAIN e = SetFields, e.record \in Nat, e.version \in Nat,
           e.record > 0 => /\ e.slug \in Slugs /\ e.record <= Len(ar2[e.slug])
                           /\ e.version <= ar2[e.slug][e.record],
           d.record > 0 => e.slug = d.slug /\ e.record = d.record /\ e.version >= d.version
    PROVE  Recorded(m2, ar2) /\ Keeps(m, m2)
<1>1. Fine(m, sv, as, ar2)
    BY FineGrows
<1>2. Recorded(m2, ar2)
    BY <1>1 DEF Fine, Recorded
<1>3. Keeps(m, m)
    BY KeepsRefl
<1>4. Keeps(m, m2)
  <2> SUFFICES ASSUME NEW x \in m.sets, x.record > 0
               PROVE  \E y \in m2.sets : y.slug = x.slug /\ y.record = x.record /\ y.version >= x.version
      BY DEF Keeps
  <2>1. CASE x = d
      BY <2>1
  <2>2. CASE x # d
    <3>1. x \in m2.sets
        BY <2>2
    <3>2. x.version \in Nat
        BY DEF Fine, Recorded
    <3>3. x.version >= x.version
        BY <3>2
    <3> QED BY <3>1, <3>3
  <2> QED BY <2>1, <2>2
<1> QED BY <1>2, <1>4

LEMMA PublishNothingKept ==
    ASSUME IInv, NEW p \in Procs, PublishNothing(p)
    PROVE  IInv'
<1>1. Aside /\ UNCHANGED <<server, archive, astray>>
    BY DEF PublishNothing, Offline, Working, Aside, world
<1>2. Ends(p) \/ Goes(p, Mine(p), "save", "idle")
    BY DEF PublishNothing, ToSave
<1> QED BY <1>1, <1>2, Stays, EndsKept, PassesOn

LEMMA PullDatasetKept ==
    ASSUME IInv, NEW p \in Procs, PullDataset(p)
    PROVE  IInv'
<1>1. Aside /\ UNCHANGED <<server, archive, astray>>
    BY DEF PullDataset, Working, Aside
<1>2. PICK d \in Mine(p).sets :
         /\ d.record > 0
         /\ \E v \in {d.version, archive[d.slug][d.record]} :
              ToSave(p, [Mine(p) EXCEPT !.sets = (@ \ {d}) \union {[d EXCEPT !.version = v]}])
    BY DEF PullDataset
<1>3. PICK v \in {d.version, archive[d.slug][d.record]} :
         ToSave(p, [Mine(p) EXCEPT !.sets = (@ \ {d}) \union {[d EXCEPT !.version = v]}])
    BY <1>2
<1> DEFINE e == [d EXCEPT !.version = v]
           S == (Mine(p).sets \ {d}) \union {e}
           m == [Mine(p) EXCEPT !.sets = S]
<1>4. Goes(p, m, "save", "idle")
    BY <1>3 DEF ToSave
<1>5. /\ DOMAIN d = SetFields /\ d.record \in Nat /\ d.version \in Nat /\ d.slug \in Slugs
      /\ d.record <= Len(archive[d.slug]) /\ d.version <= archive[d.slug][d.record]
    BY <1>2, HeldManifest DEF Fine, Recorded
<1>6. DOMAIN e = SetFields /\ e.record = d.record /\ e.slug = d.slug /\ e.version = v
    BY <1>5 DEF SetFields
<1>7. /\ DOMAIN m = ManifestFields /\ m.id = Mine(p).id /\ m.sets = S
      /\ m.files = Mine(p).files /\ m.wikis = Mine(p).wikis
    BY HeldManifest, SetsField
<1>8. archive[d.slug][d.record] \in Nat
  <2>1. archive[d.slug] \in Seq(Nat)
      BY <1>5 DEF IInv, Kept, Counted
  <2>2. d.record \in 1..Len(archive[d.slug])
      BY <1>2, <1>5, <2>1
  <2> QED BY <2>1, <2>2
<1>9. m.sets = (Mine(p).sets \ {d}) \union {e}
    BY <1>7
<1> HIDE DEF e, S, m
<1> DEFINE x == archive[d.slug][d.record]
           y == d.version
<1>10. x \in Nat /\ y \in Nat /\ y <= x /\ v \in {y, x}
    BY <1>5, <1>8
<1> HIDE DEF x, y
<1>11. v \in Nat /\ v >= y /\ v <= x
    BY <1>10
<1>12. e.version \in Nat /\ e.version >= d.version /\ e.version <= archive[e.slug][e.record]
    BY <1>6, <1>11 DEF x, y
<1>13. Counted(server, archive) /\ Grown(server, astray, archive, server, astray, archive)
    BY GrownRefl DEF IInv, Kept
<1>14. Recorded(m, archive) /\ Keeps(Mine(p), m)
    BY <1>5, <1>6, <1>9, <1>12, <1>13, HeldManifest, Replaced
<1>15. Recorded(m, archive') /\ Entries(m) = Entries(Mine(p))
    BY <1>1, <1>7, <1>14 DEF Entries
<1> QED BY <1>1, <1>4, <1>7, <1>14, <1>15, Stays, RegroupsKept

LEMMA OneMore ==
    ASSUME NEW a \in Seq(Nat)
    PROVE  /\ Append(a, 1) \in Seq(Nat) /\ Len(Append(a, 1)) = Len(a) + 1
           /\ Append(a, 1)[Len(a) + 1] = 1
           /\ \A i \in 1..Len(a) : a[i] <= Append(a, 1)[i]
<1>1. \A i \in 1..Len(a) : a[i] \in Nat /\ Append(a, 1)[i] = a[i]
    OBVIOUS
<1>2. \A i \in 1..Len(a) : a[i] <= Append(a, 1)[i]
    BY <1>1
<1> QED BY <1>2

LEMMA OneRaised ==
    ASSUME NEW a \in Seq(Nat), NEW r \in 1..Len(a), NEW v \in Nat, a[r] <= v
    PROVE  LET b == [a EXCEPT ![r] = v]
           IN  /\ b \in Seq(Nat) /\ Len(b) = Len(a) /\ b[r] = v
               /\ \A i \in 1..Len(a) : a[i] <= b[i]
<1> DEFINE b == [a EXCEPT ![r] = v]
<1>1. b \in Seq(Nat) /\ Len(b) = Len(a)
    BY ExceptSeq
<1>2. b[r] = v /\ \A i \in 1..Len(a) : i # r => b[i] = a[i]
    OBVIOUS
<1>3. \A i \in 1..Len(a) : a[i] \in Nat
    OBVIOUS
<1> HIDE DEF b
<1>4. ASSUME NEW i \in 1..Len(a) PROVE a[i] <= b[i]
  <2>1. CASE i = r
      BY <2>1, <1>2
  <2>2. CASE i # r
    <3>1. a[i] \in Nat /\ b[i] = a[i]
        BY <2>2, <1>2, <1>3
    <3> QED BY <3>1
  <2> QED BY <2>1, <2>2
<1> QED BY <1>1, <1>2, <1>4 DEF b

(* The archive of one slug grows, at d's record. *)
LEMMA ArchiveGrows ==
    ASSUME IInv, NEW s \in Slugs, NEW b \in Seq(Nat), archive' = [archive EXCEPT ![s] = b],
           UNCHANGED <<server, astray>>, Len(archive[s]) <= Len(b),
           \A i \in 1..Len(archive[s]) : archive[s][i] <= b[i]
    PROVE  Grows /\ archive'[s] = b
<1>1. Counted(server, archive) /\ Grown(server, astray, archive, server, astray, archive)
    BY GrownRefl DEF IInv, Kept
<1>2. /\ DOMAIN archive' = Slugs /\ archive'[s] = b
      /\ \A t \in Slugs : t # s => archive'[t] = archive[t]
    BY <1>1 DEF Counted
<1>3. archive' \in [Slugs -> Seq(Nat)]
    BY <1>1 DEF Counted
<1>4. \A t \in Slugs : /\ Len(archive[t]) <= Len(archive'[t])
                       /\ \A i \in 1..Len(archive[t]) : archive[t][i] <= archive'[t][i]
    BY <1>1, <1>2 DEF Grown
<1> QED BY <1>1, <1>2, <1>3, <1>4 DEF Grows, Counted, Grown

(* What a publish does to the archive, and what it saves. *)
LEMMA PublishForm ==
    ASSUME IInv, NEW p \in Procs, Publish(p)
    PROVE  \E d \in Mine(p).sets : \E e, m :
              /\ Goes(p, m, "save", "idle") /\ Grows /\ Aside /\ UNCHANGED <<server, astray>>
              /\ d.slug \in Slugs /\ d.record \in Nat /\ e.slug = d.slug /\ e.record \in Nat /\ e.record > 0
              /\ DOMAIN m = ManifestFields /\ m.id = Mine(p).id /\ Entries(m) = Entries(Mine(p))
              /\ m.sets = (Mine(p).sets \ {d}) \union {e}
              /\ Recorded(m, archive') /\ Keeps(Mine(p), m)
              /\ \A t \in Slugs : t # d.slug => archive'[t] = archive[t]
              /\ Len(archive'[d.slug]) = Len(archive[d.slug]) + (IF d.record = 0 THEN 1 ELSE 0)
<1>1. PICK d \in Mine(p).sets :
         /\ ~Unseen(d) /\ d.slug \in Slugs
         /\ archive' = [archive EXCEPT ![d.slug] =
                IF d.record = 0 THEN Append(@, 1) ELSE [@ EXCEPT ![d.record] = d.version + 1]]
         /\ ToSave(p, [Mine(p) EXCEPT !.sets = (@ \ {d}) \union {Published(d)}])
    BY DEF Publish
<1>2. Aside /\ UNCHANGED <<server, astray>>
    BY DEF Publish, Working, Aside
<1> DEFINE e == Published(d)
           S == (Mine(p).sets \ {d}) \union {e}
           m == [Mine(p) EXCEPT !.sets = S]
           a == archive[d.slug]
           b == IF d.record = 0 THEN Append(a, 1) ELSE [a EXCEPT ![d.record] = d.version + 1]
<1>3. Goes(p, m, "save", "idle")
    BY <1>1 DEF ToSave
<1>4. /\ DOMAIN m = ManifestFields /\ m.id = Mine(p).id /\ m.sets = (Mine(p).sets \ {d}) \union {e}
      /\ m.files = Mine(p).files /\ m.wikis = Mine(p).wikis
    BY HeldManifest, SetsField
<1>5. a \in Seq(Nat) /\ DOMAIN archive = Slugs
    BY <1>1 DEF IInv, Kept, Counted
<1>6. archive' = [archive EXCEPT ![d.slug] = b]
    BY <1>1
<1>7. /\ DOMAIN d = SetFields /\ d.record \in Nat /\ d.version \in Nat
      /\ d.record > 0 => d.record <= Len(a) /\ d.version <= a[d.record]
    BY HeldManifest DEF Fine, Recorded
<1>8. /\ DOMAIN e = SetFields /\ e.slug = d.slug
      /\ d.record = 0 => e.record = Len(a) + 1 /\ e.version = 1
      /\ d.record # 0 => e.record = d.record /\ e.version = d.version + 1
    BY <1>7 DEF Published, SetFields
<1>9. d.record # 0 => d.record \in 1..Len(a) /\ a[d.record] <= d.version + 1
  <2> SUFFICES ASSUME d.record # 0 PROVE d.record \in 1..Len(a) /\ a[d.record] <= d.version + 1
      OBVIOUS
  <2>1. d.record > 0 /\ d.record \in 1..Len(a)
      BY <1>5, <1>7
  <2>2. a[d.record] \in Nat
      BY <1>5, <2>1
  <2>3. ~(a[d.record] > d.version)
      BY <1>1, <2>1 DEF Unseen
  <2> QED BY <1>7, <2>1, <2>2, <2>3
<1> HIDE DEF e, S, m
<1>10. /\ b \in Seq(Nat) /\ Len(b) = Len(a) + (IF d.record = 0 THEN 1 ELSE 0)
       /\ \A i \in 1..Len(a) : a[i] <= b[i]
       /\ e.record \in Nat /\ e.record > 0 /\ e.record <= Len(b) /\ e.version \in Nat
       /\ e.version <= b[e.record]
  <2>1. CASE d.record = 0
      BY <2>1, <1>5, <1>8, OneMore
  <2>2. CASE d.record # 0
    <3>1. d.version + 1 \in Nat
        BY <1>7
    <3>2. /\ b \in Seq(Nat) /\ Len(b) = Len(a) /\ b[d.record] = d.version + 1
          /\ \A i \in 1..Len(a) : a[i] <= b[i]
        BY <2>2, <3>1, <1>5, <1>9, OneRaised
    <3> QED BY <2>2, <3>1, <3>2, <1>5, <1>7, <1>8, <1>9
  <2> QED BY <2>1, <2>2
<1> HIDE DEF b
<1>11. Len(a) <= Len(b)
  <2> DEFINE x == Len(a)
             y == Len(b)
  <2>1. x \in Nat /\ b \in Seq(Nat)
      BY <1>5, <1>10
  <2>2. y \in Nat
      BY <2>1
  <2>3. y = x + (IF d.record = 0 THEN 1 ELSE 0)
      BY <1>10
  <2> HIDE DEF x, y
  <2>4. x <= y
      BY <2>1, <2>2, <2>3
  <2> QED BY <2>4 DEF x, y
<1>12. Grows /\ archive'[d.slug] = b
    BY <1>1, <1>2, <1>6, <1>10, <1>11, ArchiveGrows
<1>13. \A t \in Slugs : t # d.slug => archive'[t] = archive[t]
    BY <1>5, <1>6
<1>14. d.record > 0 => e.slug = d.slug /\ e.record = d.record /\ e.version >= d.version
    BY <1>7, <1>8
<1>15. Counted(server, archive) /\ Counted(server, archive') /\ Grown(server, astray, archive, server, astray, archive')
    BY <1>2, <1>12 DEF Grows, IInv, Kept
<1>16. Recorded(m, archive') /\ Keeps(Mine(p), m)
  <2>1. Fine(Mine(p), server, astray, archive)
      BY HeldManifest
  <2>2. e.record > 0 => /\ e.slug \in Slugs /\ e.record <= Len(archive'[e.slug])
                        /\ e.version <= archive'[e.slug][e.record]
      BY <1>1, <1>8, <1>10, <1>12
  <2>3. DOMAIN e = SetFields /\ e.record \in Nat /\ e.version \in Nat
      BY <1>8, <1>10
  <2> QED BY <1>4, <1>14, <1>15, <2>1, <2>2, <2>3, Replaced
<1>17. Entries(m) = Entries(Mine(p))
    BY <1>4 DEF Entries
<1> HIDE DEF a
<1>18. Len(archive'[d.slug]) = Len(archive[d.slug]) + (IF d.record = 0 THEN 1 ELSE 0)
    BY <1>10, <1>12 DEF a
<1>19. d.slug \in Slugs /\ d.record \in Nat /\ e.slug = d.slug /\ e.record \in Nat /\ e.record > 0
    BY <1>1, <1>7, <1>8, <1>10
<1> QED BY <1>2, <1>3, <1>4, <1>12, <1>13, <1>16, <1>17, <1>18, <1>19

LEMMA PublishKept ==
    ASSUME IInv, NEW p \in Procs, Publish(p)
    PROVE  IInv'
<1>1. PICK m :
         /\ Goes(p, m, "save", "idle") /\ Grows /\ Aside /\ UNCHANGED <<server, astray>>
         /\ DOMAIN m = ManifestFields /\ m.id = Mine(p).id /\ Entries(m) = Entries(Mine(p))
         /\ Recorded(m, archive') /\ Keeps(Mine(p), m)
    BY PublishForm
<1> QED BY <1>1, RegroupsKept

-----------------------------------------------------------------------------
(* Migration.                                                              *)

LEMMA MigrateGuidKept ==
    ASSUME IInv, NEW p \in Procs, MigrateGuid(p)
    PROVE  IInv'
<1>1. Aside /\ UNCHANGED <<server, archive, astray>>
    BY DEF MigrateGuid, Aside, world
<1>2. disk # NoManifest => Loads(disk)
    BY DEF MigrateGuid
<1> DEFINE m == IF disk = NoManifest THEN Empty ELSE disk
<1>3. PICK plan : proc' = [proc EXCEPT ![p] = [Idle EXCEPT
                !.cmd = "migrate guid", !.pc = "exporting", !.base = disk, !.m = m, !.plan = plan]]
    BY DEF MigrateGuid
<1> DEFINE r == [Idle EXCEPT !.cmd = "migrate guid", !.pc = "exporting", !.base = disk, !.m = m,
                             !.plan = plan]
<1>4. /\ DOMAIN r = CommandFields /\ r.m = m /\ r.base = disk /\ r.pc = "exporting"
      /\ r.cmd = "migrate guid" /\ r.next = "idle"
    BY DEF Idle, CommandFields
<1>5. proc' = [proc EXCEPT ![p] = r]
    BY <1>3
<1>6. Fine(m, server, astray, archive) /\ (rehomed \/ PinnedAtHome(m, server, astray)) /\ UniqueSlugs(m)
  <2>1. CASE disk = NoManifest
    <3>1. m = Empty /\ Entries(Empty) = {}
        BY <2>1, EmptyForm DEF Entries
    <3> QED BY <3>1, EmptyForm, NewForm
  <2>2. CASE disk # NoManifest
      BY <1>2, <2>2 DEF IInv, Kept, OnDisk, Loads, SetsValid, UniqueSlugs
  <2> QED BY <2>1, <2>2
<1>7. disk # NoManifest => disk = m
    OBVIOUS
<1> HIDE DEF r, m
<1>8. disk # NoManifest => Fine(disk, server, astray, archive) /\ Keeps(disk, m)
    BY <1>6, <1>7, KeepsRefl
<1>9. Situated(r)
    BY <1>4, <1>6 DEF Situated
<1>10. Held(r, disk, server, astray, archive, rehomed)
    BY <1>4, <1>6, <1>8, <1>9 DEF Held
<1>11. Held(r, disk, server', astray', archive', rehomed)
    BY <1>1, <1>10
<1> QED BY <1>1, <1>5, <1>11, Stays, MovesKept

LEMMA CheckedKept ==
    ASSUME IInv, NEW p \in Procs, NEW i, Checked(p, i), Aside, UNCHANGED <<server, archive, astray>>
    PROVE  IInv'
<1> DEFINE r == [proc[p] EXCEPT !.plan = (@ \ {i}) \union {[i EXCEPT !.done = TRUE]}]
<1>1. proc' = [proc EXCEPT ![p] = r]
    BY DEF Checked
<1>2. DOMAIN proc[p] = CommandFields
    BY HeldBy DEF Held
<1>3. /\ DOMAIN r = CommandFields /\ r.m = proc[p].m /\ r.base = proc[p].base
      /\ r.cmd = proc[p].cmd /\ r.path = proc[p].path /\ r.next = proc[p].next /\ r.pc = proc[p].pc
    BY <1>2 DEF CommandFields
<1> HIDE DEF r
<1> QED BY <1>1, <1>3, PlansKept

LEMMA MigrateScanKept ==
    ASSUME IInv, NEW p \in Procs, MigrateScan(p)
    PROVE  IInv'
<1>1. Aside /\ UNCHANGED <<server, archive, astray>>
    BY DEF MigrateScan, Offline, Working, Aside, world
<1>2. \/ Ends(p)
      \/ \E plan : proc' = [proc EXCEPT ![p].pc = "fetching", ![p].plan = plan]
    BY DEF MigrateScan
<1>3. CASE Ends(p)
    BY <1>1, <1>3, Stays, EndsKept
<1>4. CASE \E plan : proc' = [proc EXCEPT ![p].pc = "fetching", ![p].plan = plan]
  <2>1. PICK plan : proc' = [proc EXCEPT ![p].pc = "fetching", ![p].plan = plan]
      BY <1>4
  <2> DEFINE r == [proc[p] EXCEPT !.pc = "fetching", !.plan = plan]
  <2>2. proc' = [proc EXCEPT ![p] = r]
      BY <2>1 DEF IInv, Kept
  <2>3. DOMAIN proc[p] = CommandFields
      BY HeldBy DEF Held
  <2>4. /\ DOMAIN r = CommandFields /\ r.m = proc[p].m /\ r.base = proc[p].base
        /\ r.cmd = proc[p].cmd /\ r.path = proc[p].path /\ r.next = proc[p].next
        /\ r.pc = "fetching"
      BY <2>3 DEF CommandFields
  <2> HIDE DEF r
  <2> QED BY <1>1, <2>2, <2>4, PlansKept
<1> QED BY <1>2, <1>3, <1>4

(* mergeMigratedManifest and the rewrite leave no entry, and no record     *)
(* without its dataset.                                                    *)
LEMMA GroupedForm ==
    ASSUME NEW locals, NEW group, NEW taken
    PROVE  \A d \in Grouped(locals, group, taken) :
               DOMAIN d = SetFields /\ d.record = 0 /\ d.version = 0
<1> TAKE d \in Grouped(locals, group, taken)
<1>1. PICK g \in {group[l] : l \in locals} :
         d = NewSet(Dedupe(g, taken), {l \in locals : group[l] = g}, FALSE)
    BY DEF Grouped
<1> DEFINE s == Dedupe(g, taken)
           L == {l \in locals : group[l] = g}
<1>2. d = NewSet(s, L, FALSE)
    BY <1>1
<1> HIDE DEF s, L
<1> QED BY <1>2 DEF NewSet, SetFields

LEMMA ExportedForm ==
    ASSUME NEW plan
    PROVE  \A d \in ExportedSets(plan) : DOMAIN d = SetFields /\ d.record = 0 /\ d.version = 0
<1> TAKE d \in ExportedSets(plan)
<1>1. PICK q : d = NewSet(SlugOf(q),
                          {PathOf(i) : i \in {i \in plan : i.node = q /\ ~IsPage(i)}}, FALSE)
    BY DEF ExportedSets
<1> DEFINE s == SlugOf(q)
           L == {PathOf(i) : i \in {i \in plan : i.node = q /\ ~IsPage(i)}}
<1>2. d = NewSet(s, L, FALSE)
    BY <1>1
<1> HIDE DEF s, L
<1> QED BY <1>2 DEF NewSet, SetFields

LEMMA DatasetIs ==
    ASSUME NEW m, NEW slug, slug \in SlugsOf(m.sets)
    PROVE  Dataset(m, slug) \in m.sets /\ Dataset(m, slug).slug = slug
<1>1. \E d \in m.sets : d.slug = slug
    BY DEF SlugsOf
<1> QED BY <1>1 DEF Dataset

LEMMA CarriedForm ==
    ASSUME NEW m, NEW sv, NEW as, NEW ar, Fine(m, sv, as, ar), NEW d, DOMAIN d = SetFields, d.record = 0,
           d.version = 0
    PROVE  LET c == Carried(d, m)
           IN  /\ DOMAIN c = SetFields /\ c.slug = d.slug
               /\ d.slug \notin SlugsOf(m.sets) => c = d
               /\ d.slug \in SlugsOf(m.sets) =>
                     c.record = Dataset(m, d.slug).record /\ c.version = Dataset(m, d.slug).version
BY DEF Carried, SetFields

LEMMA MergedForm ==
    ASSUME NEW m, NEW sets, NEW pages, NEW sv, NEW as, NEW ar, Fine(m, sv, as, ar), UniqueSlugs(m),
           \A d \in sets : DOMAIN d = SetFields /\ d.record = 0 /\ d.version = 0
    PROVE  LET m2 == Merge(m, sets, pages)
           IN  /\ DOMAIN m2 = ManifestFields /\ m2.id = m.id /\ Entries(m2) = {}
               /\ Recorded(m2, ar) /\ Keeps(m, m2)
<1> DEFINE m2 == Merge(m, sets, pages)
           S == {Carried(d, m) : d \in sets} \union {d \in m.sets : d.slug \notin SlugsOf(sets)}
<1>1. DOMAIN m = ManifestFields /\ Recorded(m, ar)
    BY DEF Fine, Formed
<1>2. /\ DOMAIN m2 = ManifestFields /\ m2.id = m.id /\ m2.files = {} /\ m2.wikis = {}
      /\ m2.sets = S
    BY <1>1 DEF Merge, ManifestFields
<1> HIDE DEF m2
<1>3. Entries(m2) = {}
    BY <1>2 DEF Entries
<1>4. ASSUME NEW c \in S
      PROVE  /\ DOMAIN c = SetFields /\ c.record \in Nat /\ c.version \in Nat
             /\ c.record > 0 => /\ c.slug \in Slugs /\ c.record <= Len(ar[c.slug])
                                /\ c.version <= ar[c.slug][c.record]
  <2>1. CASE c \in m.sets
      BY <1>1, <2>1 DEF Recorded
  <2>2. CASE \E d \in sets : c = Carried(d, m)
    <3>1. PICK d \in sets : c = Carried(d, m)
        BY <2>2
    <3>2. /\ DOMAIN c = SetFields /\ c.slug = d.slug
          /\ d.slug \notin SlugsOf(m.sets) => c = d
          /\ d.slug \in SlugsOf(m.sets) =>
                c.record = Dataset(m, d.slug).record /\ c.version = Dataset(m, d.slug).version
        BY <3>1, CarriedForm
    <3>3. CASE d.slug \notin SlugsOf(m.sets)
        BY <3>2, <3>3
    <3>4. CASE d.slug \in SlugsOf(m.sets)
      <4>1. Dataset(m, d.slug) \in m.sets /\ Dataset(m, d.slug).slug = d.slug
          BY <3>4, DatasetIs
      <4> QED BY <3>2, <3>4, <4>1, <1>1 DEF Recorded
    <3> QED BY <3>3, <3>4
  <2> QED BY <2>1, <2>2
<1>5. Recorded(m2, ar)
    BY <1>2, <1>4 DEF Recorded
<1>6. Keeps(m, m2)
  <2> SUFFICES ASSUME NEW x \in m.sets, x.record > 0
               PROVE  \E y \in S : y.slug = x.slug /\ y.record = x.record /\ y.version >= x.version
      BY <1>2 DEF Keeps
  <2>1. x.version \in Nat
      BY <1>1 DEF Recorded
  <2>2. x.version >= x.version
      BY <2>1
  <2>3. CASE x.slug \notin SlugsOf(sets)
      BY <2>2, <2>3
  <2>4. CASE x.slug \in SlugsOf(sets)
    <3>1. PICK d \in sets : d.slug = x.slug
        BY <2>4 DEF SlugsOf
    <3>2. d.slug \in SlugsOf(m.sets)
        BY <3>1 DEF SlugsOf
    <3>3. Dataset(m, d.slug) = x
        BY <3>1, <3>2, DatasetIs DEF UniqueSlugs
    <3> DEFINE c == Carried(d, m)
    <3>4. c.slug = d.slug /\ c.record = x.record /\ c.version = x.version
        BY <3>2, <3>3, CarriedForm
    <3>5. c \in S
        OBVIOUS
    <3> HIDE DEF c
    <3> QED BY <2>2, <3>1, <3>4, <3>5
  <2> QED BY <2>3, <2>4
<1> QED BY <1>2, <1>3, <1>5, <1>6 DEF m2

LEMMA MergeExportKept ==
    ASSUME IInv, NEW p \in Procs, MergeExport(p)
    PROVE  IInv'
<1>1. Aside /\ UNCHANGED <<server, archive, astray>> /\ proc[p].pc = "exporting" /\ proc[p].cmd = "migrate guid"
    BY DEF MergeExport, Offline, Working, Aside, world, At
<1> DEFINE sets == ExportedSets(proc[p].plan)
           pages == ExportedPages(proc[p].plan)
           m == Merge(Mine(p), sets, pages)
<1>2. Goes(p, m, "save", "provenance")
    BY DEF MergeExport
<1>3. UniqueSlugs(Mine(p))
    BY <1>1, HeldBy DEF Held, Situated, Mine
<1>4. \A d \in sets : DOMAIN d = SetFields /\ d.record = 0 /\ d.version = 0
    BY ExportedForm
<1> HIDE DEF sets, pages
<1>5. /\ DOMAIN m = ManifestFields /\ m.id = Mine(p).id /\ Entries(m) = {}
      /\ Recorded(m, archive) /\ Keeps(Mine(p), m)
    BY <1>3, <1>4, HeldManifest, MergedForm
<1> HIDE DEF m
<1>6. Recorded(m, archive')
    BY <1>1, <1>5
<1> QED BY <1>1, <1>2, <1>5, <1>6, Stays, RegroupsKept

LEMMA MigrateRewriteKept ==
    ASSUME IInv, NEW p \in Procs, MigrateRewrite(p)
    PROVE  IInv'
<1>1. Aside /\ UNCHANGED <<server, archive, astray>>
    BY DEF MigrateRewrite, Offline, Working, Aside, world
<1>2. PICK group : Goes(p, Rewritten(Mine(p), {i.entry : i \in proc[p].plan}, group), "save", "provenance")
    BY DEF MigrateRewrite
<1> DEFINE kept == {i.entry : i \in proc[p].plan}
           m == Rewritten(Mine(p), kept, group)
           S == Grouped({l \in LocalsOf(kept \cap Mine(p).files) : local[l] # None}, group,
                        SlugsOf(Mine(p).sets))
<1>3. Goes(p, m, "save", "provenance")
    BY <1>2
<1>4. \A d \in S : DOMAIN d = SetFields /\ d.record = 0 /\ d.version = 0
    BY GroupedForm
<1>5. DOMAIN Mine(p) = ManifestFields /\ Fine(Mine(p), server, astray, archive)
    BY HeldManifest
<1>6. /\ DOMAIN m = ManifestFields /\ m.id = None /\ m.files = {} /\ m.wikis = {}
      /\ m.sets = Mine(p).sets \union S
    BY <1>5 DEF Rewritten, ManifestFields
<1> HIDE DEF m, S, kept
<1>7. Recorded(m, archive) /\ Keeps(Mine(p), m)
    BY <1>4, <1>5, <1>6, MoreSets
<1>8. Entries(m) = {}
    BY <1>6 DEF Entries
<1>9. Fine(m, server, astray, archive) /\ PinnedAtHome(m, server, astray)
    BY <1>6, <1>7, <1>8 DEF Fine, Formed, Pinned, PinnedAtHome
<1>10. Fine(m, server', astray', archive') /\ PinnedAtHome(m, server', astray')
    BY <1>1, <1>9
<1> QED BY <1>1, <1>3, <1>7, <1>10, Stays, GoesKept DEF Mine

LEMMA MigrateStepKept ==
    ASSUME IInv, NEW p \in Procs, MigrateStep(p)
    PROVE  IInv'
<1>1. CASE MigrateGuid(p)
    BY <1>1, MigrateGuidKept
<1>2. CASE ExportFile(p) \/ ExportPage(p) \/ MigrateFetch(p)
  <2>1. Aside /\ UNCHANGED <<server, archive, astray>> /\ \E i : Checked(p, i)
      BY <1>2 DEF ExportFile, ExportPage, MigrateFetch, Export, Working, Aside
  <2> QED BY <2>1, CheckedKept
<1>3. CASE ExportChanged(p) \/ ExportFails(p) \/ MigrateFetchFails(p) \/ WriteProvenance(p)
  <2>1. Aside /\ UNCHANGED <<server, archive, astray>> /\ Ends(p)
      BY <1>3 DEF ExportChanged, ExportFails, MigrateFetchFails, WriteProvenance, Export, Offline,
                  Working, Aside, world
  <2> QED BY <2>1, Stays, EndsKept
<1>4. CASE MergeExport(p)
    BY <1>4, MergeExportKept
<1>5. CASE MigrateManifest(p)
    BY <1>5, LoadKept DEF MigrateManifest
<1>6. CASE MigrateScan(p)
    BY <1>6, MigrateScanKept
<1>7. CASE MigrateRewrite(p)
    BY <1>7, MigrateRewriteKept
<1> QED BY <1>1, <1>2, <1>3, <1>4, <1>5, <1>6, <1>7 DEF MigrateStep

-----------------------------------------------------------------------------
(* The world around, and where it all begins.                              *)

LEMMA ReviewKept ==
    ASSUME IInv, Review
    PROVE  /\ IInv' /\ Keeps(disk, disk') /\ DOMAIN disk' = ManifestFields
           /\ \A s : Knows(disk, s) => Knows(disk', s)
<1>1. /\ disk # NoManifest /\ UNCHANGED <<legacy, server, archive, proc, rehomed, astray>>
      /\ \E d \in disk.sets :
            disk' = [disk EXCEPT !.sets = (@ \ {d}) \union {[d EXCEPT !.reviewed = TRUE]}]
    BY DEF Review, world
<1>2. PICK d \in disk.sets :
            disk' = [disk EXCEPT !.sets = (@ \ {d}) \union {[d EXCEPT !.reviewed = TRUE]}]
    BY <1>1
<1> DEFINE e == [d EXCEPT !.reviewed = TRUE]
           S == (disk.sets \ {d}) \union {e}
           m == [disk EXCEPT !.sets = S]
<1>3. disk' = m
    BY <1>2
<1>4. Fine(disk, server, astray, archive) /\ (rehomed \/ PinnedAtHome(disk, server, astray))
    BY <1>1 DEF IInv, Kept, OnDisk
<1>5. /\ DOMAIN d = SetFields /\ d.record \in Nat /\ d.version \in Nat
      /\ d.record > 0 => /\ d.slug \in Slugs /\ d.record <= Len(archive[d.slug])
                         /\ d.version <= archive[d.slug][d.record]
    BY <1>4 DEF Fine, Recorded
<1>6. DOMAIN e = SetFields /\ e.record = d.record /\ e.slug = d.slug /\ e.version = d.version
    BY <1>5 DEF SetFields
<1>7. /\ DOMAIN m = ManifestFields /\ m.id = disk.id /\ m.sets = S
      /\ m.files = disk.files /\ m.wikis = disk.wikis
    BY <1>4, SetsField DEF Fine, Formed
<1>8. m.sets = (disk.sets \ {d}) \union {e}
    BY <1>7
<1> HIDE DEF e, S, m
<1>9. Counted(server, archive) /\ Grown(server, astray, archive, server, astray, archive)
    BY GrownRefl DEF IInv, Kept
<1>10. e.version >= d.version
    BY <1>5, <1>6
<1>11. Recorded(m, archive) /\ Keeps(disk, m)
    BY <1>4, <1>5, <1>6, <1>8, <1>9, <1>10, Replaced
<1>12. Entries(m) = Entries(disk)
    BY <1>7 DEF Entries
<1>13. Fine(m, server, astray, archive) /\ (PinnedAtHome(disk, server, astray) => PinnedAtHome(m, server, astray))
    BY <1>4, <1>7, <1>11, <1>12 DEF Fine, Formed, Pinned, PinnedAtHome
<1>14. m # NoManifest
    BY <1>7, EmptyForm
<1>15. OnDisk(m, server, astray, archive, rehomed)
    BY <1>4, <1>13 DEF OnDisk
<1>16. ASSUME NEW p \in Procs PROVE Held(proc[p], m, server, astray, archive, rehomed)
  <2>1. Held(proc[p], disk, server, astray, archive, rehomed)
      BY HeldBy
  <2>2. Rehomes(disk, proc[p].m) => Rehomes(m, proc[p].m)
      BY <1>7, <1>14 DEF Rehomes
  <2> QED BY <2>1, <2>2 DEF Held
<1>17. Kept(m, legacy, proc, server, astray, archive, rehomed)
    BY <1>15, <1>16 DEF IInv, Kept
<1>18. Kept(disk', legacy', proc', server', astray', archive', rehomed')
    BY <1>1, <1>3, <1>17
<1>19. \A s : Knows(disk, s) => Knows(m, s)
    BY <1>6, <1>8, <1>14 DEF Knows
<1> QED BY <1>3, <1>7, <1>11, <1>18, <1>19 DEF IInv

LEMMA EditFileKept ==
    ASSUME IInv, EditFile
    PROVE  IInv'
<1>1. Kept(disk', legacy', proc', server', astray', archive', rehomed')
    BY DEF EditFile, IInv
<1> QED BY <1>1 DEF IInv

LEMMA ForeignUploadKept ==
    ASSUME IInv, ForeignUpload
    PROVE  IInv'
<1>1. UNCHANGED <<disk, legacy, archive, proc, rehomed, astray>>
    BY DEF ForeignUpload
<1>2. PICK q \in Projects, n \in Names : server' = [server EXCEPT ![q][n] = @ + 1]
    BY DEF ForeignUpload
<1>3. server \in [Projects -> [Names -> Nat]]
    BY DEF IInv, Kept, Counted
<1>4. server' \in [Projects -> [Names -> Nat]]
    BY <1>2, <1>3
<1>5. ASSUME NEW q2 \in Projects, NEW n2 \in Names
      PROVE  server[q2][n2] <= server'[q2][n2]
  <2>1. server[q2][n2] \in Nat
      BY <1>3
  <2>2. server'[q2][n2] = server[q2][n2] \/ server'[q2][n2] = server[q2][n2] + 1
      BY <1>2, <1>3
  <2> QED BY <2>1, <2>2
<1>6. Grows
    BY <1>1, <1>4, <1>5, GrowsIf
<1>7. \A p \in Procs : Held(proc[p], disk, server', astray', archive', rehomed)
    BY <1>6, HeldBy, HeldGrows DEF Grows, IInv, Kept
<1>8. OnDisk(disk, server', astray', archive', rehomed) /\ AsBefore(legacy, server', astray', archive')
    BY <1>6, FineGrows DEF Grows, IInv, Kept, OnDisk, AsBefore
<1>9. Kept(disk, legacy, proc, server', astray', archive', rehomed)
    BY <1>6, <1>7, <1>8 DEF Grows, IInv, Kept
<1>10. Kept(disk', legacy', proc', server', astray', archive', rehomed')
    BY <1>1, <1>9
<1> QED BY <1>10 DEF IInv

LEMMA WrittenFine ==
    ASSUME NEW m, NEW w, NEW sv, NEW as, NEW ar, Written(m, w), w.server = sv
    PROVE  Fine(m, sv, as, ar) /\ PinnedAtHome(m, sv, as)
<1>1. DOMAIN m = ManifestFields /\ m.id \in Projects \union {None}
    BY EmptyForm DEF Written
<1>2. \A e \in Entries(m) : /\ IsEntry(e) /\ Home(e, m) \in Projects
                            /\ e.pin.version <= sv[Home(e, m)][e.remote]
    BY DEF Written, Entries
<1>3. Formed(m)
    BY <1>1, <1>2 DEF Formed
<1>4. Pinned(m, sv, as) /\ PinnedAtHome(m, sv, as)
    BY <1>2, BytesAssumption DEF Pinned, PinnedAtHome, Home, Has
<1>5. \A d \in m.sets : DOMAIN d = SetFields /\ d.record = 0 /\ d.version = 0
    BY NewSetForm DEF Written
<1>6. Recorded(m, ar)
    BY <1>5 DEF Recorded
<1> QED BY <1>3, <1>4, <1>6 DEF Fine

LEMMA InitKept == MigrateInit => IInv
<1> SUFFICES ASSUME MigrateInit PROVE IInv
    OBVIOUS
<1>1. PICK w \in Worlds : disk = w.disk /\ legacy = w.legacy /\ server = w.server
    BY DEF MigrateInit, Init
<1>2. server \in [Projects -> [Names -> Nat]]
    BY <1>1, WorldsAssumption, BoundsAssumption
<1>3. archive \in [Slugs -> Seq(Nat)]
    BY DEF MigrateInit, Init
<1>4. proc = [p \in Procs |-> Idle] /\ rehomed = FALSE
    BY DEF MigrateInit, Init
<1>5. OnDisk(disk, server, astray, archive, rehomed)
    BY <1>1, WrittenAssumption, WrittenFine DEF OnDisk
<1>6. AsBefore(legacy, server, astray, archive)
    BY <1>1, WrittenAssumption, WrittenFine DEF AsBefore
<1>7. DOMAIN proc = Procs /\ \A p \in Procs : Held(proc[p], disk, server, astray, archive, rehomed)
    BY <1>4, IdleHeld
<1>8. rehomed \in BOOLEAN
    BY <1>4
<1> QED BY <1>2, <1>3, <1>5, <1>6, <1>7, <1>8 DEF IInv, Kept, Counted

LEMMA StepKept ==
    ASSUME IInv, NEW p \in Procs, Step(p)
    PROVE  IInv'
<1>1. CASE Begin(p) \/ Created(p) \/ Save(p) \/ SaveRefused(p)
    BY <1>1, BeginKept, CreatedKept, SaveKept, SaveRefusedKept
<1>2. CASE Add(p) \/ AddDirectory(p) \/ WikiAdd(p)
    BY <1>2, AddKept, AddDirectoryKept, WikiAddKept
<1>3. CASE Sync(p) \/ Push(p) \/ PushPath(p) \/ PullPath(p)
    BY <1>3, SyncKept, PushKept, PushPathKept, PullPathKept
<1>4. CASE Publish(p) \/ PublishNothing(p) \/ PullDataset(p)
    BY <1>4, PublishKept, PublishNothingKept, PullDatasetKept
<1>5. CASE OnboardArchive(p) \/ OnboardDataset(p) \/ OnboardWorkspace(p)
    BY <1>5, OnboardArchiveKept, OnboardDatasetKept, OnboardWorkspaceKept
<1>6. CASE OnboardOsfProject(p) \/ OnboardOsfFiles(p)
    BY <1>6, OnboardOsfProjectKept, OnboardOsfFilesKept
<1> QED BY <1>1, <1>2, <1>3, <1>4, <1>5, <1>6 DEF Step

LEMMA NextKept == IInv /\ [MigrateNext]_mvars => IInv'
<1> SUFFICES ASSUME IInv, [MigrateNext]_mvars PROVE IInv'
    OBVIOUS
<1>1. CASE \E p \in Procs : MigrateStep(p)
    BY <1>1, MigrateStepKept
<1>2. CASE \E p \in Procs : Step(p)
    BY <1>2, StepKept
<1>3. CASE Around
    BY <1>3, ReviewKept, EditFileKept, ForeignUploadKept DEF Around
<1>4. CASE UNCHANGED mvars
  <2>1. Kept(disk', legacy', proc', server', astray', archive', rehomed')
      BY <1>4 DEF IInv, mvars, vars
  <2> QED BY <2>1 DEF IInv
<1> QED BY <1>1, <1>2, <1>3, <1>4 DEF MigrateNext, Next

LEMMA IInvAlways == MigrateSpec => []IInv
BY InitKept, NextKept, PTL DEF MigrateSpec

-----------------------------------------------------------------------------
(* A pin on disk names a version that exists.                              *)

LEMMA IInvPinned == IInv => PinServed
<1> SUFFICES ASSUME IInv, disk # NoManifest, NEW e \in Entries(disk),
                    Home(e, disk) \in Projects, e.project # None \/ ~rehomed,
                    <<e.local, e.pin>> \notin astray
             PROVE  e.pin.version <= server[Home(e, disk)][e.remote]
    BY DEF PinServed, Entries
<1>1. Fine(disk, server, astray, archive) /\ (rehomed \/ PinnedAtHome(disk, server, astray))
    BY DEF IInv, Kept, OnDisk
<1>2. CASE e.project # None
    BY <1>1, <1>2 DEF Fine, Pinned, Has, Strayed, Home
<1>3. CASE e.project = None
  <2>1. disk.id # None /\ Home(e, disk) = disk.id
      BY <1>3, BytesAssumption DEF Home
  <2> QED BY <1>1, <1>3, <2>1 DEF PinnedAtHome, Has, Strayed
<1> QED BY <1>2, <1>3

(* Whatever commands run, fail or stop in between, a pin in the manifest   *)
(* names a version that the entry's project has, unless the manifest was   *)
(* given another project or the pin is one a push wrote when it sent a     *)
(* tracked file to a place it is not tracked at (push.go:387-392).         *)
THEOREM PinServedAlways == MigrateSpec => []PinServed
BY IInvAlways, IInvPinned, PTL

-----------------------------------------------------------------------------
(* Type correctness.                                                       *)

LEMMA FineTyped ==
    ASSUME NEW m, NEW sv, NEW as, NEW ar, Counted(sv, ar), Fine(m, sv, as, ar), ar = archive
    PROVE  IsManifest(m)
<1>1. DOMAIN m = DOMAIN Empty /\ m.id \in Projects \union {None}
      /\ \A e \in m.files \union m.wikis : IsEntry(e)
    BY EmptyForm DEF Fine, Formed, Entries
<1>2. ASSUME NEW d \in m.sets, d.record > 0
      PROVE  /\ d.slug \in Slugs /\ d.record \in 1..Len(archive[d.slug])
             /\ d.version \in 0..archive[d.slug][d.record]
  <2> DEFINE a == ar[d.slug]
  <2>1. /\ d.slug \in Slugs /\ d.record \in Nat /\ d.version \in Nat
        /\ d.record <= Len(a) /\ d.version <= a[d.record]
      BY <1>2 DEF Fine, Recorded
  <2>2. a \in Seq(Nat)
      BY <2>1 DEF Counted
  <2> HIDE DEF a
  <2>3. d.record \in 1..Len(a)
      BY <1>2, <2>1, <2>2
  <2>4. a[d.record] \in Nat
      BY <2>2, <2>3
  <2>5. d.version \in 0..a[d.record]
      BY <2>1, <2>4
  <2> QED BY <2>1, <2>3, <2>5 DEF a
<1> QED BY <1>1, <1>2 DEF IsManifest

Reported == provenance \in BOOLEAN

LEMMA IInvTyped == IInv /\ Reported => TypeOK
<1> SUFFICES ASSUME IInv, Reported PROVE TypeOK
    OBVIOUS
<1>1. Counted(server, archive)
    BY DEF IInv, Kept
<1>2. disk # NoManifest => IsManifest(disk)
    BY <1>1, FineTyped DEF IInv, Kept, OnDisk
<1>3. \A p \in Procs : IsManifest(proc[p].m)
    BY <1>1, HeldManifest, FineTyped DEF Mine
<1> QED BY <1>1, <1>2, <1>3 DEF TypeOK, Counted, Reported

LEMMA ReportedKept == Reported /\ [MigrateNext]_mvars => Reported'
<1> SUFFICES ASSUME Reported, [MigrateNext]_mvars PROVE Reported'
    OBVIOUS
<1> USE DEF Reported
<1>1. CASE \E p \in Procs : MigrateStep(p)
  <2>1. provenance' = provenance \/ provenance' = TRUE
      BY <1>1 DEF MigrateStep, MigrateGuid, ExportFile, ExportChanged, ExportFails, ExportPage, Export,
         MergeExport, MigrateManifest, MigrateScan, MigrateFetch, MigrateFetchFails, MigrateRewrite,
         WriteProvenance
  <2> QED BY <2>1
<1> QED BY <1>1 DEF MigrateNext, mvars

(* What is on disk and in every process's hands is a manifest; a published *)
(* dataset names a record that exists, at a version the record has.        *)
THEOREM TypeOKAlways == MigrateSpec => []TypeOK
<1>1. MigrateInit => IInv /\ Reported
    BY InitKept DEF MigrateInit, Reported
<1> QED BY <1>1, NextKept, ReportedKept, IInvTyped, PTL DEF MigrateSpec

-----------------------------------------------------------------------------
(* A save that replaces the manifest its command loaded keeps its records. *)

(* What each step of a command is, to the disk and the archive. *)
Quiet(p) ==
    /\ UNCHANGED <<disk, overlap, archive>>
    /\ \E r : proc' = [proc EXCEPT ![p] = r]
    /\ proc[p].pc # "save" \/ proc[p].path = "legacy"

LEMMA StartsQuiet ==
    ASSUME NEW p, NEW cmd, NEW m, NEW base, NEW path, Starts(p, cmd, m, base, path)
    PROVE  Quiet(p)
BY DEF Starts, world, Quiet

LEMMA InitsQuiet ==
    ASSUME NEW p, NEW cmd, NEW id, Inits(p, cmd, id)
    PROVE  Quiet(p)
BY DEF Inits, world, Quiet

LEMMA BeginQuiet ==
    ASSUME NEW p \in Procs, Begin(p)
    PROVE  Quiet(p)
<1>1. \A cmd : Load(p, cmd) \/ AddCreates(p, cmd) => Quiet(p)
    BY StartsQuiet DEF Load, AddCreates, NewFor
<1>2. PathUnloaded(p) => Quiet(p)
    BY StartsQuiet DEF PathUnloaded, NewFor
<1>3. \A cmd : OnboardCreates(p, cmd) => Quiet(p)
    BY InitsQuiet DEF OnboardCreates
<1>4. InitProject(p) => Quiet(p)
    BY InitsQuiet DEF InitProject
<1> QED BY <1>1, <1>2, <1>3, <1>4 DEF Begin

LEMMA PathEnds ==
    ASSUME NEW p, PushPath(p) \/ PullPath(p)
    PROVE  Ends(p) \/ \E m : ToSave(p, m)
<1>1. CASE PushPath(p)
  <2> DEFINE new(q, n) == [version |-> server[q][n] + 1, md5 |-> <<q, n, server[q][n] + 1>>]
  <2>1. PICK l \in Paths, n \in Remotes, q \in Named(p) :
           /\ server' = [server EXCEPT ![q][n] = new(q, n).version]
           /\ \/ /\ proc[p].path # "none" /\ ToSave(p, PushTracked(Mine(p), l, n, q, new(q, n)))
                 /\ UNCHANGED faults
              \/ proc[p].path = "none" /\ Ends(p) /\ UNCHANGED faults
              \/ Undisturbed /\ Ends(p) /\ faults' = faults + 1
      BY <1>1, ZenonT(60) DEF PushPath
  <2> QED BY <2>1
<1>2. CASE PullPath(p)
  <2> DEFINE Pulls(l, n, q, fetch, v) ==
               IF Elsewhere(Mine(p), l, q, n) THEN Ends(p) /\ UNCHANGED faults
               ELSE \/ ToSave(p, Tracked(Mine(p), l, n, q, v)) /\ UNCHANGED faults
                    \/ /\ v = Tip(q, n) /\ Undisturbed /\ faults' = faults + 1
                       /\ ToSave(p, Tracked(Mine(p), l, n, q,
                              [version |-> 0, md5 |-> IF fetch THEN v.md5 ELSE None]))
  <2>1. PICK l \in Paths, n \in Remotes, q \in Named(p), fetch \in BOOLEAN :
           \E v \in History(q, n) :
              /\ <<l, n>> \in Targets
              /\ local' = IF fetch THEN [local EXCEPT ![l] = v.md5] ELSE local
              /\ Pulls(l, n, q, fetch, v)
      BY <1>2, ZenonT(60) DEF PullPath
  <2> QED BY <2>1
<1> QED BY <1>1, <1>2

LEMMA StepQuiet ==
    ASSUME NEW p \in Procs, Step(p)
    PROVE  Save(p) \/ Publish(p) \/ Quiet(p)
<1> USE DEF Quiet, Ends, Goes, ToSave, Working, Offline, world, At
<1>1. CASE Begin(p)
    BY <1>1, BeginQuiet
<1>2. CASE Created(p) \/ SaveRefused(p)
    BY <1>2 DEF Created, SaveRefused
<1>3. CASE Add(p) \/ AddDirectory(p) \/ WikiAdd(p)
    BY <1>3 DEF Add, AddDirectory, WikiAdd
<1>4. CASE Sync(p) \/ Push(p)
    BY <1>4 DEF Sync, Push, Reconcile, Refused
<1>5. CASE PushPath(p) \/ PullPath(p)
  <2>1. UNCHANGED <<disk, overlap, archive>> /\ proc[p].pc = "loaded"
      BY <1>5 DEF PushPath, PullPath
  <2>2. Ends(p) \/ \E m : ToSave(p, m)
      BY <1>5, PathEnds
  <2> QED BY <2>1, <2>2
<1>6. CASE PublishNothing(p) \/ PullDataset(p)
    BY <1>6 DEF PublishNothing, PullDataset
<1>7. CASE OnboardArchive(p) \/ OnboardDataset(p) \/ OnboardWorkspace(p)
    BY <1>7 DEF OnboardArchive, OnboardDataset, OnboardWorkspace
<1>8. CASE OnboardOsfProject(p) \/ OnboardOsfFiles(p)
    BY <1>8 DEF OnboardOsfProject, OnboardOsfFiles
<1> QED BY <1>1, <1>2, <1>3, <1>4, <1>5, <1>6, <1>7, <1>8 DEF Step

LEMMA MigrateStepQuiet ==
    ASSUME NEW p \in Procs, MigrateStep(p)
    PROVE  Quiet(p)
<1> USE DEF Quiet, Ends, Goes, Working, Offline, Export, Checked, world, At
<1>1. CASE MigrateGuid(p)
    BY <1>1 DEF MigrateGuid
<1>2. CASE ExportFile(p) \/ ExportChanged(p) \/ ExportFails(p) \/ ExportPage(p)
    BY <1>2 DEF ExportFile, ExportChanged, ExportFails, ExportPage
<1>3. CASE MergeExport(p) \/ MigrateScan(p) \/ MigrateRewrite(p) \/ WriteProvenance(p)
    BY <1>3 DEF MergeExport, MigrateScan, MigrateRewrite, WriteProvenance
<1>4. CASE MigrateFetch(p) \/ MigrateFetchFails(p)
    BY <1>4 DEF MigrateFetch, MigrateFetchFails
<1>5. CASE MigrateManifest(p)
    BY <1>5, StartsQuiet DEF MigrateManifest, Load
<1> QED BY <1>1, <1>2, <1>3, <1>4, <1>5 DEF MigrateStep

LEMMA SaveForm ==
    ASSUME IInv, NEW p \in Procs, Save(p)
    PROVE  /\ DOMAIN disk' = ManifestFields /\ disk'.sets = Mine(p).sets /\ archive' = archive
           /\ ~overlap' => ~overlap /\ disk = proc[p].base
           /\ \E r : /\ proc' = [proc EXCEPT ![p] = r]
                     /\ r.cmd = "publish" => r.pc # "save" \/ r.base = disk'
<1> DEFINE m == [Mine(p) EXCEPT !.schema = SchemaMax]
           r == IF proc[p].next = "idle" THEN Idle
                ELSE [proc[p] EXCEPT !.m = m, !.base = m, !.pc = proc[p].next]
<1>1. disk' = m /\ overlap' = (overlap \/ disk # proc[p].base) /\ archive' = archive
    BY DEF Save, world
<1>2. proc' = [proc EXCEPT ![p] = r]
    BY DEF Save, Ends
<1>3. DOMAIN m = ManifestFields /\ m.sets = Mine(p).sets
    BY HeldManifest, SchemaField
<1>4. r.cmd = "publish" => r.base = m
    BY HeldBy DEF Held, CommandFields, Idle
<1> HIDE DEF m, r
<1> QED BY <1>1, <1>2, <1>3, <1>4

LEMMA RecordsStep ==
    ASSUME IInv, MigrateNext, disk # NoManifest, ~overlap'
    PROVE  Keeps(disk, disk')
<1>1. disk' = disk => Keeps(disk, disk')
    BY KeepsRefl DEF IInv, Kept, OnDisk
<1>2. CASE \E p \in Procs : MigrateStep(p)
    BY <1>1, <1>2, MigrateStepQuiet DEF Quiet
<1>3. CASE \E p \in Procs : Step(p)
  <2>1. PICK p \in Procs : Step(p)
      BY <1>3
  <2>2. CASE Save(p)
    <3>1. disk'.sets = Mine(p).sets /\ disk = proc[p].base
        BY <2>2, SaveForm
    <3>2. Keeps(disk, Mine(p))
        BY <3>1, HeldBy DEF Held, Mine
    <3> QED BY <3>1, <3>2 DEF Keeps
  <2>3. CASE Publish(p)
      BY <1>1, <2>3 DEF Publish, Working
  <2>4. CASE Quiet(p)
      BY <1>1, <2>4 DEF Quiet
  <2> QED BY <2>1, <2>2, <2>3, <2>4, StepQuiet
<1>4. CASE Around
  <2>1. CASE Review
      BY <2>1, ReviewKept
  <2>2. CASE EditFile \/ ForeignUpload
      BY <1>1, <2>2 DEF EditFile, ForeignUpload
  <2> QED BY <1>4, <2>1, <2>2 DEF Around
<1> QED BY <1>2, <1>3, <1>4 DEF MigrateNext, Next

(* A save that replaces the manifest its command loaded never takes back   *)
(* what was published: every record stays under its slug, at its version   *)
(* or a later one, whatever command saves.                                 *)
THEOREM RecordsKeptAlways == MigrateSpec => RecordsKept
<1>1. IInv /\ [MigrateNext]_mvars =>
        [disk # NoManifest /\ ~overlap' =>
           \A d \in disk.sets : d.record > 0 =>
               \E e \in disk'.sets :
                   e.slug = d.slug /\ e.record = d.record /\ e.version >= d.version]_mvars
    BY RecordsStep DEF Keeps
<1> QED BY <1>1, IInvAlways, PTL DEF MigrateSpec, RecordsKept

-----------------------------------------------------------------------------
(* One dataset, one record.                                                *)

One(s) == Len(archive[s]) <= (IF Knows(disk, s) THEN 1 ELSE 0) + Cardinality(Unsaved(s))

LEMMA UnsavedFinite ==
    \A s : /\ IsFiniteSet(Unsaved(s)) /\ Cardinality(Unsaved(s)) \in Nat
           /\ IsFiniteSet(Unsaved(s)') /\ Cardinality(Unsaved(s)') \in Nat
<1> TAKE s
<1>1. Unsaved(s) \subseteq Procs /\ Unsaved(s)' \subseteq Procs
    BY DEF Unsaved
<1> QED BY <1>1, ProcsAssumption, FS_Subset, FS_CardinalityType

(* Nobody stops being about to save what it published. *)
LEMMA OneStays ==
    ASSUME IInv, NEW s \in Slugs, One(s), Len(archive'[s]) = Len(archive[s]),
           Knows(disk, s) => Knows(disk', s), Unsaved(s) \subseteq Unsaved(s)'
    PROVE  One(s)'
<1> DEFINE x == Cardinality(Unsaved(s))
           y == Cardinality(Unsaved(s)')
           a == Len(archive[s])
           k == IF Knows(disk, s) THEN 1 ELSE 0
           k2 == IF Knows(disk', s) THEN 1 ELSE 0
<1>1. x \in Nat /\ y \in Nat /\ x <= y
    BY UnsavedFinite, FS_Subset
<1>2. a \in Nat
    BY DEF IInv, Kept, Counted
<1>3. a <= k + x
    BY DEF One
<1>4. k \in Nat /\ k2 \in Nat /\ k <= k2
    OBVIOUS
<1> HIDE DEF x, y, a, k, k2
<1>5. a <= k2 + y
    BY <1>1, <1>2, <1>3, <1>4
<1>6. Len(archive'[s]) = a
    BY DEF a
<1> QED BY <1>5, <1>6 DEF One, y, k2

LEMMA Unmoved ==
    ASSUME NEW s, NEW p \in Procs, p \notin Unsaved(s), NEW r, proc' = [proc EXCEPT ![p] = r],
           DOMAIN proc = Procs
    PROVE  Unsaved(s) \subseteq Unsaved(s)'
<1> SUFFICES ASSUME NEW q \in Unsaved(s) PROVE q \in Unsaved(s)'
    OBVIOUS
<1>1. q \in Procs /\ q # p
    BY DEF Unsaved
<1>2. proc'[q] = proc[q]
    BY <1>1
<1> QED BY <1>1, <1>2 DEF Unsaved, At

LEMMA OneQuiet ==
    ASSUME IInv, NEW s \in Slugs, One(s), NEW p \in Procs, Quiet(p)
    PROVE  One(s)'
<1>1. PICK r : proc' = [proc EXCEPT ![p] = r]
    BY DEF Quiet
<1>2. UNCHANGED <<disk, archive>>
    BY DEF Quiet
<1>3. p \notin Unsaved(s)
  <2>1. proc[p].path = "legacy" => proc[p].cmd # "publish"
      BY HeldBy DEF Held, Situated
  <2> QED BY <2>1 DEF Quiet, Unsaved, At
<1>4. DOMAIN proc = Procs
    BY DEF IInv, Kept
<1>5. Unsaved(s) \subseteq Unsaved(s)'
    BY <1>1, <1>3, <1>4, Unmoved
<1> QED BY <1>2, <1>5, OneStays

(* A save of what its command loaded: what was known stays known, and what *)
(* was published is known now.                                             *)
LEMMA OneSave ==
    ASSUME IInv, NEW s \in Slugs, One(s), NEW p \in Procs, Save(p), ~overlap'
    PROVE  One(s)'
<1>1. /\ disk = proc[p].base /\ disk'.sets = Mine(p).sets /\ archive' = archive
      /\ disk' # NoManifest /\ Mine(p) # NoManifest
    BY SaveForm, HeldManifest, EmptyForm
<1>2. PICK r : proc' = [proc EXCEPT ![p] = r] /\ (r.cmd = "publish" => r.pc # "save" \/ r.base = disk')
    BY SaveForm
<1>3. DOMAIN proc = Procs
    BY DEF IInv, Kept
<1>4. Knows(disk', s) = Knows(Mine(p), s)
    BY <1>1 DEF Knows
<1>5. Knows(disk, s) => Knows(disk', s)
  <2> SUFFICES ASSUME Knows(disk, s) PROVE Knows(Mine(p), s)
      BY <1>4
  <2>1. disk # NoManifest /\ \E d \in disk.sets : d.slug = s /\ d.record > 0
      BY DEF Knows
  <2>2. Keeps(disk, Mine(p))
      BY <1>1, <2>1, HeldBy DEF Held, Mine
  <2> QED BY <1>1, <2>1, <2>2 DEF Keeps, Knows
<1>6. CASE p \notin Unsaved(s)
  <2>1. Unsaved(s) \subseteq Unsaved(s)'
      BY <1>2, <1>3, <1>6, Unmoved
  <2> QED BY <1>1, <1>5, <2>1, OneStays
<1>7. CASE p \in Unsaved(s)
  <2>1. Knows(disk', s) /\ ~Knows(disk, s)
      BY <1>1, <1>4, <1>7 DEF Unsaved, Mine
  <2>2. Unsaved(s) \ {p} \subseteq Unsaved(s)'
    <3> SUFFICES ASSUME NEW q \in Unsaved(s), q # p PROVE q \in Unsaved(s)'
        OBVIOUS
    <3>1. q \in Procs
        BY DEF Unsaved
    <3>2. proc'[q] = proc[q]
        BY <1>2, <1>3, <3>1
    <3> QED BY <3>1, <3>2 DEF Unsaved, At
  <2> DEFINE x == Cardinality(Unsaved(s))
             y == Cardinality(Unsaved(s)')
             z == Cardinality(Unsaved(s) \ {p})
             a == Len(archive[s])
  <2>3. IsFiniteSet(Unsaved(s)) /\ IsFiniteSet(Unsaved(s)')
      BY UnsavedFinite
  <2>4. z = x - 1
      BY <1>7, <2>3, FS_RemoveElement
  <2>5. z <= y
      BY <2>2, <2>3, FS_Subset
  <2>6. x \in Nat /\ y \in Nat
      BY UnsavedFinite
  <2>7. a \in Nat
      BY DEF IInv, Kept, Counted
  <2>8. a <= 0 + x
      BY <2>1 DEF One
  <2> HIDE DEF x, y, z, a
  <2>9. a <= 1 + y
      BY <2>4, <2>5, <2>6, <2>7, <2>8
  <2>10. Len(archive'[s]) = a
      BY <1>1 DEF a
  <2> QED BY <2>1, <2>9, <2>10 DEF One, y
<1> QED BY <1>6, <1>7

(* A first publish adds a record, and its command to those that have one   *)
(* to save.                                                                *)
LEMMA OnePublish ==
    ASSUME IInv, NEW s \in Slugs, One(s), NEW p \in Procs, Publish(p)
    PROVE  One(s)'
<1>1. PICK d, e, m :
         /\ d \in Mine(p).sets
         /\ Goes(p, m, "save", "idle") /\ Grows
         /\ d.slug \in Slugs /\ d.record \in Nat /\ e.slug = d.slug /\ e.record \in Nat /\ e.record > 0
         /\ DOMAIN m = ManifestFields
         /\ m.sets = (Mine(p).sets \ {d}) \union {e}
         /\ \A t \in Slugs : t # d.slug => archive'[t] = archive[t]
         /\ Len(archive'[d.slug]) = Len(archive[d.slug]) + (IF d.record = 0 THEN 1 ELSE 0)
    BY PublishForm
<1>2. disk' = disk /\ proc[p].pc = "loaded" /\ proc[p].cmd = "publish"
    BY DEF Publish, Working, At
<1>3. DOMAIN proc = Procs /\ DOMAIN proc[p] = CommandFields
    BY HeldBy DEF IInv, Kept, Held
<1>4. p \notin Unsaved(s)
    BY <1>2 DEF Unsaved, At
<1> DEFINE r == [proc[p] EXCEPT !.m = m, !.pc = "save", !.next = "idle"]
<1>5. proc' = [proc EXCEPT ![p] = r]
    BY <1>1 DEF Goes
<1>6. r.m = m /\ r.pc = "save" /\ r.cmd = "publish" /\ r.base = proc[p].base
    BY <1>2, <1>3 DEF CommandFields
<1> HIDE DEF r
<1>7. Unsaved(s) \subseteq Unsaved(s)'
    BY <1>3, <1>4, <1>5, Unmoved
<1>8. CASE s # d.slug \/ d.record # 0
  <2>1. Len(archive'[s]) = Len(archive[s])
    <3>1. CASE s # d.slug
        BY <1>1, <3>1
    <3>2. CASE s = d.slug /\ d.record # 0
      <4> DEFINE a == Len(archive[s])
                 b == Len(archive'[s])
      <4>1. a \in Nat
          BY DEF IInv, Kept, Counted
      <4>2. b = a + 0
          BY <1>1, <3>2
      <4> HIDE DEF a, b
      <4>3. b = a
          BY <4>1, <4>2
      <4> QED BY <4>3 DEF a, b
    <3> QED BY <1>8, <3>1, <3>2
  <2> QED BY <1>2, <1>7, <2>1, OneStays
<1>9. CASE s = d.slug /\ d.record = 0
  <2>1. Mine(p) = proc[p].base /\ UniqueSlugs(Mine(p))
      BY <1>2, HeldBy DEF Held, Situated, Mine
  <2>2. ~Knows(proc[p].base, s)
      BY <1>1, <1>9, <2>1 DEF Knows, UniqueSlugs
  <2>3. Knows(m, s)
      BY <1>1, <1>9, EmptyForm DEF Knows
  <2>4. proc'[p] = r
      BY <1>3, <1>5
  <2>5. p \in Unsaved(s)'
      BY <1>6, <2>2, <2>3, <2>4 DEF Unsaved, At
  <2> DEFINE x == Cardinality(Unsaved(s))
             y == Cardinality(Unsaved(s)')
             z == Cardinality(Unsaved(s) \union {p})
             a == Len(archive[s])
             k == IF Knows(disk, s) THEN 1 ELSE 0
  <2>6. IsFiniteSet(Unsaved(s)) /\ IsFiniteSet(Unsaved(s)')
      BY UnsavedFinite
  <2>7. z = x + 1
      BY <1>4, <2>6, FS_AddElement
  <2>8. Unsaved(s) \union {p} \subseteq Unsaved(s)'
      BY <1>7, <2>5
  <2>9. z <= y
      BY <2>6, <2>8, FS_Subset
  <2>10. x \in Nat /\ y \in Nat /\ k \in Nat
      BY UnsavedFinite
  <2>11. a \in Nat
      BY DEF IInv, Kept, Counted
  <2>12. a <= k + x
      BY DEF One
  <2>13. Len(archive'[s]) = a + 1
      BY <1>1, <1>9, <2>11
  <2> HIDE DEF x, y, z, a, k
  <2>14. a + 1 <= k + y
      BY <2>7, <2>9, <2>10, <2>11, <2>12
  <2> QED BY <1>2, <2>13, <2>14 DEF One, y, k
<1> QED BY <1>8, <1>9

LEMMA OneAround ==
    ASSUME IInv, NEW s \in Slugs, One(s), Around
    PROVE  One(s)'
<1>1. UNCHANGED <<proc, archive>> /\ (Review \/ disk' = disk)
    BY DEF Around, Review, EditFile, ForeignUpload, world
<1>2. Knows(disk, s) => Knows(disk', s)
    BY <1>1, ReviewKept
<1>3. Unsaved(s)' = Unsaved(s)
    BY <1>1 DEF Unsaved, At
<1> QED BY <1>1, <1>2, <1>3, OneStays

LEMMA OneStep ==
    ASSUME IInv, MigrateNext, ~overlap', NEW s \in Slugs, One(s)
    PROVE  One(s)'
<1>1. CASE \E p \in Procs : MigrateStep(p)
    BY <1>1, MigrateStepQuiet, OneQuiet
<1>2. CASE \E p \in Procs : Step(p)
    BY <1>2, StepQuiet, OneQuiet, OneSave, OnePublish
<1>3. CASE Around
    BY <1>3, OneAround
<1> QED BY <1>1, <1>2, <1>3 DEF MigrateNext, Next

LEMMA OverlapStays ==
    ASSUME IInv, MigrateNext, ~overlap'
    PROVE  ~overlap
<1>1. CASE \E p \in Procs : MigrateStep(p)
    BY <1>1, MigrateStepQuiet DEF Quiet
<1>2. CASE \E p \in Procs : Step(p)
  <2>1. PICK p \in Procs : Step(p)
      BY <1>2
  <2> QED BY <2>1, StepQuiet, SaveForm DEF Quiet, Publish, Working
<1>3. CASE Around
    BY <1>3 DEF Around, Review, EditFile, ForeignUpload
<1> QED BY <1>1, <1>2, <1>3 DEF MigrateNext, Next

LEMMA OneInit == MigrateInit => OneRecordUnlessOverlapped
<1> SUFFICES ASSUME MigrateInit, NEW s \in Slugs PROVE One(s)
    BY DEF OneRecordUnlessOverlapped, One
<1>1. Len(archive[s]) = 0
    BY DEF MigrateInit, Init
<1> DEFINE y == Cardinality(Unsaved(s))
           k == IF Knows(disk, s) THEN 1 ELSE 0
<1>2. y \in Nat /\ k \in Nat
    BY UnsavedFinite
<1> HIDE DEF y, k
<1>3. 0 <= k + y
    BY <1>2
<1> QED BY <1>1, <1>3 DEF One, y, k

LEMMA OneNext == IInv /\ OneRecordUnlessOverlapped /\ [MigrateNext]_mvars => OneRecordUnlessOverlapped'
<1> SUFFICES ASSUME IInv, OneRecordUnlessOverlapped, [MigrateNext]_mvars
             PROVE  OneRecordUnlessOverlapped'
    OBVIOUS
<1>1. CASE MigrateNext
  <2> SUFFICES ASSUME ~overlap', NEW s \in Slugs PROVE One(s)'
      BY DEF OneRecordUnlessOverlapped, One
  <2>1. One(s)
      BY <1>1, OverlapStays DEF OneRecordUnlessOverlapped, One
  <2> QED BY <1>1, <2>1, OneStep
<1>2. CASE UNCHANGED mvars
    BY <1>2 DEF mvars, vars, world, OneRecordUnlessOverlapped, Unsaved, At
<1> QED BY <1>1, <1>2

(* One dataset has one record, whatever commands run and wherever they     *)
(* stop: the one the manifest knows, and at most one more for every        *)
(* publish that has not saved yet, unless some save replaced a manifest    *)
(* its command had not seen.                                               *)
THEOREM OneRecordUnlessOverlappedAlways == MigrateSpec => []OneRecordUnlessOverlapped
BY OneInit, OneNext, IInvAlways, PTL DEF MigrateSpec
=============================================================================
