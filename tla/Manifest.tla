------------------------------ MODULE Manifest ------------------------------
(***************************************************************************)
(* The manifest, .datapin/datapin.toml: what it holds and when it loads    *)
(* (internal/manifest/manifest.go).  A tracked file or wiki page is an     *)
(* entry [local, remote, project, pin]; remote is the path on OSF Storage  *)
(* or the name of the page, and project is None when the entry lives in    *)
(* the manifest's own project.  A dataset is [slug, locals, record,        *)
(* version, reviewed]: its files, the archive record it was published to   *)
(* (0: never), the version pinned, and whether a human completed its       *)
(* metadata; the checksums of its files say nothing here and are left out. *)
(*                                                                         *)
(* Every command derives the key of a dataset file one to one from its     *)
(* path, so keys are left out.                                             *)
(***************************************************************************)
EXTENDS FileState, FiniteSets

SchemaMax == 2

(* No manifest: a file that is not there has none of the fields. *)
NoManifest == [schema |-> 0]

Empty == [schema |-> SchemaMax, id |-> None, defaults |-> {},
          files |-> {}, wikis |-> {}, sets |-> {}, pages |-> {}]

(* ResolveProject *)
Home(e, m) == IF e.project # None THEN e.project ELSE m.id

LocalsOf(S) == {e.local : e \in S}
SetLocals(m) == UNION {d.locals : d \in m.sets}
SlugsOf(S) == {d.slug : d \in S}

(* A dataset that was never published. *)
NewSet(slug, locals, reviewed) ==
    [slug |-> slug, locals |-> locals, record |-> 0, version |-> 0, reviewed |-> reviewed]

Dataset(m, slug) == CHOOSE d \in m.sets : d.slug = slug

-----------------------------------------------------------------------------
(* validate, section by section: every entry belongs to a project, a local *)
(* path is tracked once in the whole manifest, and what it is tracked as   *)
(* is tracked once in its section.                                         *)

EntriesValid(S, m) ==
    /\ \A e \in S : Home(e, m) # None
    /\ \A e, f \in S : e.local = f.local => e = f
    /\ \A e, f \in S : Home(e, m) = Home(f, m) /\ e.remote = f.remote => e = f

FilesValid(m) == EntriesValid(m.files, m)

WikisValid(m) ==
    /\ EntriesValid(m.wikis, m)
    /\ LocalsOf(m.wikis) \cap LocalsOf(m.files) = {}

SetsValid(m) ==
    /\ \A d, e \in m.sets : d.slug = e.slug => d = e
    /\ \A d, e \in m.sets : d # e => d.locals \cap e.locals = {}
    /\ SetLocals(m) \cap (LocalsOf(m.files) \union LocalsOf(m.wikis)) = {}

PagesValid(m) ==
    /\ \A g, h \in m.pages : g.local = h.local => g = h
    /\ \A g, h \in m.pages : g.slug = h.slug => g = h
    /\ LocalsOf(m.pages) \cap (LocalsOf(m.files) \union LocalsOf(m.wikis) \union SetLocals(m)) = {}

(* Load *)
Loads(m) == /\ m.schema <= SchemaMax
            /\ FilesValid(m) /\ WikisValid(m) /\ SetsValid(m) /\ PagesValid(m)

-----------------------------------------------------------------------------
(* dedupeSlug: a slug is a name and a number; 1 stands for no suffix. *)
Dedupe(name, taken) ==
    <<name, CHOOSE n \in 1..(Cardinality(taken) + 1) :
                /\ <<name, n>> \notin taken
                /\ \A k \in 1..(n - 1) : <<name, k>> \in taken>>
=============================================================================
