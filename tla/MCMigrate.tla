----------------------------- MODULE MCMigrate -----------------------------
(* Small repositories for the commands that change the manifest.           *)
EXTENDS Migrate, TLC

CONSTANTS p1, p2

McPaths == {"a", "docs/n.md", "b/n.md"}
McRemotes == {"a", "docs/n.md"}
McTargets == {<<"a", "a">>, <<"b/n.md", "a">>, <<"docs/n.md", "docs/n.md">>}
McBusy == {<<"P", "a">>, <<"P", "n">>, <<"C", "n">>}
McPages == {"n"}
McProjects == {"P", "C"}
McSlugs == {"root", "proj", "docs"} \X (1..3)
McTyped == {<<"docs", 1>>}
McPageSlug == [n \in McPages |-> "n"]
McNodeSlug == [q \in McProjects |-> "proj"]
McPageName == [q \in McProjects |-> [n \in McPages |-> IF q = "P" THEN "n" ELSE "proj-2-n"]]
McItemPath == [q \in McProjects |-> [n \in McRemotes \union McPages |->
                  IF q = "C" THEN "b/n.md" ELSE IF n = "n" THEN "docs/n.md" ELSE n]]
McByDirectory == [l \in McPaths |-> IF l = "docs/n.md" THEN "docs" ELSE "root"]
McGroupings == {McByDirectory, [l \in McPaths |-> "proj"]}

McV(q, n, i) == <<q, n, i>>
McPin(q, n, i) == [version |-> i, md5 |-> McV(q, n, i)]
McNone == [q \in McProjects |-> [n \in McRemotes \union McPages |-> 0]]
McServed(S) == [q \in McProjects |-> [n \in McRemotes \union McPages |->
                  IF <<q, n>> \in S THEN 1 ELSE 0]]
McHas(S) == [l \in McPaths |-> IF l \in S THEN Own ELSE None]

(* A fresh directory; one that tracks a file and a page of a project; one  *)
(* with a dataset and a page of the site; one left by an older program;    *)
(* one written by a newer one.                                             *)
McFresh == [disk |-> NoManifest, legacy |-> NoManifest,
            local |-> McHas({"a"}), server |-> McServed({<<"P", "a">>, <<"C", "a">>})]
McTracked == [Empty EXCEPT !.id = "P",
    !.files = {[local |-> "a", remote |-> "a", project |-> None, pin |-> McPin("P", "a", 1)]},
    !.wikis = {[local |-> "docs/n.md", remote |-> "n", project |-> "C", pin |-> NoVersion]}]
McTracking == [disk |-> McTracked, legacy |-> NoManifest,
               local |-> [McHas({"b/n.md"}) EXCEPT !["a"] = McV("P", "a", 1)],
               server |-> McServed({<<"P", "a">>, <<"C", "n">>})]
McReviewed == NewSet(<<"proj", 1>>, {"a"}, TRUE)
McDataset == [disk |-> [Empty EXCEPT !.sets = {McReviewed},
                                     !.pages = {[local |-> "b/n.md", slug |-> <<"n", 1>>]}],
              legacy |-> NoManifest,
              local |-> [McHas({"b/n.md"}) EXCEPT !["a"] = McV("P", "a", 1)],
              server |-> McServed({<<"P", "a">>, <<"P", "n">>})]
McOld == [McTracking EXCEPT !.disk = NoManifest, !.legacy = McTracked]
McNewer == [McDataset EXCEPT !.disk.schema = 3]
McWorlds == {McFresh, McTracking, McDataset, McOld, McNewer}

McAll == {"init", "add", "wiki add", "onboard", "onboard --osf", "sync", "push", "publish",
          "push path", "pull path", "pull dataset", "migrate", "migrate guid"}
McSymmetry == Permutations(Procs)
=============================================================================
