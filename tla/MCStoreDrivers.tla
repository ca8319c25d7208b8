--------------------------- MODULE MCStoreDrivers ----------------------------
(* Instances of StoreDrivers for TLC: two keys, one's text the beginning   *)
(* of the other's, such as results.csv and results.csv.gz.                 *)
EXTENDS StoreDrivers, TLC

CONSTANTS short, long

OneObject == {<<short, "object">>, <<short, "archive">>, <<long, "journal">>}
JournalsOnly == {<<short, "journal">>, <<long, "journal">>}
ShortLong == {<<short, long>>}
Symmetric == Permutations(Contents) \union Permutations(Writers)
=============================================================================
