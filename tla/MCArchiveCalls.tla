--------------------------- MODULE MCArchiveCalls ---------------------------
(* Instances of ArchiveCalls for TLC: the .cfg files give the constants.   *)
EXTENDS ArchiveCalls, TLC

CONSTANTS a, b
McContents == {a, b}
=============================================================================
