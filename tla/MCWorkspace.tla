----------------------------- MODULE MCWorkspace -----------------------------
(* Instances of Workspace for TLC: the .cfg files give the constants.      *)
(* Clients are interchangeable, and only safety is checked with two.       *)
EXTENDS Workspace, TLC

ClientSymmetry == Permutations(Clients)
=============================================================================
