--------------------------- MODULE MCWorkspaceFiles --------------------------
(* Instances of WorkspaceFiles for TLC: the .cfg files give the constants. *)
EXTENDS WorkspaceFiles, TLC

UserSymmetry == Permutations(Users)
=============================================================================
