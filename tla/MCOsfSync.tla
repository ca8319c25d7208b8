------------------------------ MODULE MCOsfSync ------------------------------
(* Instances of OsfSync for TLC: the .cfg files give the constants.        *)
(* Contents are only compared, so they are interchangeable for safety.     *)
EXTENDS OsfSync, TLC

ContentSymmetry == Permutations(Contents)
=============================================================================
