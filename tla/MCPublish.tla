------------------------------ MODULE MCPublish ------------------------------
(* Instances of Publish for TLC: the .cfg files give the constants.        *)
(* Contents are only compared, so they are interchangeable for safety.     *)
EXTENDS Publish, TLC

ContentSymmetry == Permutations(Contents)
=============================================================================
