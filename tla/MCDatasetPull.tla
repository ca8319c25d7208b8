---------------------------- MODULE MCDatasetPull ----------------------------
(* Instances of DatasetPull for TLC: the .cfg files give the constants.    *)
(* Contents are only compared, so they are interchangeable for safety.     *)
EXTENDS DatasetPull, TLC

ContentSymmetry == Permutations(Contents)
=============================================================================
