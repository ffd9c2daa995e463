--------------------------- MODULE MCNxHashMapPtr ---------------------------
(* Instances of NxHashMapPtr for TLC.                                      *)
EXTENDS NxHashMapPtr, TLC

CONSTANTS HashVals

AllHashFns == [Key -> HashVals]
KeyValSymmetry == Permutations(Key) \union Permutations(Val)
=============================================================================
