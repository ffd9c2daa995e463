---------------------------- MODULE MCNxHashMap ----------------------------
(* Instances of NxHashMap for TLC.                                         *)
EXTENDS NxHashMap, TLC

CONSTANTS HashVals   \* the values a hash callback returns in this instance

AllHashFns == [Key -> HashVals]

\* Hash callbacks that send every key to one of the given values.
ConstantHashFns == {[k \in Key |-> h] : h \in HashVals}

KeySymmetry == Permutations(Key)
=============================================================================
