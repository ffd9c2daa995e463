------------------------------ MODULE MCNxVec -------------------------------
(* Instances of NxVec for TLC.  Buffers, vectors and allocators can be     *)
(* renamed: no definition tells them apart.                                *)
EXTENDS NxVec, TLC

MCSymmetry == Permutations(Vec) \union Permutations(Buf) \union Permutations(Al)
=============================================================================
