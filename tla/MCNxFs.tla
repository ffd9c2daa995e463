------------------------------- MODULE MCNxFs -------------------------------
(* Instances of NxFs for TLC.  Strings, buffers and allocators can be      *)
(* renamed: no definition tells them apart.                                *)
EXTENDS NxFs, TLC

CONSTANT a
MCLiterals == {<<a, a>>}
MCContents == {<<Zero, Zero>>}
MCSymmetry == Permutations(Str) \union Permutations(Buf) \union Permutations(Al)
=============================================================================
