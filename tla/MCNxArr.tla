------------------------------- MODULE MCNxArr -------------------------------
(* NxArr for TLC: an arena of two units beside one block of libc, where the  *)
(* client's size 27 wraps the arena's offset, and 8 * 4 wraps to 0.  Arrays  *)
(* can be renamed: no definition tells them apart.                           *)
EXTENDS NxArr, TLC

MCCallocs == {<<1, 2>>, <<8, 4>>}

Symmetric == Permutations(Arr)
=============================================================================
