------------------------------- MODULE MCNxLib -------------------------------
(* NxLib for TLC: floating-point numbers of four bits, where 0 and 8 are the *)
(* two zeros and 7 and 15 are NaN.  Spans are of the two zeros, 1 and NaN.   *)
EXTENDS NxLib
=============================================================================
