------------------------------ MODULE MCNxPool ------------------------------
(* Instances of NxPool for TLC: null is -1, any other word is -2.          *)
EXTENDS NxPool

MCNull == -1
MCJunk == -2
=============================================================================
