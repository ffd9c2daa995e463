------------------------------- MODULE NxArrays -------------------------------
(***************************************************************************)
(* What include/nx/ds/arr.h promises: each array is a sequence whose length *)
(* only a move, a swap or an assignment changes.  Only a call that makes an *)
(* array, or assigns one of another length, can fail, and a call that fails *)
(* has changed nothing.                                                     *)
(***************************************************************************)
EXTENDS Integers, Sequences

CONSTANTS Arr,          \* the names of the client's arrays
          Val, Zero,    \* elements: written by the client, or all-zero bytes
          Lens          \* the lengths the client asks for

VARIABLES seqs,   \* for each array that exists, its elements
          out     \* the status the last call returned

arrayVars == <<seqs, out>>

alive == DOMAIN seqs
Lacks(h) == [g \in alive \ {h} |-> seqs[g]]

Init == seqs = [h \in {} |-> <<>>] /\ out = "ok"

New(h) ==
  /\ \E s \in { [i \in 1 .. n |-> Zero] : n \in Lens } \union { seqs[g] : g \in alive } :
       seqs' = [g \in alive \union {h} |-> IF g = h THEN s ELSE seqs[g]]

Drop(h) == seqs' = Lacks(h)

Move(h, g) == seqs' = [f \in (alive \ {g}) \union {h} |-> IF f = h THEN seqs[g] ELSE seqs[f]]

CopyAssign(h, g) == seqs' = [seqs EXCEPT ![h] = seqs[g]]
MoveAssign(h, g) == seqs' = IF h = g THEN seqs ELSE [seqs EXCEPT ![h] = seqs[g], ![g] = <<>>]
Swap(h, g)       == seqs' = [seqs EXCEPT ![h] = seqs[g], ![g] = seqs[h]]
Set(h)           == \E i \in 1 .. Len(seqs[h]), x \in Val : seqs' = [seqs EXCEPT ![h][i] = x]

Succeeds ==
  \/ \E h \in Arr \ alive : New(h) \/ \E g \in alive : Move(h, g)
  \/ \E h \in alive : Drop(h) \/ Set(h)
  \/ \E h, g \in alive : CopyAssign(h, g) \/ MoveAssign(h, g) \/ Swap(h, g)

Fails ==
  /\ UNCHANGED seqs
  /\ alive # Arr \/ \E h, g \in alive : Len(seqs[h]) # Len(seqs[g])

Next == (out' = "ok" /\ Succeeds) \/ (out' = "oom" /\ Fails)

Spec == Init /\ [][Next]_arrayVars
=============================================================================
