------------------------------- MODULE NxSeqs -------------------------------
(***************************************************************************)
(* What include/nx/ds/vec.h promises: each vector is a sequence with room  *)
(* for some number of elements.  Only a call that needs more room than     *)
(* there is can fail, and a call that fails has changed nothing.           *)
(***************************************************************************)
EXTENDS Integers, Sequences

CONSTANTS Vec,          \* the names of the client's vectors
          Val, Zero,    \* elements: written by the client, or all-zero bytes
          Lens          \* the lengths and capacities the client asks for

VARIABLES seqs,   \* for each vector that exists, its sequence
          room,   \* and its capacity
          out     \* the status the last call returned

seqVars == <<seqs, room, out>>

alive == DOMAIN seqs

Zeros(n)     == [i \in 1 .. n |-> Zero]
Before(s, i) == SubSeq(s, 1, i)
From(s, i)   == SubSeq(s, i + 1, Len(s))
Has(f, h, x) == [g \in DOMAIN f \union {h} |-> IF g = h THEN x ELSE f[g]]
Lacks(f, h)  == [g \in DOMAIN f \ {h} |-> f[g]]

Init == seqs = [h \in {} |-> <<>>] /\ room = [h \in {} |-> 0] /\ out = "ok"

-----------------------------------------------------------------------------
(* What a call can make of the sequence s.                                 *)

Push(s)      == { Append(s, x) : x \in Val }
Insert(s)    == { Before(s, i) \o <<x>> \o From(s, i) : i \in 0 .. Len(s), x \in Val }
Set(s)       == { [s EXCEPT ![i] = x] : i \in 1 .. Len(s), x \in Val }
Erase(s)     == { Before(s, i - 1) \o From(s, i) : i \in 1 .. Len(s) }
Pop(s)       == IF s = <<>> THEN {} ELSE { Before(s, Len(s) - 1) }
Resize(s)    == { IF n <= Len(s) THEN Before(s, n) ELSE s \o Zeros(n - Len(s)) : n \in Lens }
Extend(s)    == { s \o seqs[g] : g \in alive }
CopyAssign   == { seqs[g] : g \in alive }
Clear        == { <<>> }

OneMore(s) == Push(s) \union Insert(s)
Others(s)  == Set(s) \union Erase(s) \union Pop(s) \union Resize(s) \union Extend(s)
              \union CopyAssign \union Clear

-----------------------------------------------------------------------------
(* Calls that work on one vector.                                          *)

\* Room is made only for a sequence that needs it; for one more element it at
\* least doubles.
Edit(h) ==
  LET t == seqs'[h] IN
    /\ Len(t) <= room'[h] /\ (room'[h] # room[h] => Len(t) > room[h])
    /\ \/ /\ room'[h] # room[h] => room'[h] >= 2 * room[h]
          /\ t \in Push(seqs[h]) \/ t \in Insert(seqs[h])
       \/ t \in Others(seqs[h])

Reserve(h) == /\ seqs'[h] = seqs[h] /\ room'[h] >= room[h]
              /\ \E n \in Lens : n <= room'[h] /\ (n <= room[h] => room' = room)
Shrink(h)  == seqs'[h] = seqs[h] /\ room'[h] = Len(seqs[h])

Only(h) == /\ out' = "ok" /\ DOMAIN room' = DOMAIN room
           /\ Lacks(room', h) = Lacks(room, h) /\ Lacks(seqs', h) = Lacks(seqs, h)

\* A call has no room for what it was asked for, and gets none.
Fails ==
  /\ out' = "oom" /\ UNCHANGED <<seqs, room>>
  /\ \/ \E h \in alive : \/ \E t \in Others(seqs[h]) \union OneMore(seqs[h]) : Len(t) > room[h]
                         \/ \E n \in Lens : n > room[h]
                         \/ Len(seqs[h]) \notin {0, room[h]}
     \/ alive # Vec

-----------------------------------------------------------------------------
(* Calls that make, end or exchange vectors.                               *)

\* A vector h appears: new, or a copy.
Appears(h) ==
  /\ out' = "ok" /\ DOMAIN room' = DOMAIN room \union {h}
  /\ Lacks(room', h) = room /\ Lacks(seqs', h) = seqs
  /\ \/ \E n, c \in Lens : n <= c /\ seqs'[h] = Zeros(n) /\ room'[h] = c
     \/ seqs'[h] \in CopyAssign /\ Len(seqs'[h]) <= room'[h]

Drop(h)    == out' = "ok" /\ room' = Lacks(room, h) /\ seqs' = Lacks(seqs, h)
Move(h, g) == /\ out' = "ok" /\ room' = Lacks(Has(room, h, room[g]), g)
              /\ seqs' = Lacks(Has(seqs, h, seqs[g]), g)
MoveAssign(h, g) ==
  /\ out' = "ok" /\ room' = [room EXCEPT ![h] = room[g], ![g] = 0]
  /\ seqs' = [seqs EXCEPT ![h] = seqs[g], ![g] = <<>>]
Swap(h, g) == /\ out' = "ok" /\ room' = [room EXCEPT ![h] = room[g], ![g] = room[h]]
              /\ seqs' = [seqs EXCEPT ![h] = seqs[g], ![g] = seqs[h]]

Next ==
  \/ Fails
  \/ \E h \in alive : Only(h) /\ (Edit(h) \/ Reserve(h) \/ Shrink(h))
  \/ \E h \in Vec \ alive : Appears(h) \/ \E g \in alive : Move(h, g)
  \/ \E h \in alive : Drop(h) \/ \E g \in alive \ {h} : MoveAssign(h, g) \/ Swap(h, g)

Spec == Init /\ [][Next]_seqVars
=============================================================================
