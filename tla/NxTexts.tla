------------------------------- MODULE NxTexts -------------------------------
(***************************************************************************)
(* What include/nx/string/str.h promises, in the terms of NxSeqs: each     *)
(* string is a sequence of characters with room for some number of them,   *)
(* and a call that fails has changed nothing.  What is appended is what    *)
(* the view showed when the call began, also if it is of the same string.  *)
(***************************************************************************)
EXTENDS NxSeqs

CONSTANT Literals    \* the client's string literals

\* What a client can show to append: a part of a string, or a literal.
Parts(s) == { SubSeq(s, i, j) : i \in 1 .. Len(s) + 1, j \in 0 .. Len(s) }
Shown    == Literals \union (UNION { Parts(seqs[g]) : g \in alive })
AppendView(s) == { s \o t : t \in Shown }

Grown(s)   == Push(s) \union AppendView(s)
Changed(s) == Set(s) \union Resize(s) \union CopyAssign \union Clear

TextEdit(h) ==
  LET t == seqs'[h] IN
    /\ Len(t) <= room'[h] /\ (room'[h] # room[h] => Len(t) > room[h])
    /\ \/ (room'[h] # room[h] => room'[h] >= 2 * room[h]) /\ t \in Grown(seqs[h])
       \/ t \in Changed(seqs[h])

\* A call has no room for what it was asked for, and gets none.
TextFails ==
  /\ out' = "oom" /\ UNCHANGED <<seqs, room>>
  /\ \/ \E h \in alive : \/ \E t \in Grown(seqs[h]) \union Changed(seqs[h]) : Len(t) > room[h]
                         \/ \E n \in Lens : n > room[h]
     \/ alive # Vec

TextAppears(h) ==
  \/ Appears(h)
  \/ /\ out' = "ok" /\ DOMAIN room' = alive \union {h} /\ Lacks(room', h) = room
     /\ Lacks(seqs', h) = seqs /\ seqs'[h] \in Literals /\ Len(seqs'[h]) <= room'[h]

TextNext ==
  \/ TextFails
  \/ \E h \in alive : Only(h) /\ (TextEdit(h) \/ Reserve(h))
  \/ \E h \in Vec \ alive : TextAppears(h) \/ \E g \in alive : Move(h, g)
  \/ \E h \in alive : Drop(h) \/ \E g \in alive \ {h} : MoveAssign(h, g)

TextSpec == Init /\ [][TextNext]_seqVars
=============================================================================
