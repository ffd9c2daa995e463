\* Two vectors, buffers of up to 4 elements; a third buffer is there while a
\* copy or a move is under way.
SPECIFICATION Spec
CONSTANTS
  Vec = {h1, h2}
  Al = {a1, a2}
  Buf = {b1, b2, b3}
  Null = Null
  Val = {v1}
  Zero = Zero
  Uninit = Uninit
  USIZE = 8
  ALLOC_MAX = 4
  Lens = {0, 3}
SYMMETRY MCSymmetry
INVARIANTS TypeOK OneOwner NoUninit
PROPERTY ImplementsSeqs
