SPECIFICATION FsSpec
CONSTANTS
  Str = {h1, h2}
  Al = {a1, a2}
  Buf = {b1, b2, b3}
  Null = Null
  a = a
  Char = {a}
  Zero = Zero
  Uninit = Uninit
  FIRST_CAP = 1
  USIZE = 8
  ALLOC_MAX = 4
  Lens = {0, 3}
  Literals <- MCLiterals
  NoFile = NoFile
  Contents <- MCContents
  FILE_MAX = 3
SYMMETRY MCSymmetry
PROPERTY WritesAll
