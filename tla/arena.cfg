SPECIFICATION Spec
CONSTANTS
  ALIGN = 4
  USIZE = 32
  Caps = {8}
  Slots = {32}
  SLOT = 4
  Byte = {p}
  Zero = Zero
  Uninit = Uninit
  Arr = {a1, a2}
  TSZ = 2
  Lens = {0, 1, 2}
  Sizes = {3, 5, 27}
  Callocs <- MCCallocs
  ArrAl = {"libc", "log"}
  RawAl = {"libc", "plain"}
SYMMETRY Symmetric
INVARIANTS TypeOK BlocksApart OneOwner RawKept
PROPERTY ImplementsArrays
