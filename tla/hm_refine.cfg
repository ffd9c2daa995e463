SPECIFICATION PtrSpec
CONSTANTS
  Key = {k1, k2, k3, k4}
  Val = {v1, v2}
  NoKey = NoKey
  NoVal = NoVal
  HashVals = {0, 3, 7}
  HashFns <- AllHashFns
  DEFAULT_CAP = 4
  USIZE = 4096
  TSZ_KEY = 4
  TSZ_VAL = 4
  ALLOC_MAX = 256
  ReserveArgs = {0, 5}
  CallbackOps = {"get"}
SYMMETRY KeyValSymmetry
PROPERTY ImplementsMap
INVARIANT PointerGood
CONSTANT Rule = "sizes"
