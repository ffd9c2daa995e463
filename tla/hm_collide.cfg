\* Every hash callback into {0, 1, 3, 7}: 0 is the reserved hash, 1 what
\* fix_hash turns it into, 3 and 7 collide in a table of 4 and wrap around.
SPECIFICATION Spec
CONSTANTS
  Key = {k1, k2, k3, k4}
  Val = {v1}
  NoKey = NoKey
  NoVal = NoVal
  HashVals = {0, 1, 3, 7}
  HashFns <- AllHashFns
  DEFAULT_CAP = 4
  USIZE = 4096
  TSZ_KEY = 4
  TSZ_VAL = 4
  ALLOC_MAX = 256
  ReserveArgs = {0, 4, 800}
  CallbackOps = {"get"}
SYMMETRY KeySymmetry
INVARIANTS TypeOK RobinHood MissIsAbsence KeysUnique LenCounts LoadFactor ProbesEnd ReserveDelivers ForEachOnce
