SPECIFICATION Spec
CONSTANTS
  Key = {k1, k2, k3, k4}
  Val = {v1}
  NoKey = NoKey
  NoVal = NoVal
  HashVals = {1, 2, 3}
  HashFns <- ConstantHashFns
  DEFAULT_CAP = 4
  USIZE = 4096
  TSZ_KEY = 4
  TSZ_VAL = 4
  ALLOC_MAX = 2047
  ReserveArgs = {1024}
  CallbackOps = {"get"}

INVARIANT ReserveDelivers
