SPECIFICATION Spec
CONSTANTS
  BITS = 4
  INF = 6
  Space = {8}
  HALF = 8
  Keys = {8, 0, 1, 7}
  LEN_MAX = 5
  Widths = {2, 4, 8}
  STATE_MAX = 2
INVARIANTS SortsAndSelects SearchesAgree Rearranges SatExact BitsExact RandomUniform ComparesConsistently
