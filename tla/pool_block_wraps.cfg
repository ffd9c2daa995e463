SPECIFICATION Spec
CONSTANTS
  Null <- MCNull
  Junk <- MCJunk
  USIZE = 512
  ALIGN = 16
  WORD = 8
  BlockSizes = {1, 500}
  BlockCounts = {1, 2}
  Sizes = {0, 4, 16, 20, 40}
  Nums = {0, 2, 40}
INVARIANT UsableSize
