\* Up to three blocks of 16 or 32 bytes in a 9-bit address space: 32 * 16
\* overflows the byte count of new, 40 * 16 that of calloc.
SPECIFICATION Spec
CONSTANTS
  Null <- MCNull
  Junk <- MCJunk
  USIZE = 512
  ALIGN = 16
  WORD = 8
  BlockSizes = {1, 17}
  BlockCounts = {1, 3, 32}
  Sizes = {0, 4, 20, 40}
  Nums = {0, 2, 40}
INVARIANTS TypeOK FreeListExact UsedCounts NothingLeaks
PROPERTY ImplementsBlocks
