---------------------------- MODULE NxArr_proofs ----------------------------
(***************************************************************************)
(* Proofs about NxArr, for any arena, any places and sizes of libc's       *)
(* blocks and any number of arrays: the blocks lie apart, each array and   *)
(* the client have theirs to themselves, no byte changes but by a call for *)
(* its owner, and the arrays are the sequences NxArrays promises.          *)
(*                                                                         *)
(* MemOK is what holds of a memory; a call of an allocator relates two:    *)
(* Replaced, Freed and Patched say what it does to one block and that it   *)
(* keeps the others.  Good adds the owners of the blocks.                  *)
(***************************************************************************)
EXTENDS NxArr, Sequences, TLAPS

-----------------------------------------------------------------------------
(* What holds of a memory M between calls.                                 *)

AlNames == {"libc", "arena", "plain", "log"}
Content == Byte \union {Zero, Uninit}

BlockOK(M, b) ==
  /\ b \in Nat /\ b % ALIGN = 0
  /\ M.blocks[b] \in [al : AlNames, size : Nat \ {0}]
  /\ b .. b + M.blocks[b].size - 1 \subseteq DOMAIN M.bytes
  /\ M.blocks[b].al = "libc" => b \in Slots /\ M.blocks[b].size <= SLOT
  /\ M.blocks[b].al # "libc" => b + M.blocks[b].size <= M.offset

MemOK(M) ==
  /\ M = [cap |-> M.cap, offset |-> M.offset, bytes |-> M.bytes, blocks |-> M.blocks]
  /\ M.cap \in Caps \union {0} /\ M.offset \in 0 .. M.cap /\ M.offset % ALIGN = 0
  /\ DOMAIN M.bytes \subseteq Nat /\ M.bytes \in [DOMAIN M.bytes -> Content]
  /\ M.blocks = [b \in DOMAIN M.blocks |-> M.blocks[b]]
  /\ \A b \in DOMAIN M.blocks : BlockOK(M, b)
  /\ \A b, c \in DOMAIN M.blocks : b < c => b + M.blocks[b].size <= c

\* The blocks in S are in N what they are in M, and hold the same bytes.
Kept(N, M, S) ==
  \A b \in S :
    /\ b \in DOMAIN N.blocks /\ N.blocks[b] = M.blocks[b]
    /\ \A i \in 0 .. M.blocks[b].size - 1 : N.bytes[b + i] = M.bytes[b + i]

\* The bytes c are what n bytes can begin with.
Filling(c, n) == DOMAIN c \subseteq 0 .. n - 1 /\ \A i \in DOMAIN c : c[i] \in Content

\* In N, the block at address b, of n bytes from al that begin with c, is in the place
\* of the one M has at address at; or beside those of M, if at is null.
Replaced(N, M, at, b, al, n, c) ==
  /\ MemOK(N) /\ N.cap = M.cap
  /\ b \in Nat /\ b \notin DOMAIN M.blocks \ {at}
  /\ DOMAIN N.blocks = (DOMAIN M.blocks \ {at}) \union {b}
  /\ N.blocks[b] = [al |-> al, size |-> n]
  /\ Kept(N, M, DOMAIN M.blocks \ {at})
  /\ \A i \in DOMAIN c : N.bytes[b + i] = c[i]

Freed(N, M, at) ==
  /\ MemOK(N) /\ N.cap = M.cap
  /\ DOMAIN N.blocks = DOMAIN M.blocks \ {at}
  /\ Kept(N, M, DOMAIN M.blocks \ {at})

\* The block at address b holds c from its byte k on.
Patched(N, M, b, k, c) ==
  /\ MemOK(N) /\ N.cap = M.cap /\ N.blocks = M.blocks
  /\ Kept(N, M, DOMAIN M.blocks \ {b})
  /\ \A i \in 0 .. M.blocks[b].size - 1 :
       N.bytes[b + i] = IF i - k \in DOMAIN c THEN c[i - k] ELSE M.bytes[b + i]

-----------------------------------------------------------------------------
(* Arithmetic of addresses.                                                *)

LEMMA Division ==
  ASSUME NEW x \in Int, NEW a \in Nat \ {0}
  PROVE  \E k \in Int, r \in 0 .. a - 1 : r = x % a /\ x = (a * k) + r
<1>1. x % a \in 0 .. a - 1
  OBVIOUS
<1>2. x \div a \in Int
  OBVIOUS
<1>3. x = a * (x \div a) + (x % a)
  OBVIOUS
<1> QED
  BY <1>1, <1>2, <1>3

LEMMA Multiples ==
  ASSUME NEW a \in Nat \ {0}, NEW x \in Int
  PROVE  x % a = 0 <=> \E q \in Int : x = a * q
<1>1. PICK k \in Int, r \in 0 .. a - 1 : r = x % a /\ x = (a * k) + r
  BY Division
<1>2. ASSUME NEW q \in Int, x = a * q PROVE r = 0
  <2>1. PICK d \in Int : d = q - k
    OBVIOUS
  <2>2. r = a * d
    <3>1. a * q = (a * k) + (a * d)
      BY <2>1
    <3>2. PICK u \in Int, v \in Int : u = a * k /\ v = a * d
      OBVIOUS
    <3>3. x = u + v /\ x = u + r
      <4>1. x = u + v
        BY <3>1, <3>2, <1>2
      <4>2. x = u + r
        BY <3>2, <1>1, Zenon
      <4> QED
        BY <4>1, <4>2
    <3>4. r = v
      BY <3>3
    <3> QED
      BY <3>2, <3>4
  <2>3. CASE d >= 1
    <3>1. a * d >= a
      BY <2>3
    <3> QED
      BY <3>1, <2>2
  <2>4. CASE d <= -1
    <3>1. a * d <= -a
      BY <2>4
    <3> QED
      BY <3>1, <2>2
  <2>5. CASE d = 0
    BY <2>5, <2>2
  <2> QED
    BY <2>3, <2>4, <2>5
<1>3. r = 0 => x = a * k
  <2>1. PICK u \in Int : u = a * k
    OBVIOUS
  <2> QED
    BY <2>1, <1>1
<1> QED
  BY <1>1, <1>2, <1>3

LEMMA AlignedSum ==
  ASSUME NEW a \in Nat \ {0}, NEW x \in Int, NEW y \in Int, x % a = 0, y % a = 0
  PROVE  (x + y) % a = 0
<1>1. PICK p \in Int, q \in Int : x = a * p /\ y = a * q
  BY Multiples
<1>2. x + y = a * (p + q) /\ p + q \in Int /\ x + y \in Int
  BY <1>1
<1> QED
  BY <1>2, Multiples

\* A size rounded up is a multiple of ALIGN; that it is no less than the size is
\* what arena_alloc checks.
LEMMA AlignUpFacts ==
  ASSUME NEW n \in Nat
  PROVE  align_up(n) \in Nat /\ align_up(n) % ALIGN = 0
<1>1. PICK y \in Nat : y = (n + ALIGN - 1) % USIZE
  BY ArenaAssumption
<1>2. ALIGN \in Nat \ {0} /\ align_up(n) = y - (y % ALIGN)
  BY <1>1, ArenaAssumption DEF align_up
<1>3. PICK k \in Int, r \in 0 .. ALIGN - 1 : r = y % ALIGN /\ y = (ALIGN * k) + r
  <2>1. y \in Int
    OBVIOUS
  <2> QED
    BY <2>1, <1>2, Division, Zenon
<1>4. align_up(n) = ALIGN * k /\ align_up(n) \in Int /\ y = align_up(n) + r
  <2>1. PICK z \in Int : z = ALIGN * k
    BY <1>2
  <2>2. align_up(n) = y - r /\ y = z + r
    BY <2>1, <1>2, <1>3
  <2> QED
    BY <2>1, <2>2
<1>5. align_up(n) >= 0
  <2>1. CASE k >= 0
    <3>1. ALIGN * k >= 0
      BY <2>1, <1>2
    <3> QED
      BY <3>1, <1>4
  <2>2. CASE k <= -1
    <3>1. ALIGN * k <= -ALIGN
      BY <2>2, <1>2
    <3> QED
      BY <3>1, <1>2, <1>3, <1>4
  <2> QED
    BY <2>1, <2>2
<1>6. align_up(n) % ALIGN = 0
  <2>1. \E q \in Int : align_up(n) = ALIGN * q
    BY <1>4
  <2> QED
    BY <2>1, <1>2, <1>4, Multiples, Zenon
<1> QED
  BY <1>4, <1>5, <1>6

-----------------------------------------------------------------------------
(* What the allocators do to a memory.                                     *)

LEMMA CapFacts ==
  ASSUME NEW M, MemOK(M)
  PROVE  M.cap \in Nat /\ M.offset \in Nat /\ M.offset <= M.cap
<1>1. M.cap \in Nat
  BY ArenaAssumption DEF MemOK
<1> QED
  BY <1>1 DEF MemOK

\* Block, with the fields it leaves alone and an offset.
WithBlock(M, off, al, at, n, c) ==
  [cap |-> M.cap, offset |-> off,
   bytes |-> [i \in DOMAIN M.bytes \union at .. at + n - 1 |->
                IF i - at \in DOMAIN c THEN c[i - at]
                ELSE IF i \in DOMAIN M.bytes THEN M.bytes[i] ELSE Uninit],
   blocks |-> Has(M.blocks, at, [al |-> al, size |-> n])]

LEMMA BlockIs ==
  ASSUME NEW M, MemOK(M), NEW al, NEW at, NEW n, NEW c, NEW x
  PROVE  /\ Block(M, al, at, n, c) = WithBlock(M, M.offset, al, at, n, c)
         /\ [Block(M, al, at, n, c) EXCEPT !.offset = x] = WithBlock(M, x, al, at, n, c)
<1>1. PICK cap, off, by, bl : M = [cap |-> cap, offset |-> off, bytes |-> by, blocks |-> bl]
  BY DEF MemOK
<1>2. M.cap = cap /\ M.offset = off /\ M.bytes = by /\ M.blocks = bl
  BY <1>1
<1>3. PICK y, z : /\ y = Has(bl, at, [al |-> al, size |-> n])
                  /\ z = [i \in DOMAIN by \union at .. at + n - 1 |->
                            IF i - at \in DOMAIN c THEN c[i - at]
                            ELSE IF i \in DOMAIN by THEN by[i] ELSE Uninit]
  OBVIOUS
<1>4. Block(M, al, at, n, c) = [M EXCEPT !.blocks = y, !.bytes = z]
  BY <1>2, <1>3 DEF Block
<1>5. Block(M, al, at, n, c) = [cap |-> cap, offset |-> off, bytes |-> z, blocks |-> y]
  BY <1>1, <1>4
<1>6. [Block(M, al, at, n, c) EXCEPT !.offset = x]
        = [cap |-> cap, offset |-> x, bytes |-> z, blocks |-> y]
  BY <1>5
<1> QED
  BY <1>2, <1>3, <1>5, <1>6 DEF WithBlock

\* A block fits in beside those of M.
Beside(M, off, al, at, n) ==
  /\ at \in Nat /\ at % ALIGN = 0 /\ n \in Nat \ {0} /\ al \in AlNames
  /\ off \in M.offset .. M.cap /\ off % ALIGN = 0
  /\ al = "libc" => at \in Slots /\ n <= SLOT
  /\ al # "libc" => at + n <= off
  /\ \A b \in DOMAIN M.blocks : /\ b # at /\ (b < at => b + M.blocks[b].size <= at)
                                /\ (at < b => at + n <= b)

LEMMA WithBlockFacts ==
  ASSUME NEW M, MemOK(M), NEW off, NEW al, NEW at, NEW n, NEW c, Filling(c, n),
         Beside(M, off, al, at, n),
         NEW N, N = WithBlock(M, off, al, at, n, c)
  PROVE  Replaced(N, M, Null, at, al, n, c)
<1>1. /\ N.cap = M.cap /\ N.offset = off
      /\ N = [cap |-> N.cap, offset |-> N.offset, bytes |-> N.bytes, blocks |-> N.blocks]
      /\ N.bytes = [i \in DOMAIN M.bytes \union at .. at + n - 1 |->
                      IF i - at \in DOMAIN c THEN c[i - at]
                      ELSE IF i \in DOMAIN M.bytes THEN M.bytes[i] ELSE Uninit]
      /\ N.blocks = Has(M.blocks, at, [al |-> al, size |-> n])
  BY DEF WithBlock
<1>2. /\ DOMAIN N.blocks = DOMAIN M.blocks \union {at}
      /\ N.blocks[at] = [al |-> al, size |-> n]
      /\ \A b \in DOMAIN M.blocks : N.blocks[b] = M.blocks[b]
      /\ N.blocks = [b \in DOMAIN N.blocks |-> N.blocks[b]]
  BY <1>1 DEF Has, Beside
<1>3. /\ DOMAIN N.bytes = DOMAIN M.bytes \union at .. at + n - 1
      /\ DOMAIN N.bytes \subseteq Nat /\ N.bytes \in [DOMAIN N.bytes -> Content]
  <2>1. at .. at + n - 1 \subseteq Nat /\ Uninit \in Content
    BY DEF Beside, Content
  <2>2. \A i \in DOMAIN c : c[i] \in Content
    BY DEF Filling
  <2>3. DOMAIN M.bytes \subseteq Nat /\ \A i \in DOMAIN M.bytes : M.bytes[i] \in Content
    BY DEF MemOK
  <2> QED
    BY <1>1, <2>1, <2>2, <2>3
<1>4. /\ M.cap \in Nat /\ M.offset \in Nat /\ off \in Nat /\ off <= M.cap /\ M.offset <= off
      /\ off \in 0 .. M.cap
  BY CapFacts DEF Beside
<1>5. ASSUME NEW b \in DOMAIN N.blocks PROVE BlockOK(N, b)
  <2>1. CASE b = at
    BY <2>1, <1>1, <1>2, <1>3 DEF BlockOK, Beside
  <2>2. CASE b # at
    <3>1. b \in DOMAIN M.blocks /\ BlockOK(M, b)
      BY <2>2, <1>2 DEF MemOK
    <3> QED
      BY <3>1, <1>1, <1>2, <1>3, <1>4 DEF BlockOK
  <2> QED
    BY <2>1, <2>2
<1>6. ASSUME NEW b \in DOMAIN N.blocks, NEW d \in DOMAIN N.blocks, b < d
      PROVE  b + N.blocks[b].size <= d
  BY <1>2, <1>6 DEF MemOK, Beside
<1>7. MemOK(N)
  <2>1. N.offset % ALIGN = 0 /\ N.cap \in Caps \union {0} /\ N.offset \in 0 .. N.cap
    BY <1>1, <1>4 DEF MemOK, Beside
  <2> QED
    BY <2>1, <1>1, <1>2, <1>3, <1>5, <1>6 DEF MemOK
<1>8. Kept(N, M, DOMAIN M.blocks)
  <2> SUFFICES ASSUME NEW b \in DOMAIN M.blocks, NEW i \in 0 .. M.blocks[b].size - 1
               PROVE  N.bytes[b + i] = M.bytes[b + i]
    BY <1>2 DEF Kept
  <2>1. /\ b \in Nat /\ M.blocks[b].size \in Nat
        /\ b .. b + M.blocks[b].size - 1 \subseteq DOMAIN M.bytes
    BY DEF MemOK, BlockOK
  <2>2. /\ at \in Nat /\ n \in Nat /\ b # at /\ (b < at => b + M.blocks[b].size <= at)
        /\ (at < b => at + n <= b)
    BY DEF Beside
  <2>3. PICK j \in Nat : j = b + i /\ j \in DOMAIN M.bytes
    BY <2>1
  <2>4. j - at \notin DOMAIN c
    <3>1. j - at \notin 0 .. n - 1
      BY <2>1, <2>2, <2>3
    <3> QED
      BY <3>1 DEF Filling
  <2>5. N.bytes[j] = M.bytes[j]
    BY <2>3, <2>4, <1>1
  <2> QED
    BY <2>3, <2>5
<1>9. \A i \in DOMAIN c : N.bytes[at + i] = c[i]
  <2> SUFFICES ASSUME NEW i \in DOMAIN c PROVE N.bytes[at + i] = c[i]
    OBVIOUS
  <2>1. at + i \in at .. at + n - 1 /\ (at + i) - at = i
    BY DEF Filling, Beside
  <2> QED
    BY <2>1, <1>1
<1>10. Null \notin DOMAIN M.blocks /\ at \in Nat /\ at \notin DOMAIN M.blocks
  BY DEF MemOK, BlockOK, Null, Beside
<1> QED
  BY <1>1, <1>2, <1>7, <1>8, <1>9, <1>10 DEF Replaced

\* The arena's blocks are those that did not come from libc.
LEMMA ArenaBlocks ==
  ASSUME NEW M, MemOK(M), NEW b \in DOMAIN M.blocks
  PROVE  InArena(b) <=> M.blocks[b].al # "libc"
<1>1. BlockOK(M, b) /\ M.offset \in 0 .. M.cap /\ M.cap \in Caps \union {0}
  BY DEF MemOK
<1>2. b \in Nat /\ M.blocks[b].size \in Nat \ {0}
  BY <1>1 DEF BlockOK
<1>3. CASE M.blocks[b].al = "libc"
  BY <1>1, <1>2, <1>3, ArenaAssumption DEF BlockOK, InArena
<1>4. CASE M.blocks[b].al # "libc"
  <2>1. M.cap \in Nat /\ b < M.cap /\ M.cap \in Caps
    <3>1. M.cap \in Nat /\ M.offset \in Nat /\ M.offset <= M.cap
      BY CapFacts
    <3>2. b + M.blocks[b].size <= M.offset
      BY <1>1, <1>4 DEF BlockOK
    <3>3. b < M.cap /\ M.cap # 0
      BY <3>1, <3>2, <1>2
    <3> QED
      BY <3>1, <3>3, <1>1
  <2>2. \A s \in Slots : M.cap <= s /\ s \in Nat
    BY <2>1, ArenaAssumption
  <2> QED
    BY <1>2, <1>4, <2>1, <2>2 DEF InArena
<1> QED
  BY <1>3, <1>4

LEMMA SlotsBehind ==
  ASSUME NEW M, MemOK(M), M.cap # 0, NEW s \in Slots
  PROVE  M.cap <= s /\ s \in Nat /\ s % ALIGN = 0
<1>1. M.cap \in Caps
  BY DEF MemOK
<1> QED
  BY <1>1, ArenaAssumption

LEMMA MallocBeside ==
  ASSUME NEW M, MemOK(M), NEW s \in Slots, s \notin DOMAIN M.blocks,
         NEW n \in Nat \ {0}, n <= SLOT
  PROVE  Beside(M, M.offset, "libc", s, n)
<1>1. s \in Nat /\ s % ALIGN = 0 /\ SLOT \in Nat
  BY ArenaAssumption
<1>2. M.cap \in Nat /\ M.offset \in M.offset .. M.cap /\ M.offset % ALIGN = 0
  BY CapFacts DEF MemOK
<1>3. ASSUME NEW b \in DOMAIN M.blocks
      PROVE  /\ b # s /\ (b < s => b + M.blocks[b].size <= s)
             /\ (s < b => s + n <= b)
  <2>1. b \in Nat /\ M.blocks[b].size \in Nat \ {0} /\ BlockOK(M, b)
    BY DEF MemOK, BlockOK
  <2>2. CASE M.blocks[b].al = "libc"
    <3>1. b \in Slots /\ M.blocks[b].size <= SLOT
      BY <2>1, <2>2 DEF BlockOK
    <3>2. (b < s => b + SLOT <= s) /\ (s < b => s + SLOT <= b)
      BY <3>1, ArenaAssumption
    <3> QED
      BY <3>1, <3>2, <1>1, <2>1
  <2>3. CASE M.blocks[b].al # "libc"
    <3>1. b + M.blocks[b].size <= M.offset /\ M.offset <= M.cap
      BY <2>1, <2>3, CapFacts DEF BlockOK
    <3>2. M.cap # 0
      BY <3>1, <2>1, <1>2, CapFacts
    <3>3. M.cap <= s
      BY <3>2, SlotsBehind
    <3>4. b + M.blocks[b].size <= s
      BY <3>1, <3>3, <2>1, <1>1, CapFacts
    <3> QED
      BY <3>4, <2>1, <1>1
  <2> QED
    BY <2>2, <2>3
<1> QED
  BY <1>1, <1>2, <1>3 DEF Beside, AlNames

LEMMA ArenaBeside ==
  ASSUME NEW M, MemOK(M), NEW al \in AlNames \ {"libc"}, NEW n \in Nat, CanAlloc(M, n)
  PROVE  Beside(M, M.offset + align_up(n), al, M.offset, n)
<1>1. PICK k \in Nat : k = align_up(n) /\ k % ALIGN = 0
  BY AlignUpFacts
<1>2. /\ n > 0 /\ k >= n /\ M.offset + k <= M.cap
      /\ M.cap \in Nat /\ M.offset \in Nat /\ M.offset % ALIGN = 0
  BY <1>1, CapFacts DEF CanAlloc, MemOK
<1>3. (M.offset + k) % ALIGN = 0
  <2>1. ALIGN \in Nat \ {0} /\ k \in Int /\ M.offset \in Int
    BY <1>2, ArenaAssumption
  <2> QED
    BY <2>1, <1>1, <1>2, AlignedSum
<1>4. ASSUME NEW b \in DOMAIN M.blocks
      PROVE  /\ b # M.offset /\ (b < M.offset => b + M.blocks[b].size <= M.offset)
             /\ (M.offset < b => M.offset + n <= b)
  <2>1. b \in Nat /\ M.blocks[b].size \in Nat \ {0} /\ BlockOK(M, b)
    BY DEF MemOK, BlockOK
  <2>2. CASE M.blocks[b].al = "libc"
    <3>1. b \in Slots /\ M.cap # 0
      BY <2>1, <2>2, <1>2 DEF BlockOK
    <3>2. M.cap <= b
      BY <3>1, SlotsBehind
    <3> QED
      BY <3>2, <1>2, <2>1
  <2>3. CASE M.blocks[b].al # "libc"
    <3>1. b + M.blocks[b].size <= M.offset
      BY <2>1, <2>3 DEF BlockOK
    <3> QED
      BY <3>1, <1>2, <2>1
  <2> QED
    BY <2>2, <2>3
<1>5. /\ M.offset + k \in M.offset .. M.cap /\ M.offset + n <= M.offset + k
      /\ n \in Nat \ {0}
  BY <1>2
<1> QED
  BY <1>1, <1>2, <1>3, <1>4, <1>5 DEF Beside

LEMMA AllocFacts ==
  ASSUME NEW M, MemOK(M), NEW al \in AlNames, NEW n \in Nat, NEW c, Filling(c, n),
         NEW o \in nx_al_alloc(M, al, n, c)
  PROVE  Replaced(o.m, M, Null, o.data, al, n, c) /\ n # 0
<1>1. CASE al = "libc"
  <2>1. PICK s \in Slots : /\ s \notin DOMAIN M.blocks /\ 0 < n /\ n <= SLOT
                           /\ o = [m |-> Block(M, "libc", s, n, c), data |-> s]
    BY <1>1 DEF nx_al_alloc, malloc
  <2>2. Beside(M, M.offset, "libc", s, n)
    BY <2>1, MallocBeside
  <2>3. o.data = s /\ o.m = WithBlock(M, M.offset, al, s, n, c)
    BY <2>1, <1>1, BlockIs
  <2> QED
    BY <2>1, <2>2, <2>3, <1>1, WithBlockFacts
<1>2. CASE al # "libc"
  <2>1. /\ CanAlloc(M, n) /\ o.data = M.offset
        /\ o.m = [Block(M, al, M.offset, n, c) EXCEPT !.offset = @ + align_up(n)]
    BY <1>2 DEF nx_al_alloc, arena_alloc
  <2>2. Block(M, al, M.offset, n, c).offset = M.offset
    <3>1. Block(M, al, M.offset, n, c) = WithBlock(M, M.offset, al, M.offset, n, c)
      BY BlockIs
    <3> QED
      BY <3>1 DEF WithBlock
  <2>3. PICK off : off = M.offset + align_up(n)
    OBVIOUS
  <2>4. o.m = WithBlock(M, off, al, M.offset, n, c)
    BY <2>1, <2>2, <2>3, BlockIs
  <2>5. Beside(M, off, al, M.offset, n)
    BY <2>1, <2>3, <1>2, ArenaBeside
  <2>6. n # 0
    BY <2>1 DEF CanAlloc
  <2> QED
    BY <2>1, <2>4, <2>5, <2>6, WithBlockFacts
<1> QED
  BY <1>1, <1>2

\* A block is freed: what it held may go, but nothing else.
LEMMA DeallocFacts ==
  ASSUME NEW M, MemOK(M), NEW at \in DOMAIN M.blocks \union {Null}
  PROVE  Freed(nx_al_dealloc(M, at), M, at)
<1>1. PICK N : N = nx_al_dealloc(M, at)
  OBVIOUS
<1>2. Null \notin DOMAIN M.blocks
  BY DEF MemOK, BlockOK, Null
<1>3. CASE at = Null
  <2>1. N = M /\ DOMAIN M.blocks \ {at} = DOMAIN M.blocks
    BY <1>1, <1>2, <1>3 DEF nx_al_dealloc
  <2> QED
    BY <1>1, <2>1 DEF Freed, Kept
<1>4. CASE at # Null
  <2>1. PICK y : y = IF InArena(at) THEN M.bytes
                     ELSE [i \in DOMAIN M.bytes \ (at .. at + M.blocks[at].size - 1) |-> M.bytes[i]]
    OBVIOUS
  <2>2. PICK z : z = Lacks(M.blocks, at)
    OBVIOUS
  <2>3. N = [M EXCEPT !.blocks = z, !.bytes = y]
    BY <1>1, <1>4, <2>1, <2>2 DEF nx_al_dealloc
  <2>4. M = [cap |-> M.cap, offset |-> M.offset, bytes |-> M.bytes, blocks |-> M.blocks]
    BY DEF MemOK
  <2>5. N = [cap |-> M.cap, offset |-> M.offset, bytes |-> y, blocks |-> z]
    BY <2>3, <2>4
  <2>6. N.cap = M.cap /\ N.offset = M.offset /\ N.bytes = y /\ N.blocks = z
        /\ N = [cap |-> N.cap, offset |-> N.offset, bytes |-> N.bytes, blocks |-> N.blocks]
    BY <2>5
  <2>7. /\ DOMAIN N.blocks = DOMAIN M.blocks \ {at}
        /\ \A b \in DOMAIN N.blocks : N.blocks[b] = M.blocks[b]
        /\ N.blocks = [b \in DOMAIN N.blocks |-> N.blocks[b]]
    BY <2>2, <2>6 DEF Lacks
  <2>8. /\ DOMAIN N.bytes \subseteq DOMAIN M.bytes /\ N.bytes \in [DOMAIN N.bytes -> Content]
        /\ \A i \in DOMAIN N.bytes : N.bytes[i] = M.bytes[i]
        /\ \A i \in DOMAIN M.bytes :
             i \notin at .. at + M.blocks[at].size - 1 => i \in DOMAIN N.bytes
    BY <2>1, <2>6 DEF MemOK
  <2>9. ASSUME NEW b \in DOMAIN N.blocks
        PROVE  b .. b + M.blocks[b].size - 1 \subseteq DOMAIN N.bytes
    <3>1. b \in DOMAIN M.blocks /\ at \in DOMAIN M.blocks /\ b # at
      BY <1>4, <2>7
    <3>2. /\ b \in Nat /\ M.blocks[b].size \in Nat /\ at \in Nat /\ M.blocks[at].size \in Nat
          /\ b .. b + M.blocks[b].size - 1 \subseteq DOMAIN M.bytes
      BY <3>1 DEF MemOK, BlockOK
    <3>3. b + M.blocks[b].size <= at \/ at + M.blocks[at].size <= b
      <4>1. b < at \/ at < b
        BY <3>1, <3>2
      <4> QED
        BY <4>1, <3>1 DEF MemOK
    <3>4. ASSUME NEW i \in b .. b + M.blocks[b].size - 1
          PROVE  i \notin at .. at + M.blocks[at].size - 1
      BY <3>2, <3>3
    <3> QED
      BY <3>2, <3>4, <2>8
  <2>10. MemOK(N)
    <3>1. ASSUME NEW b \in DOMAIN N.blocks PROVE BlockOK(N, b)
      <4>1. b \in DOMAIN M.blocks /\ BlockOK(M, b) /\ N.blocks[b] = M.blocks[b]
        BY <2>7 DEF MemOK
      <4> QED
        BY <4>1, <2>6, <2>9 DEF BlockOK
    <3>2. ASSUME NEW b \in DOMAIN N.blocks, NEW d \in DOMAIN N.blocks, b < d
          PROVE  b + N.blocks[b].size <= d
      BY <2>7, <3>2 DEF MemOK
    <3>3. /\ N.cap \in Caps \union {0} /\ N.offset \in 0 .. N.cap /\ N.offset % ALIGN = 0
          /\ DOMAIN N.bytes \subseteq Nat
      BY <2>6, <2>8 DEF MemOK
    <3> QED
      BY <2>6, <2>7, <2>8, <3>1, <3>2, <3>3 DEF MemOK
  <2>11. Kept(N, M, DOMAIN M.blocks \ {at})
    <3> SUFFICES ASSUME NEW b \in DOMAIN M.blocks \ {at}, NEW i \in 0 .. M.blocks[b].size - 1
                 PROVE  N.bytes[b + i] = M.bytes[b + i]
      BY <2>7 DEF Kept
    <3>1. b \in Nat /\ M.blocks[b].size \in Nat
      BY DEF MemOK, BlockOK
    <3>2. b + i \in b .. b + M.blocks[b].size - 1
      BY <3>1
    <3> QED
      BY <3>2, <2>7, <2>8, <2>9
  <2> QED
    BY <1>1, <2>6, <2>7, <2>10, <2>11 DEF Freed
<1> QED
  BY <1>3, <1>4

\* Bytes are written into the block at address b, from its byte k on.
LEMMA WrittenFacts ==
  ASSUME NEW M, MemOK(M), NEW b \in DOMAIN M.blocks, NEW k \in Nat, NEW n \in Nat,
         NEW c, Filling(c, n), k + n <= M.blocks[b].size,
         NEW N, N = Written(M, b + k, c)
  PROVE  Patched(N, M, b, k, c)
<1>1. PICK y : y = [i \in DOMAIN M.bytes |-> IF i - (b + k) \in DOMAIN c THEN c[i - (b + k)]
                                             ELSE M.bytes[i]]
  OBVIOUS
<1>2. M = [cap |-> M.cap, offset |-> M.offset, bytes |-> M.bytes, blocks |-> M.blocks]
  BY DEF MemOK
<1>3. N = [M EXCEPT !.bytes = y]
  BY <1>1 DEF Written
<1>4. N = [cap |-> M.cap, offset |-> M.offset, bytes |-> y, blocks |-> M.blocks]
  BY <1>2, <1>3
<1>5. /\ N.cap = M.cap /\ N.offset = M.offset /\ N.bytes = y /\ N.blocks = M.blocks
      /\ N = [cap |-> N.cap, offset |-> N.offset, bytes |-> N.bytes, blocks |-> N.blocks]
  BY <1>4
<1>6. DOMAIN y = DOMAIN M.bytes /\ y \in [DOMAIN y -> Content]
  <2>1. \A i \in DOMAIN c : c[i] \in Content
    BY DEF Filling
  <2>2. \A i \in DOMAIN M.bytes : M.bytes[i] \in Content
    BY DEF MemOK
  <2> QED
    BY <1>1, <2>1, <2>2
<1>7. MemOK(N)
  <2>1. ASSUME NEW d \in DOMAIN N.blocks PROVE BlockOK(N, d)
    <3>1. d \in DOMAIN M.blocks /\ BlockOK(M, d)
      BY <1>5 DEF MemOK
    <3> QED
      BY <3>1, <1>5, <1>6 DEF BlockOK
  <2>2. /\ N.cap \in Caps \union {0} /\ N.offset \in 0 .. N.cap /\ N.offset % ALIGN = 0
        /\ DOMAIN N.bytes \subseteq Nat /\ N.blocks = [d \in DOMAIN N.blocks |-> N.blocks[d]]
        /\ \A d, e \in DOMAIN N.blocks : d < e => d + N.blocks[d].size <= e
    BY <1>5, <1>6 DEF MemOK
  <2> QED
    BY <1>5, <1>6, <2>1, <2>2 DEF MemOK
<1>8. /\ b \in Nat /\ M.blocks[b].size \in Nat
      /\ b .. b + M.blocks[b].size - 1 \subseteq DOMAIN M.bytes
  BY DEF MemOK, BlockOK
<1>9. Kept(N, M, DOMAIN M.blocks \ {b})
  <2> SUFFICES ASSUME NEW d \in DOMAIN M.blocks \ {b}, NEW i \in 0 .. M.blocks[d].size - 1
               PROVE  N.bytes[d + i] = M.bytes[d + i]
    BY <1>5 DEF Kept
  <2>1. /\ d \in Nat /\ M.blocks[d].size \in Nat
        /\ d .. d + M.blocks[d].size - 1 \subseteq DOMAIN M.bytes
    BY DEF MemOK, BlockOK
  <2>2. d + M.blocks[d].size <= b \/ b + M.blocks[b].size <= d
    <3>1. d < b \/ b < d
      BY <1>8, <2>1
    <3> QED
      BY <3>1 DEF MemOK
  <2>3. PICK j \in Nat : j = d + i /\ j \in DOMAIN M.bytes
    BY <2>1
  <2>4. j - (b + k) \notin DOMAIN c
    <3>1. j - (b + k) \notin 0 .. n - 1
      BY <1>8, <2>1, <2>2, <2>3
    <3> QED
      BY <3>1 DEF Filling
  <2> QED
    BY <1>1, <1>5, <2>3, <2>4
<1>10. ASSUME NEW i \in 0 .. M.blocks[b].size - 1
       PROVE  N.bytes[b + i] = IF i - k \in DOMAIN c THEN c[i - k] ELSE M.bytes[b + i]
  <2>1. PICK j \in Nat : j = b + i /\ j \in DOMAIN M.bytes /\ j - (b + k) = i - k
    BY <1>8
  <2> QED
    BY <2>1, <1>1, <1>5
<1> QED
  BY <1>5, <1>7, <1>9, <1>10 DEF Patched

\* What a block holds, as the beginning of another one.
LEMMA BytesFacts ==
  ASSUME NEW M, MemOK(M), NEW b \in DOMAIN M.blocks, NEW n \in Nat, n <= M.blocks[b].size
  PROVE  /\ DOMAIN Bytes(M, b, n) = 0 .. n - 1
         /\ \A i \in 0 .. n - 1 : Bytes(M, b, n)[i] = M.bytes[b + i]
         /\ \A k \in Nat : n <= k => Filling(Bytes(M, b, n), k)
<1>1. /\ b \in Nat /\ M.blocks[b].size \in Nat
      /\ b .. b + M.blocks[b].size - 1 \subseteq DOMAIN M.bytes
      /\ \A i \in DOMAIN M.bytes : M.bytes[i] \in Content
  BY DEF MemOK, BlockOK
<1>2. \A i \in 0 .. n - 1 : b + i \in DOMAIN M.bytes
  BY <1>1
<1>3. DOMAIN Bytes(M, b, n) = 0 .. n - 1
      /\ \A i \in 0 .. n - 1 : Bytes(M, b, n)[i] = M.bytes[b + i]
  BY DEF Bytes
<1>4. ASSUME NEW k \in Nat, n <= k PROVE Filling(Bytes(M, b, n), k)
  <2>1. 0 .. n - 1 \subseteq 0 .. k - 1
    BY <1>4
  <2> QED
    BY <1>1, <1>2, <1>3, <2>1 DEF Filling
<1> QED
  BY <1>3, <1>4

\* A block from al comes, and then the one at address at goes.
LEMMA AllocThenFree ==
  ASSUME NEW M, MemOK(M), NEW at \in DOMAIN M.blocks \union {Null},
         NEW al, NEW n, NEW c, NEW b, NEW K, Replaced(K, M, Null, b, al, n, c),
         DOMAIN c \subseteq 0 .. n - 1
  PROVE  Replaced(nx_al_dealloc(K, at), M, at, b, al, n, c)
<1>1. Null \notin DOMAIN M.blocks
  BY DEF MemOK, BlockOK, Null
<1>2. /\ MemOK(K) /\ K.cap = M.cap /\ b \in Nat /\ b \notin DOMAIN M.blocks
      /\ DOMAIN K.blocks = DOMAIN M.blocks \union {b}
      /\ K.blocks[b] = [al |-> al, size |-> n] /\ Kept(K, M, DOMAIN M.blocks)
      /\ \A i \in DOMAIN c : K.bytes[b + i] = c[i]
  BY <1>1 DEF Replaced
<1>3. PICK N : N = nx_al_dealloc(K, at)
  OBVIOUS
<1>4. at \in DOMAIN K.blocks \union {Null} /\ b # at
  BY <1>2 DEF Null
<1>5. /\ MemOK(N) /\ N.cap = K.cap /\ DOMAIN N.blocks = DOMAIN K.blocks \ {at}
      /\ Kept(N, K, DOMAIN K.blocks \ {at})
  BY <1>2, <1>3, <1>4, DeallocFacts DEF Freed
<1>6. DOMAIN N.blocks = (DOMAIN M.blocks \ {at}) \union {b} /\ N.blocks[b] = [al |-> al, size |-> n]
  BY <1>2, <1>4, <1>5 DEF Kept
<1>7. Kept(N, M, DOMAIN M.blocks \ {at})
  BY <1>2, <1>5 DEF Kept
<1>8. \A i \in DOMAIN c : N.bytes[b + i] = c[i]
  BY <1>2, <1>4, <1>5 DEF Kept
<1> QED
  BY <1>2, <1>3, <1>5, <1>6, <1>7, <1>8 DEF Replaced

\* One is freed, and another takes its place.
LEMMA FreeThenAlloc ==
  ASSUME NEW M, MemOK(M), NEW at \in DOMAIN M.blocks,
         NEW al, NEW n, NEW c, NEW b, NEW K, Freed(K, M, at),
         NEW N, Replaced(N, K, Null, b, al, n, c)
  PROVE  Replaced(N, M, at, b, al, n, c)
<1>1. Null \notin DOMAIN K.blocks
  BY DEF Freed, MemOK, BlockOK, Null
<1>2. Kept(N, M, DOMAIN M.blocks \ {at})
  BY <1>1 DEF Freed, Replaced, Kept
<1> QED
  BY <1>1, <1>2 DEF Freed, Replaced

LEMMA ReallocFacts ==
  ASSUME NEW M, MemOK(M), NEW al \in AlNames, NEW at \in DOMAIN M.blocks,
         NEW old \in Nat, old = M.blocks[at].size, NEW n \in Nat \ {0},
         NEW o \in nx_al_realloc(M, al, at, old, n)
  PROVE  Replaced(o.m, M, at, o.data, al, n, Bytes(M, at, Copied(old, n)))
<1>1. PICK k \in Nat : k = Copied(old, n) /\ k <= old /\ k <= n
  BY DEF Copied
<1>2. PICK c : c = Bytes(M, at, k)
  OBVIOUS
<1>3. Filling(c, n) /\ DOMAIN c \subseteq 0 .. n - 1
  BY <1>1, <1>2, BytesFacts DEF Filling
<1>4. CASE al = "libc" /\ o \in malloc(nx_al_dealloc(M, at), n, c)
  <2>1. PICK K : K = nx_al_dealloc(M, at) /\ Freed(K, M, at)
    BY DeallocFacts
  <2>2. o \in nx_al_alloc(K, al, n, c) /\ MemOK(K)
    BY <2>1, <1>4 DEF nx_al_alloc, Freed
  <2>3. Replaced(o.m, K, Null, o.data, al, n, c)
    BY <2>2, <1>3, AllocFacts
  <2> QED
    BY <1>1, <1>2, <2>1, <2>3, FreeThenAlloc
<1>5. CASE \E q \in nx_al_alloc(M, al, n, c) : o = [q EXCEPT !.m = nx_al_dealloc(q.m, at)]
  <2>1. PICK q \in nx_al_alloc(M, al, n, c) : o = [q EXCEPT !.m = nx_al_dealloc(q.m, at)]
    BY <1>5
  <2>2. q = [m |-> q.m, data |-> q.data]
    BY <2>1 DEF nx_al_alloc, malloc, arena_alloc
  <2>3. o.m = nx_al_dealloc(q.m, at) /\ o.data = q.data
    BY <2>1, <2>2
  <2>4. Replaced(q.m, M, Null, q.data, al, n, c)
    BY <1>3, AllocFacts
  <2> QED
    BY <1>1, <1>2, <1>3, <2>3, <2>4, AllocThenFree
<1> QED
  BY <1>1, <1>2, <1>4, <1>5 DEF nx_al_realloc

LEMMA ZerosFacts ==
  ASSUME NEW n \in Nat
  PROVE  /\ DOMAIN Zeros(n) = 0 .. n - 1 /\ \A i \in 0 .. n - 1 : Zeros(n)[i] = Zero
         /\ Filling(Zeros(n), n)
BY DEF Zeros, Filling, Content

\* A product that does not wrap where nobody checks is what is allocated, in zeros.
LEMMA CallocFacts ==
  ASSUME NEW M, MemOK(M), NEW al \in AlNames, NEW num \in Nat, NEW size \in Nat,
         NEW n \in Nat, n = num * size, al = "plain" => n < USIZE,
         NEW o \in nx_al_calloc(M, al, num, size)
  PROVE  Replaced(o.m, M, Null, o.data, al, n, Zeros(n)) /\ n # 0
<1>1. calloc_size(al, num, size) = n
  <2>1. CASE al = "plain"
    <3>1. n % USIZE = n
      BY <2>1, ArenaAssumption
    <3> QED
      BY <2>1, <3>1 DEF calloc_size
  <2>2. CASE al # "plain"
    BY <2>2 DEF calloc_size
  <2> QED
    BY <2>1, <2>2
<1>2. o \in nx_al_alloc(M, al, n, Zeros(n))
  BY <1>1 DEF nx_al_calloc
<1>3. Filling(Zeros(n), n)
  BY ZerosFacts
<1> QED
  BY <1>2, <1>3, AllocFacts

LEMMA PatchedReplaced ==
  ASSUME NEW M, NEW N, NEW b \in DOMAIN M.blocks, b \in Nat, NEW k, NEW c, Patched(N, M, b, k, c),
         NEW al, NEW n, M.blocks[b] = [al |-> al, size |-> n]
  PROVE  Replaced(N, M, b, b, al, n, Bytes(N, b, n))
BY DEF Patched, Replaced, Bytes

\* All of a block is written.
LEMMA OverwrittenFacts ==
  ASSUME NEW M, MemOK(M), NEW b \in DOMAIN M.blocks, NEW al, NEW n \in Nat,
         M.blocks[b] = [al |-> al, size |-> n],
         NEW c, Filling(c, n), DOMAIN c = 0 .. n - 1, NEW N, N = Written(M, b, c)
  PROVE  Replaced(N, M, b, b, al, n, c)
<1>1. b \in Nat /\ M.blocks[b].size = n
  BY DEF MemOK, BlockOK
<1>2. PICK z \in Nat : z = 0
  OBVIOUS
<1>3. N = Written(M, b + z, c) /\ z + n <= M.blocks[b].size
  BY <1>1, <1>2
<1>4. Patched(N, M, b, z, c)
  BY <1>3, WrittenFacts
<1>5. \A i \in DOMAIN c : N.bytes[b + i] = c[i]
  <2> SUFFICES ASSUME NEW i \in 0 .. n - 1 PROVE N.bytes[b + i] = c[i]
    OBVIOUS
  <2>1. i - z = i
    BY <1>2
  <2> QED
    BY <2>1, <1>1, <1>4 DEF Patched
<1>6. Replaced(N, M, b, b, al, n, Bytes(N, b, n))
  BY <1>1, <1>4, PatchedReplaced
<1> QED
  BY <1>5, <1>6 DEF Replaced

\* What is written into all of a block that just came is what it begins with.
LEMMA ThenWritten ==
  ASSUME NEW M, MemOK(M), NEW al, NEW n \in Nat, NEW c, NEW b,
         NEW K, Replaced(K, M, Null, b, al, n, c),
         NEW d, Filling(d, n), DOMAIN d = 0 .. n - 1
  PROVE  Replaced(Written(K, b, d), M, Null, b, al, n, d)
<1>1. Null \notin DOMAIN M.blocks
  BY DEF MemOK, BlockOK, Null
<1>2. /\ MemOK(K) /\ K.cap = M.cap /\ b \in Nat /\ b \notin DOMAIN M.blocks
      /\ DOMAIN K.blocks = DOMAIN M.blocks \union {b}
      /\ K.blocks[b] = [al |-> al, size |-> n] /\ Kept(K, M, DOMAIN M.blocks)
  BY <1>1 DEF Replaced
<1>3. PICK N : N = Written(K, b, d)
  OBVIOUS
<1>4. Replaced(N, K, b, b, al, n, d)
  <2>1. b \in DOMAIN K.blocks /\ DOMAIN d = 0 .. n - 1
    BY <1>2
  <2> QED
    BY <2>1, <1>2, <1>3, OverwrittenFacts
<1>5. Kept(N, M, DOMAIN M.blocks)
  BY <1>2, <1>4 DEF Kept, Replaced
<1> QED
  BY <1>1, <1>2, <1>3, <1>4, <1>5 DEF Replaced

-----------------------------------------------------------------------------
(* What holds of the memory M, the arrays A, the client's block R and the   *)
(* log L between calls.                                                     *)

AllocatorsOf(M, L) ==
  {"libc"} \union (IF M.cap = 0 THEN {} ELSE {"arena", "plain"})
           \union (IF L THEN {"log"} ELSE {})

Structs(M, L) == [data : Nat \union {Null}, len : Nat, al : AllocatorsOf(M, L)]

\* The struct v fits what is at its address.
Holds(M, v) ==
  /\ v.len = 0 <=> v.data = Null
  /\ v.data # Null => /\ v.data \in DOMAIN M.blocks
                      /\ M.blocks[v.data] = [al |-> v.al, size |-> v.len * TSZ]

ArraysOK(M, A, L) ==
  /\ DOMAIN A \subseteq Arr /\ A \in [DOMAIN A -> Structs(M, L)]
  /\ \A h \in DOMAIN A : Holds(M, A[h])
  /\ \A g, h \in DOMAIN A : A[h].data # Null /\ A[g].data = A[h].data => g = h

RawOK(M, R, L) ==
  /\ R = [al |-> R.al, at |-> R.at, want |-> R.want]
  /\ R.al \in AllocatorsOf(M, L) /\ R.at \in Nat \union {Null}
  /\ R.at # Null =>
       /\ R.at \in DOMAIN M.blocks /\ M.blocks[R.at].al = R.al
       /\ DOMAIN R.want = 0 .. M.blocks[R.at].size - 1
       /\ \A i \in DOMAIN R.want :
            R.want[i] \in Content /\ (R.want[i] # Uninit => M.bytes[R.at + i] = R.want[i])

\* No block has two owners, and none from libc has no owner.
OwnersOK(M, A, R) ==
  /\ \A h \in DOMAIN A : A[h].data # Null => A[h].data # R.at
  /\ \A b \in DOMAIN M.blocks :
       M.blocks[b].al = "libc" => b = R.at \/ \E h \in DOMAIN A : A[h].data = b

Good(M, A, R, L) ==
  /\ MemOK(M) /\ ArraysOK(M, A, L) /\ RawOK(M, R, L) /\ OwnersOK(M, A, R)
  /\ L \in BOOLEAN /\ (L => M.cap # 0)

IndInv == Good(m, arr, raw, logged) /\ ret \in {"ok", "oom"}

-----------------------------------------------------------------------------
(* One array gets other elements, or the client another block.             *)

\* The struct v owns what came in the place of the block at address at.
Supplied(N, M, at, v) ==
  \/ v.data = Null /\ v.len = 0 /\ Freed(N, M, at)
  \/ v.data # Null /\ v.len # 0 /\ \E c : Replaced(N, M, at, v.data, v.al, v.len * TSZ, c)

\* What both cases have in common: other blocks are as they were, and b, if it is
\* not null, is one that none of them is.
Apart(N, M, at, b) ==
  /\ MemOK(N) /\ N.cap = M.cap
  /\ DOMAIN N.blocks = (DOMAIN M.blocks \ {at}) \union ({b} \ {Null})
  /\ b \notin DOMAIN M.blocks \ {at}
  /\ Kept(N, M, DOMAIN M.blocks \ {at})

LEMMA FreedApart ==
  ASSUME NEW M, NEW N, NEW at, Freed(N, M, at), MemOK(M)
  PROVE  Apart(N, M, at, Null)
BY DEF Freed, Apart, MemOK, BlockOK, Null

LEMMA ReplacedApart ==
  ASSUME NEW M, NEW N, NEW at, NEW b, NEW al, NEW n, NEW c, Replaced(N, M, at, b, al, n, c)
  PROVE  Apart(N, M, at, b) /\ b # Null
<1>1. b # Null
  BY DEF Replaced, Null
<1> QED
  BY <1>1 DEF Replaced, Apart

LEMMA StaysHeld ==
  ASSUME NEW M, NEW N, NEW at, NEW b, Apart(N, M, at, b), NEW v, Holds(M, v),
         v.data = Null \/ v.data # at
  PROVE  Holds(N, v) /\ (v.data # Null => v.data # b)
BY DEF Apart, Kept, Holds

LEMMA StaysRaw ==
  ASSUME NEW M, MemOK(M), NEW N, NEW at, NEW b, Apart(N, M, at, b), NEW R, NEW L, RawOK(M, R, L),
         R.at = Null \/ R.at # at
  PROVE  RawOK(N, R, L) /\ (R.at # Null => R.at # b)
<1>1. AllocatorsOf(N, L) = AllocatorsOf(M, L)
  BY DEF Apart, AllocatorsOf
<1>2. CASE R.at = Null
  BY <1>1, <1>2 DEF RawOK
<1>3. CASE R.at # Null
  <2>1. R.at \in DOMAIN M.blocks \ {at}
    BY <1>3 DEF RawOK
  <2>2. /\ R.at \in DOMAIN N.blocks /\ N.blocks[R.at] = M.blocks[R.at]
        /\ \A i \in 0 .. M.blocks[R.at].size - 1 : N.bytes[R.at + i] = M.bytes[R.at + i]
    BY <2>1 DEF Apart, Kept
  <2>3. \A i \in DOMAIN R.want : N.bytes[R.at + i] = M.bytes[R.at + i]
    BY <1>3, <2>2 DEF RawOK
  <2>4. R.at # b
    BY <2>1 DEF Apart
  <2> QED
    BY <1>1, <1>3, <2>2, <2>3, <2>4 DEF RawOK
<1> QED
  BY <1>2, <1>3

LEMMA GoodArray ==
  ASSUME NEW M, NEW A, NEW R, NEW L, Good(M, A, R, L),
         NEW h \in Arr, NEW at, at = IF h \in DOMAIN A THEN A[h].data ELSE Null,
         NEW N, NEW v \in Structs(M, L), Supplied(N, M, at, v)
  PROVE  Good(N, Has(A, h, v), R, L)
<1>1. PICK B : B = Has(A, h, v)
  OBVIOUS
<1>2. /\ B = Has(A, h, v) /\ DOMAIN B = DOMAIN A \union {h} /\ B[h] = v
      /\ \A g \in DOMAIN A \ {h} : B[g] = A[g]
  BY <1>1 DEF Has
<1>3. MemOK(M) /\ ArraysOK(M, A, L) /\ RawOK(M, R, L) /\ OwnersOK(M, A, R)
  BY DEF Good
<1>4. Apart(N, M, at, v.data) /\ Holds(N, v)
  <2>1. CASE v.data = Null /\ v.len = 0 /\ Freed(N, M, at)
    BY <2>1, <1>3, FreedApart DEF Holds
  <2>2. CASE v.data # Null /\ v.len # 0 /\ \E c : Replaced(N, M, at, v.data, v.al, v.len * TSZ, c)
    <3>1. PICK n : n = v.len * TSZ
      OBVIOUS
    <3>2. PICK c : Replaced(N, M, at, v.data, v.al, n, c)
      BY <2>2, <3>1
    <3>3. Apart(N, M, at, v.data)
      BY <3>2, ReplacedApart
    <3>4. v.data \in DOMAIN N.blocks /\ N.blocks[v.data] = [al |-> v.al, size |-> n]
      BY <3>2 DEF Replaced
    <3> QED
      BY <2>2, <3>1, <3>3, <3>4 DEF Holds
  <2> QED
    BY <2>1, <2>2 DEF Supplied
<1>5. AllocatorsOf(N, L) = AllocatorsOf(M, L) /\ Structs(N, L) = Structs(M, L)
  BY <1>4 DEF Apart, AllocatorsOf, Structs
<1>6. ASSUME NEW g \in DOMAIN A \ {h}, A[g].data # Null
      PROVE  A[g].data # at
  BY <1>3, <1>6 DEF ArraysOK
<1>7. \A g \in DOMAIN A \ {h} : Holds(N, A[g]) /\ (A[g].data # Null => A[g].data # v.data)
  <2> SUFFICES ASSUME NEW g \in DOMAIN A \ {h}
               PROVE  Holds(N, A[g]) /\ (A[g].data # Null => A[g].data # v.data)
    OBVIOUS
  <2>1. PICK u : u = A[g] /\ Holds(M, u) /\ (u.data = Null \/ u.data # at)
    BY <1>3, <1>6 DEF ArraysOK
  <2> QED
    BY <2>1, <1>4, StaysHeld
<1>8. R.at = Null \/ R.at # at
  <2>1. h \in DOMAIN A => A[h].data = Null \/ A[h].data # R.at
    BY <1>3 DEF OwnersOK
  <2> QED
    BY <2>1
<1>9. RawOK(N, R, L) /\ (R.at # Null => R.at # v.data)
  BY <1>3, <1>4, <1>8, StaysRaw
<1>10. ArraysOK(N, B, L)
  <2>1. DOMAIN B \subseteq Arr /\ B \in [DOMAIN B -> Structs(N, L)]
    <3>1. B = [g \in DOMAIN B |-> B[g]]
      BY <1>2 DEF Has
    <3>2. \A g \in DOMAIN B : B[g] \in Structs(N, L)
      BY <1>2, <1>3, <1>5 DEF ArraysOK
    <3> QED
      BY <3>1, <3>2, <1>2, <1>3 DEF ArraysOK
  <2>2. \A g \in DOMAIN B : Holds(N, B[g])
    BY <1>2, <1>4, <1>7
  <2>3. ASSUME NEW g \in DOMAIN B, NEW f \in DOMAIN B, B[f].data # Null, B[g].data = B[f].data
        PROVE  g = f
    BY <1>2, <1>3, <1>7, <2>3 DEF ArraysOK
  <2> QED
    BY <2>1, <2>2, <2>3 DEF ArraysOK
<1>11. OwnersOK(N, B, R)
  <2>1. \A g \in DOMAIN B : B[g].data # Null => B[g].data # R.at
    BY <1>2, <1>3, <1>9 DEF OwnersOK
  <2>2. ASSUME NEW b \in DOMAIN N.blocks, N.blocks[b].al = "libc"
        PROVE  b = R.at \/ \E g \in DOMAIN B : B[g].data = b
    <3>1. CASE b = v.data
      BY <3>1, <1>2
    <3>2. CASE b # v.data
      <4>1. b \in DOMAIN M.blocks \ {at} /\ M.blocks[b].al = "libc"
        BY <1>4, <3>2, <2>2 DEF Apart, Kept
      <4>2. b = R.at \/ \E g \in DOMAIN A : A[g].data = b
        BY <4>1, <1>3 DEF OwnersOK
      <4> QED
        BY <4>1, <4>2, <1>2
    <3> QED
      BY <3>1, <3>2
  <2> QED
    BY <2>1, <2>2 DEF OwnersOK
<1>12. MemOK(N) /\ L \in BOOLEAN /\ (L => N.cap # 0)
  BY <1>4 DEF Apart, Good
<1> QED
  BY <1>2, <1>9, <1>10, <1>11, <1>12 DEF Good

LEMMA GoodRaw ==
  ASSUME NEW M, NEW A, NEW R, NEW L, Good(M, A, R, L), NEW N, NEW b, Apart(N, M, R.at, b),
         NEW S, RawOK(N, S, L), S.at = b
  PROVE  Good(N, A, S, L)
<1>1. MemOK(M) /\ ArraysOK(M, A, L) /\ RawOK(M, R, L) /\ OwnersOK(M, A, R)
  BY DEF Good
<1>2. AllocatorsOf(N, L) = AllocatorsOf(M, L) /\ Structs(N, L) = Structs(M, L)
  BY DEF Apart, AllocatorsOf, Structs
<1>3. \A h \in DOMAIN A : Holds(N, A[h]) /\ (A[h].data # Null => A[h].data # b)
  <2> SUFFICES ASSUME NEW h \in DOMAIN A
               PROVE  Holds(N, A[h]) /\ (A[h].data # Null => A[h].data # b)
    OBVIOUS
  <2>1. PICK u : u = A[h] /\ Holds(M, u) /\ (u.data = Null \/ u.data # R.at)
    BY <1>1 DEF ArraysOK, OwnersOK
  <2> QED
    BY <2>1, StaysHeld
<1>4. ArraysOK(N, A, L)
  BY <1>1, <1>2, <1>3 DEF ArraysOK
<1>5. OwnersOK(N, A, S)
  <2>1. ASSUME NEW d \in DOMAIN N.blocks, N.blocks[d].al = "libc"
        PROVE  d = S.at \/ \E g \in DOMAIN A : A[g].data = d
    <3>1. CASE d # b
      <4>1. d \in DOMAIN M.blocks \ {R.at} /\ M.blocks[d].al = "libc"
        BY <3>1, <2>1 DEF Apart, Kept
      <4> QED
        BY <4>1, <1>1 DEF OwnersOK
    <3> QED
      BY <3>1
  <2> QED
    BY <1>3, <2>1 DEF OwnersOK
<1>6. MemOK(N) /\ L \in BOOLEAN /\ (L => N.cap # 0)
  BY DEF Apart, Good
<1> QED
  BY <1>4, <1>5, <1>6 DEF Good

-----------------------------------------------------------------------------
(* Arrays change hands.                                                    *)

\* The variable h loses a struct that owns nothing.
LEMMA GoodLacks ==
  ASSUME NEW M, NEW A, NEW R, NEW L, Good(M, A, R, L), NEW h \in DOMAIN A, A[h].data = Null
  PROVE  Good(M, Lacks(A, h), R, L)
<1>1. PICK B : B = Lacks(A, h)
  OBVIOUS
<1>2. /\ DOMAIN B = DOMAIN A \ {h} /\ \A g \in DOMAIN B : B[g] = A[g]
      /\ B = [g \in DOMAIN B |-> B[g]]
  BY <1>1 DEF Lacks
<1>3. MemOK(M) /\ ArraysOK(M, A, L) /\ RawOK(M, R, L) /\ OwnersOK(M, A, R)
  BY DEF Good
<1>4. ArraysOK(M, B, L)
  BY <1>2, <1>3 DEF ArraysOK
<1>5. OwnersOK(M, B, R)
  <2>1. ASSUME NEW b \in DOMAIN M.blocks, M.blocks[b].al = "libc"
        PROVE  b = R.at \/ \E g \in DOMAIN B : B[g].data = b
    <3>1. b # Null
      BY <1>3 DEF MemOK, BlockOK, Null
    <3>2. b = R.at \/ \E g \in DOMAIN A : A[g].data = b
      BY <1>3, <2>1 DEF OwnersOK
    <3> QED
      BY <3>1, <3>2, <1>2
  <2> QED
    BY <1>2, <1>3, <2>1 DEF OwnersOK
<1> QED
  BY <1>1, <1>3, <1>4, <1>5 DEF Good

\* The array of g and h swap their elements, of one allocator.
Swapped(A, g, h) ==
  [f \in DOMAIN A |-> IF f = g THEN [data |-> A[h].data, len |-> A[h].len, al |-> A[g].al]
                      ELSE IF f = h THEN [data |-> A[g].data, len |-> A[g].len, al |-> A[h].al]
                      ELSE A[f]]

LEMMA GoodSwapped ==
  ASSUME NEW M, NEW A, NEW R, NEW L, Good(M, A, R, L),
         NEW g \in DOMAIN A, NEW h \in DOMAIN A, A[g].al = A[h].al
  PROVE  Good(M, Swapped(A, g, h), R, L)
<1>1. MemOK(M) /\ ArraysOK(M, A, L) /\ RawOK(M, R, L) /\ OwnersOK(M, A, R)
  BY DEF Good
<1>2. PICK B : B = Swapped(A, g, h)
  OBVIOUS
<1>3. A[g] \in Structs(M, L) /\ A[h] \in Structs(M, L)
  BY <1>1 DEF ArraysOK
<1>4. A[g] = [data |-> A[g].data, len |-> A[g].len, al |-> A[h].al]
      /\ A[h] = [data |-> A[h].data, len |-> A[h].len, al |-> A[g].al]
  BY <1>3 DEF Structs
<1>5. /\ DOMAIN B = DOMAIN A /\ B[g] = A[h] /\ B[h] = A[g]
      /\ \A f \in DOMAIN A \ {g, h} : B[f] = A[f]
      /\ B = [f \in DOMAIN B |-> B[f]]
  BY <1>2, <1>4 DEF Swapped
<1>6. ArraysOK(M, B, L)
  <2>1. B \in [DOMAIN B -> Structs(M, L)] /\ DOMAIN B \subseteq Arr
    BY <1>1, <1>3, <1>5 DEF ArraysOK
  <2>2. \A f \in DOMAIN B : Holds(M, B[f])
    BY <1>1, <1>5 DEF ArraysOK
  <2>3. ASSUME NEW e \in DOMAIN B, NEW f \in DOMAIN B, B[f].data # Null, B[e].data = B[f].data
        PROVE  e = f
    BY <1>1, <1>5, <2>3 DEF ArraysOK
  <2> QED
    BY <2>1, <2>2, <2>3 DEF ArraysOK
<1>7. OwnersOK(M, B, R)
  <2>1. \A f \in DOMAIN B : \E e \in DOMAIN A : B[f] = A[e]
    BY <1>5
  <2>2. \A e \in DOMAIN A : \E f \in DOMAIN B : B[f] = A[e]
    BY <1>5
  <2> QED
    BY <1>1, <2>1, <2>2 DEF OwnersOK
<1> QED
  BY <1>1, <1>2, <1>6, <1>7 DEF Good

-----------------------------------------------------------------------------
(* The arena and the log come and go.                                      *)

\* Of the blocks of M, those of N are left; who used the others no longer does.
LEMMA GoodRest ==
  ASSUME NEW M, NEW A, NEW R, NEW L, Good(M, A, R, L), NEW N, MemOK(N),
         DOMAIN N.blocks \subseteq DOMAIN M.blocks, Kept(N, M, DOMAIN N.blocks),
         NEW K \in BOOLEAN, K => N.cap # 0,
         \A h \in DOMAIN A : /\ A[h].al \in AllocatorsOf(N, K)
                             /\ A[h].data # Null => A[h].data \in DOMAIN N.blocks,
         NEW S, \/ S = R /\ (R.at # Null => R.at \in DOMAIN N.blocks)
                \/ S = NoRaw /\ R.at \notin DOMAIN N.blocks,
         S.al \in AllocatorsOf(N, K)
  PROVE  Good(N, A, S, K)
<1>1. MemOK(M) /\ ArraysOK(M, A, L) /\ RawOK(M, R, L) /\ OwnersOK(M, A, R)
  BY DEF Good
<1>2. ArraysOK(N, A, K)
  <2>1. ASSUME NEW h \in DOMAIN A PROVE A[h] \in Structs(N, K) /\ Holds(N, A[h])
    <3>1. A[h] \in Structs(M, L) /\ Holds(M, A[h])
      BY <1>1 DEF ArraysOK
    <3>2. A[h] \in Structs(N, K)
      BY <3>1 DEF Structs
    <3>3. A[h].data # Null => /\ A[h].data \in DOMAIN N.blocks
                              /\ N.blocks[A[h].data] = M.blocks[A[h].data]
      BY DEF Kept
    <3> QED
      BY <3>1, <3>2, <3>3 DEF Holds
  <2> QED
    BY <1>1, <2>1 DEF ArraysOK
<1>3. RawOK(N, S, K)
  <2>1. CASE S = NoRaw
    BY <2>1 DEF RawOK, NoRaw
  <2>2. CASE S = R /\ R.at = Null
    BY <1>1, <2>2 DEF RawOK
  <2>3. CASE S = R /\ R.at # Null /\ R.at \in DOMAIN N.blocks
    <3>1. /\ N.blocks[R.at] = M.blocks[R.at]
          /\ \A i \in 0 .. M.blocks[R.at].size - 1 : N.bytes[R.at + i] = M.bytes[R.at + i]
      BY <2>3 DEF Kept
    <3>2. \A i \in DOMAIN R.want : N.bytes[R.at + i] = M.bytes[R.at + i]
      BY <1>1, <2>3, <3>1 DEF RawOK
    <3> QED
      BY <1>1, <2>3, <3>1, <3>2 DEF RawOK
  <2> QED
    BY <2>1, <2>2, <2>3
<1>4. OwnersOK(N, A, S)
  <2>1. \A h \in DOMAIN A : A[h].data # Null => A[h].data # S.at
    BY <1>1 DEF OwnersOK, NoRaw
  <2>2. ASSUME NEW b \in DOMAIN N.blocks, N.blocks[b].al = "libc"
        PROVE  b = S.at \/ \E h \in DOMAIN A : A[h].data = b
    <3>1. b \in DOMAIN M.blocks /\ M.blocks[b].al = "libc"
      BY <2>2 DEF Kept
    <3>2. b = R.at \/ \E h \in DOMAIN A : A[h].data = b
      BY <1>1, <3>1 DEF OwnersOK
    <3> QED
      BY <3>2
  <2> QED
    BY <2>1, <2>2 DEF OwnersOK
<1> QED
  BY <1>2, <1>3, <1>4 DEF Good

WithArena(M, cap) ==
  [M EXCEPT !.cap = cap, !.offset = 0,
     !.bytes = [i \in DOMAIN @ \union 0 .. cap - 1 |-> IF i \in DOMAIN @ THEN @[i] ELSE Uninit]]

LEMMA NewArena ==
  ASSUME NEW M, MemOK(M), M.cap = 0, NEW cap \in Caps, NEW N, N = WithArena(M, cap)
  PROVE  /\ MemOK(N) /\ N.cap = cap /\ cap # 0 /\ N.blocks = M.blocks
         /\ Kept(N, M, DOMAIN N.blocks)
<1>1. PICK y : y = [i \in DOMAIN M.bytes \union 0 .. cap - 1 |->
                      IF i \in DOMAIN M.bytes THEN M.bytes[i] ELSE Uninit]
  OBVIOUS
<1>2. M = [cap |-> M.cap, offset |-> M.offset, bytes |-> M.bytes, blocks |-> M.blocks]
  BY DEF MemOK
<1>3. N = [M EXCEPT !.cap = cap, !.offset = 0, !.bytes = y]
  BY <1>1 DEF WithArena
<1>4. N = [cap |-> cap, offset |-> 0, bytes |-> y, blocks |-> M.blocks]
  BY <1>2, <1>3
<1>5. /\ N.cap = cap /\ N.offset = 0 /\ N.bytes = y /\ N.blocks = M.blocks
      /\ N = [cap |-> N.cap, offset |-> N.offset, bytes |-> N.bytes, blocks |-> N.blocks]
  BY <1>4
<1>6. cap \in Nat \ {0} /\ 0 % ALIGN = 0
  BY ArenaAssumption
<1>7. /\ DOMAIN y = DOMAIN M.bytes \union 0 .. cap - 1 /\ DOMAIN y \subseteq Nat
      /\ y \in [DOMAIN y -> Content] /\ \A i \in DOMAIN M.bytes : y[i] = M.bytes[i]
  <2>1. \A i \in DOMAIN M.bytes : i \in Nat /\ M.bytes[i] \in Content
    BY DEF MemOK
  <2>2. Uninit \in Content /\ 0 .. cap - 1 \subseteq Nat
    BY DEF Content
  <2> QED
    BY <1>1, <2>1, <2>2
<1>8. M.offset = 0
  BY CapFacts
<1>9. ASSUME NEW b \in DOMAIN M.blocks
      PROVE  BlockOK(N, b) /\ b \in Nat /\ b .. b + M.blocks[b].size - 1 \subseteq DOMAIN M.bytes
             /\ M.blocks[b].size \in Nat
  <2>1. BlockOK(M, b)
    BY DEF MemOK
  <2>2. DOMAIN M.bytes \subseteq DOMAIN N.bytes
    BY <1>5, <1>7
  <2> QED
    BY <2>1, <2>2, <1>5, <1>8 DEF BlockOK
<1>10. MemOK(N)
  <2>1. N.cap \in Caps \union {0} /\ N.offset \in 0 .. N.cap /\ N.offset % ALIGN = 0
    BY <1>5, <1>6
  <2>2. /\ N.blocks = [b \in DOMAIN N.blocks |-> N.blocks[b]]
        /\ \A b, c \in DOMAIN N.blocks : b < c => b + N.blocks[b].size <= c
    BY <1>5 DEF MemOK
  <2> QED
    BY <1>5, <1>7, <1>9, <2>1, <2>2 DEF MemOK
<1>11. Kept(N, M, DOMAIN N.blocks)
  <2> SUFFICES ASSUME NEW b \in DOMAIN M.blocks, NEW i \in 0 .. M.blocks[b].size - 1
               PROVE  N.bytes[b + i] = M.bytes[b + i]
    BY <1>5 DEF Kept
  <2>1. b + i \in DOMAIN M.bytes
    <3>1. b + i \in b .. b + M.blocks[b].size - 1
      BY <1>9
    <3> QED
      BY <3>1, <1>9
  <2> QED
    BY <2>1, <1>5, <1>7
<1> QED
  BY <1>5, <1>6, <1>10, <1>11

\* Only what came from libc outlives the arena's buffer, or its reset.
OnlyLibc(M, cap, y) == [M EXCEPT !.cap = cap, !.offset = 0, !.bytes = y, !.blocks = FromLibc(@)]

LEMMA LibcRemains ==
  ASSUME NEW M, MemOK(M), NEW N, NEW cap \in {0, M.cap},
         NEW y \in {M.bytes, FromLibc(M.bytes)},
         N = OnlyLibc(M, cap, y)
  PROVE  /\ MemOK(N) /\ N.cap = cap
         /\ DOMAIN N.blocks = { b \in DOMAIN M.blocks : M.blocks[b].al = "libc" }
         /\ Kept(N, M, DOMAIN N.blocks)
<1>1. M = [cap |-> M.cap, offset |-> M.offset, bytes |-> M.bytes, blocks |-> M.blocks]
  BY DEF MemOK
<1>2. PICK z : z = FromLibc(M.blocks)
  OBVIOUS
<1>3. N = [cap |-> cap, offset |-> 0, bytes |-> y, blocks |-> z]
  BY <1>1, <1>2 DEF OnlyLibc
<1>4. /\ N.cap = cap /\ N.offset = 0 /\ N.bytes = y /\ N.blocks = z
      /\ N = [cap |-> N.cap, offset |-> N.offset, bytes |-> N.bytes, blocks |-> N.blocks]
  BY <1>3
<1>5. /\ DOMAIN z = { b \in DOMAIN M.blocks : ~InArena(b) }
      /\ z = [b \in DOMAIN z |-> z[b]] /\ \A b \in DOMAIN z : z[b] = M.blocks[b]
  BY <1>2 DEF FromLibc
<1>6. DOMAIN z = { b \in DOMAIN M.blocks : M.blocks[b].al = "libc" }
  BY <1>5, ArenaBlocks
<1>7. /\ DOMAIN y \subseteq Nat /\ y \in [DOMAIN y -> Content]
      /\ \A i \in DOMAIN y : y[i] = M.bytes[i]
      /\ \A i \in DOMAIN M.bytes : ~InArena(i) => i \in DOMAIN y
  BY DEF FromLibc, MemOK
<1>8. ASSUME NEW b \in DOMAIN z
      PROVE  /\ b \in DOMAIN M.blocks /\ BlockOK(M, b) /\ b \in Nat /\ M.blocks[b].size \in Nat
             /\ b .. b + M.blocks[b].size - 1 \subseteq DOMAIN y
  <2>1. /\ b \in DOMAIN M.blocks /\ BlockOK(M, b) /\ b \in Nat /\ M.blocks[b].size \in Nat
        /\ b \in Slots /\ b .. b + M.blocks[b].size - 1 \subseteq DOMAIN M.bytes
    BY <1>6 DEF MemOK, BlockOK
  <2>2. \A i \in b .. b + M.blocks[b].size - 1 : ~InArena(i)
    BY <2>1 DEF InArena
  <2> QED
    BY <2>1, <2>2, <1>7
<1>9. MemOK(N)
  <2>1. ASSUME NEW b \in DOMAIN N.blocks PROVE BlockOK(N, b)
    BY <1>4, <1>5, <1>6, <1>8 DEF BlockOK
  <2>2. ASSUME NEW b \in DOMAIN N.blocks, NEW c \in DOMAIN N.blocks, b < c
        PROVE  b + N.blocks[b].size <= c
    BY <1>4, <1>5, <2>2 DEF MemOK
  <2>3. N.cap \in Caps \union {0} /\ N.offset \in 0 .. N.cap /\ N.offset % ALIGN = 0
    <3>1. 0 % ALIGN = 0
      BY ArenaAssumption
    <3>2. N.cap \in Nat /\ N.cap \in Caps \union {0}
      BY <1>4, CapFacts DEF MemOK
    <3> QED
      BY <3>1, <3>2, <1>4
  <2> QED
    BY <1>4, <1>5, <1>7, <2>1, <2>2, <2>3 DEF MemOK
<1>10. Kept(N, M, DOMAIN N.blocks)
  <2> SUFFICES ASSUME NEW b \in DOMAIN z, NEW i \in 0 .. M.blocks[b].size - 1
               PROVE  N.bytes[b + i] = M.bytes[b + i]
    BY <1>4, <1>5 DEF Kept
  <2>1. b + i \in b .. b + M.blocks[b].size - 1
    BY <1>8
  <2> QED
    BY <2>1, <1>4, <1>7, <1>8
<1> QED
  BY <1>4, <1>6, <1>9, <1>10

-----------------------------------------------------------------------------
(* The elements of the arrays.                                             *)

ElemsOf(len, c) == [i \in 1 .. len |-> elem(c, i - 1)]
SeqOf(M, v)     == ElemsOf(v.len, Bytes(M, v.data, v.len * TSZ))
Seqs(M, A)      == [h \in DOMAIN A |-> SeqOf(M, A[h])]

LEMMA SameBytes ==
  ASSUME NEW M, NEW N, NEW b, NEW n, \A i \in 0 .. n - 1 : N.bytes[b + i] = M.bytes[b + i]
  PROVE  Bytes(N, b, n) = Bytes(M, b, n)
BY DEF Bytes

LEMMA TheseBytes ==
  ASSUME NEW N, NEW b, NEW n, NEW c, c = [i \in 0 .. n - 1 |-> c[i]],
         \A i \in DOMAIN c : N.bytes[b + i] = c[i]
  PROVE  Bytes(N, b, n) = c
BY DEF Bytes

LEMMA NoElems ==
  ASSUME NEW M, NEW v, v.len = 0
  PROVE  SeqOf(M, v) = <<>>
<1>1. 1 .. 0 = {}
  OBVIOUS
<1>2. SeqOf(M, v) = [i \in {} |-> elem(Bytes(M, v.data, v.len * TSZ), i - 1)]
  BY <1>1 DEF SeqOf, ElemsOf
<1> QED
  BY <1>2

\* An array whose block is left alone keeps its elements.
LEMMA SameElems ==
  ASSUME NEW M, NEW N, NEW v, Holds(M, v), NEW S, Kept(N, M, S), v.data = Null \/ v.data \in S
  PROVE  SeqOf(N, v) = SeqOf(M, v)
<1>1. CASE v.data = Null
  <2>1. v.len = 0
    BY <1>1 DEF Holds
  <2> QED
    BY <2>1, NoElems
<1>2. CASE v.data # Null
  <2>1. PICK n : n = v.len * TSZ
    OBVIOUS
  <2>2. M.blocks[v.data].size = n /\ v.data \in S
    BY <1>2, <2>1 DEF Holds
  <2>3. \A i \in 0 .. n - 1 : N.bytes[v.data + i] = M.bytes[v.data + i]
    BY <2>2 DEF Kept
  <2>4. Bytes(N, v.data, n) = Bytes(M, v.data, n)
    BY <2>3, SameBytes
  <2> QED
    BY <2>1, <2>4 DEF SeqOf
<1> QED
  BY <1>1, <1>2

\* Which arrays there are, and all of their elements, are the same.
LEMMA SameSeqs ==
  ASSUME NEW M, NEW A, NEW L, ArraysOK(M, A, L), NEW N, NEW S, Kept(N, M, S),
         \A h \in DOMAIN A : A[h].data = Null \/ A[h].data \in S
  PROVE  Seqs(N, A) = Seqs(M, A)
<1>1. ASSUME NEW h \in DOMAIN A PROVE SeqOf(N, A[h]) = SeqOf(M, A[h])
  <2>1. Holds(M, A[h]) /\ (A[h].data = Null \/ A[h].data \in S)
    BY DEF ArraysOK
  <2> QED
    BY <2>1, SameElems
<1> QED
  BY <1>1 DEF Seqs

LEMMA SeqsRaw ==
  ASSUME NEW M, NEW A, NEW R, NEW L, Good(M, A, R, L), NEW N, NEW b, Apart(N, M, R.at, b)
  PROVE  Seqs(N, A) = Seqs(M, A)
<1>1. \A h \in DOMAIN A : A[h].data = Null \/ A[h].data \in DOMAIN M.blocks \ {R.at}
  BY DEF Good, ArraysOK, OwnersOK, Holds
<1>2. ArraysOK(M, A, L) /\ Kept(N, M, DOMAIN M.blocks \ {R.at})
  BY DEF Good, Apart
<1> QED
  BY <1>1, <1>2, SameSeqs

LEMMA SeqsRest ==
  ASSUME NEW M, NEW A, NEW R, NEW L, Good(M, A, R, L), NEW N, Kept(N, M, DOMAIN N.blocks),
         \A h \in DOMAIN A : A[h].data # Null => A[h].data \in DOMAIN N.blocks
  PROVE  Seqs(N, A) = Seqs(M, A)
<1>1. ArraysOK(M, A, L) /\ \A h \in DOMAIN A : A[h].data = Null \/ A[h].data \in DOMAIN N.blocks
  BY DEF Good
<1> QED
  BY <1>1, SameSeqs

LEMMA SeqsArray ==
  ASSUME NEW M, NEW A, NEW R, NEW L, Good(M, A, R, L),
         NEW h \in Arr, NEW at, at = IF h \in DOMAIN A THEN A[h].data ELSE Null,
         NEW N, NEW v \in Structs(M, L), Supplied(N, M, at, v)
  PROVE  Seqs(N, Has(A, h, v)) = Has(Seqs(M, A), h, SeqOf(N, v))
<1>1. Kept(N, M, DOMAIN M.blocks \ {at})
  BY DEF Supplied, Freed, Replaced
<1>2. ASSUME NEW g \in DOMAIN A \ {h} PROVE SeqOf(N, A[g]) = SeqOf(M, A[g])
  <2>1. /\ Holds(M, A[g])
        /\ A[g].data = Null \/ A[g].data \in DOMAIN M.blocks \ {at}
    BY DEF Good, ArraysOK, Holds
  <2> QED
    BY <2>1, <1>1, SameElems
<1>3. PICK B : B = Has(A, h, v)
  OBVIOUS
<1>4. /\ DOMAIN B = DOMAIN A \union {h} /\ B[h] = v
      /\ \A g \in DOMAIN A \ {h} : B[g] = A[g]
  BY <1>3 DEF Has
<1>5. Seqs(N, B) = [g \in DOMAIN A \union {h} |-> IF g = h THEN SeqOf(N, v) ELSE Seqs(M, A)[g]]
  BY <1>2, <1>4 DEF Seqs
<1>6. DOMAIN Seqs(M, A) = DOMAIN A
  BY DEF Seqs
<1> QED
  BY <1>3, <1>5, <1>6 DEF Has

LEMMA SeqsLacks ==
  ASSUME NEW M, NEW A, NEW h
  PROVE  Seqs(M, Lacks(A, h)) = Lacks(Seqs(M, A), h)
BY DEF Seqs, Lacks

Exchanged(S, g, h) == [f \in DOMAIN S |-> IF f = g THEN S[h] ELSE IF f = h THEN S[g] ELSE S[f]]

LEMMA SeqsSwapped ==
  ASSUME NEW M, NEW A, NEW g \in DOMAIN A, NEW h \in DOMAIN A
  PROVE  Seqs(M, Swapped(A, g, h)) = Exchanged(Seqs(M, A), g, h)
<1>1. PICK B : B = Swapped(A, g, h)
  OBVIOUS
<1>2. /\ DOMAIN B = DOMAIN A
      /\ B[g].data = A[h].data /\ B[g].len = A[h].len
      /\ B[h].data = A[g].data /\ B[h].len = A[g].len
      /\ \A f \in DOMAIN A \ {g, h} : B[f] = A[f]
  BY <1>1 DEF Swapped
<1>3. SeqOf(M, B[g]) = SeqOf(M, A[h]) /\ SeqOf(M, B[h]) = SeqOf(M, A[g])
  BY <1>2 DEF SeqOf
<1>4. Seqs(M, B) = [f \in DOMAIN A |-> IF f = g THEN Seqs(M, A)[h]
                                       ELSE IF f = h THEN Seqs(M, A)[g] ELSE Seqs(M, A)[f]]
  BY <1>2, <1>3 DEF Seqs
<1>5. DOMAIN Seqs(M, A) = DOMAIN A
  BY DEF Seqs
<1> QED
  BY <1>1, <1>4, <1>5 DEF Exchanged

\* The bytes of element q of len elements of a bytes each are among theirs, and
\* none is one of another element p.
LEMMA CellOf ==
  ASSUME NEW a \in Nat \ {0}, NEW len \in Nat, NEW q \in 0 .. len - 1, NEW j \in 0 .. a - 1
  PROVE  (q * a) + j \in 0 .. (len * a) - 1
<1>1. PICK d \in Nat : len = q + 1 + d
  <2>1. len - q - 1 \in Nat /\ len = q + 1 + (len - q - 1)
    OBVIOUS
  <2> QED
    BY <2>1
<1>2. PICK u \in Nat, v \in Nat : u = q * a /\ v = d * a
  OBVIOUS
<1>3. len * a = u + a + v
  BY <1>1, <1>2
<1> QED
  BY <1>2, <1>3

LEMMA CellsApart ==
  ASSUME NEW a \in Nat \ {0}, NEW q \in Nat, NEW p \in Nat, q # p, NEW j \in 0 .. a - 1
  PROVE  ((q * a) + j) - (p * a) \notin 0 .. a - 1
<1>1. CASE q < p
  <2>1. PICK d \in Nat : p = q + 1 + d
    <3>1. p - q - 1 \in Nat /\ p = q + 1 + (p - q - 1)
      BY <1>1
    <3> QED
      BY <3>1
  <2>2. PICK u \in Nat, v \in Nat : u = q * a /\ v = d * a
    OBVIOUS
  <2>3. p * a = u + a + v
    BY <2>1, <2>2
  <2> QED
    BY <2>2, <2>3
<1>2. CASE p < q
  <2>1. PICK d \in Nat : q = p + 1 + d
    <3>1. q - p - 1 \in Nat /\ q = p + 1 + (q - p - 1)
      BY <1>2
    <3> QED
      BY <3>1
  <2>2. PICK u \in Nat, v \in Nat : u = p * a /\ v = d * a
    OBVIOUS
  <2>3. q * a = u + a + v
    BY <2>1, <2>2
  <2> QED
    BY <2>2, <2>3
<1> QED
  BY <1>1, <1>2

LEMMA ZeroElems ==
  ASSUME NEW len \in Nat, NEW n \in Nat, n = len * TSZ
  PROVE  ElemsOf(len, Zeros(n)) = [i \in 1 .. len |-> [j \in 0 .. TSZ - 1 |-> Zero]]
<1>1. ASSUME NEW i \in 1 .. len, NEW j \in 0 .. TSZ - 1
      PROVE  Zeros(n)[(i - 1) * TSZ + j] = Zero
  <2>1. PICK q \in 0 .. len - 1 : q = i - 1
    OBVIOUS
  <2>2. (q * TSZ) + j \in 0 .. n - 1
    BY CellOf, ArrAssumption
  <2> QED
    BY <2>1, <2>2, ZerosFacts
<1>2. ASSUME NEW i \in 1 .. len
      PROVE  elem(Zeros(n), i - 1) = [j \in 0 .. TSZ - 1 |-> Zero]
  BY <1>1 DEF elem
<1> QED
  BY <1>2 DEF ElemsOf

\* The n bytes d are the bytes c but for the element x at offset k.
Overlaid(d, c, n, k, x) ==
  \A z \in 0 .. n - 1 : d[z] = IF z - k \in 0 .. TSZ - 1 THEN x[z - k] ELSE c[z]

LEMMA SetElems ==
  ASSUME NEW len \in Nat, NEW n \in Nat, n = len * TSZ, NEW i \in 0 .. len - 1, NEW x \in Elem,
         NEW c, NEW d, NEW k, k = i * TSZ, Overlaid(d, c, n, k, x)
  PROVE  ElemsOf(len, d) = [ElemsOf(len, c) EXCEPT ![i + 1] = x]
<1>1. ASSUME NEW q \in 0 .. len - 1, NEW j \in 0 .. TSZ - 1
      PROVE  d[(q * TSZ) + j] = IF q = i THEN x[j] ELSE c[(q * TSZ) + j]
  <2>1. (q * TSZ) + j \in 0 .. n - 1
    BY CellOf, ArrAssumption
  <2>2. PICK u \in Nat : u = q * TSZ
    BY ArrAssumption
  <2>3. CASE q = i
    <3>1. (u + j) - u = j /\ u = k
      BY <2>2, <2>3
    <3>2. d[u + j] = x[j]
      BY <2>1, <2>2, <3>1 DEF Overlaid
    <3> QED
      BY <2>2, <2>3, <3>2
  <2>4. CASE q # i
    <3>1. ((q * TSZ) + j) - (i * TSZ) \notin 0 .. TSZ - 1
      BY <2>4, CellsApart, ArrAssumption
    <3>2. d[(q * TSZ) + j] = c[(q * TSZ) + j]
      BY <2>1, <3>1 DEF Overlaid
    <3> QED
      BY <2>4, <3>2
  <2> QED
    BY <2>3, <2>4
<1>2. x = [j \in 0 .. TSZ - 1 |-> x[j]]
  BY DEF Elem
<1>3. ASSUME NEW q \in 0 .. len - 1
      PROVE  elem(d, q) = IF q = i THEN x ELSE elem(c, q)
  <2>1. CASE q = i
    <3>1. \A j \in 0 .. TSZ - 1 : d[q * TSZ + j] = x[j]
      BY <1>1, <2>1
    <3> QED
      BY <3>1, <1>2, <2>1 DEF elem
  <2>2. CASE q # i
    <3>1. \A j \in 0 .. TSZ - 1 : d[q * TSZ + j] = c[q * TSZ + j]
      BY <1>1, <2>2
    <3> QED
      BY <3>1, <2>2 DEF elem
  <2> QED
    BY <2>1, <2>2
<1>4. ASSUME NEW p \in 1 .. len
      PROVE  elem(d, p - 1) = IF p = i + 1 THEN x ELSE elem(c, p - 1)
  BY <1>3
<1> QED
  BY <1>4 DEF ElemsOf

-----------------------------------------------------------------------------
(* Steps that give one array other elements.                               *)

LEMMA Views ==
  /\ seqs = Seqs(m, arr) /\ Arrays!alive = alive
  /\ DOMAIN seqs = alive /\ \A g \in alive : seqs[g] = SeqOf(m, arr[g])
  /\ Allocators = AllocatorsOf(m, logged) /\ Allocators \subseteq AlNames
<1>1. seqs = Seqs(m, arr)
  BY DEF seqs, Seqs, SeqOf, ElemsOf, data, alive
<1>2. DOMAIN seqs = alive /\ \A g \in alive : seqs[g] = SeqOf(m, arr[g])
  BY <1>1 DEF Seqs, alive
<1>3. Allocators = AllocatorsOf(m, logged) /\ Allocators \subseteq AlNames
  BY DEF Allocators, AllocatorsOf, AlNames
<1> QED
  BY <1>1, <1>2, <1>3 DEF Arrays!alive

LEMMA OutcomeIs ==
  ASSUME NEW M, NEW al, NEW n, NEW c, NEW o \in nx_al_alloc(M, al, n, c)
  PROVE  o = [m |-> o.m, data |-> o.data]
BY DEF nx_al_alloc, malloc, arena_alloc

LEMMA WrittenNothing ==
  ASSUME NEW M, MemOK(M), NEW at, NEW c, DOMAIN c = {}
  PROVE  Written(M, at, c) = M
<1>1. PICK y : y = [i \in DOMAIN M.bytes |-> IF i - at \in DOMAIN c THEN c[i - at] ELSE M.bytes[i]]
  OBVIOUS
<1>2. M.bytes = [i \in DOMAIN M.bytes |-> M.bytes[i]]
  BY DEF MemOK
<1>3. y = M.bytes
  BY <1>1, <1>2
<1>4. Written(M, at, c) = [M EXCEPT !.bytes = y]
  BY <1>1 DEF Written
<1>5. M = [cap |-> M.cap, offset |-> M.offset, bytes |-> M.bytes, blocks |-> M.blocks]
  BY DEF MemOK
<1> QED
  BY <1>3, <1>4, <1>5

LEMMA NothingFreed ==
  ASSUME NEW M, MemOK(M)
  PROVE  Freed(M, M, Null)
<1>1. nx_al_dealloc(M, Null) = M
  BY DEF nx_al_dealloc
<1> QED
  BY <1>1, DeallocFacts

LEMMA ArrayStep ==
  ASSUME IndInv, NEW h \in Arr, NEW at, at = IF h \in alive THEN arr[h].data ELSE Null,
         NEW v \in Structs(m, logged), Supplied(m', m, at, v), arr' = Has(arr, h, v),
         UNCHANGED <<logged, raw>>, ret' \in {"ok", "oom"}
  PROVE  /\ IndInv'
         /\ seqs' = Has(seqs, h, SeqOf(m', v))
<1>1. Good(m, arr, raw, logged) /\ at = IF h \in DOMAIN arr THEN arr[h].data ELSE Null
  BY DEF IndInv, alive
<1>2. Good(m', Has(arr, h, v), raw, logged)
  BY <1>1, GoodArray
<1>3. Seqs(m', Has(arr, h, v)) = Has(Seqs(m, arr), h, SeqOf(m', v))
  BY <1>1, SeqsArray
<1>4. seqs' = Seqs(m', arr')
  BY DEF seqs, Seqs, SeqOf, ElemsOf, data, alive, elem
<1> QED
  BY <1>2, <1>3, <1>4, Views DEF IndInv, alive

ZeroSeq(len) == [i \in 1 .. len |-> [j \in 0 .. TSZ - 1 |-> Zero]]

LEMMA MakesNext ==
  ASSUME NEW h \in Arr \ alive, NEW s,
         (\E n \in Lens : s = ZeroSeq(n)) \/ \E g \in alive : s = seqs[g],
         seqs' = Has(seqs, h, s), ret' = "ok"
  PROVE  Arrays!Next
<1>1. seqs' = [g \in alive \union {h} |-> IF g = h THEN s ELSE seqs[g]]
  BY Views DEF Has
<1>2. s \in { ZeroSeq(n) : n \in Lens } \union { seqs[g] : g \in alive }
  OBVIOUS
<1>3. Arrays!New(h)
  BY <1>1, <1>2, Views DEF Arrays!New, ZeroSeq
<1> QED
  BY <1>3, Views DEF Arrays!Next, Arrays!Succeeds

\* The structs that calls store are as they should be.
LEMMA StructIs ==
  ASSUME NEW M, NEW L, NEW b \in Nat \union {Null}, NEW len \in Nat, NEW al \in AllocatorsOf(M, L)
  PROVE  /\ set_fields(b, len, al) \in Structs(M, L)
         /\ set_fields(b, len, al).data = b /\ set_fields(b, len, al).len = len
         /\ set_fields(b, len, al).al = al
BY DEF set_fields, Structs

\* A new block that begins with all of c supplies an array with the elements in c.
LEMMA SuppliedBy ==
  ASSUME NEW M, NEW N, NEW at, NEW L, NEW b, NEW al \in AllocatorsOf(M, L),
         NEW len \in Nat, NEW n \in Nat,
         n = len * TSZ, NEW c, DOMAIN c = 0 .. n - 1, c = [i \in 0 .. n - 1 |-> c[i]],
         Replaced(N, M, at, b, al, n, c), n # 0,
         NEW v, v = set_fields(b, len, al)
  PROVE  v \in Structs(M, L) /\ Supplied(N, M, at, v) /\ SeqOf(N, v) = ElemsOf(len, c)
<1>1. b \in Nat /\ b # Null /\ \A i \in DOMAIN c : N.bytes[b + i] = c[i]
  BY DEF Replaced, Null
<1>2. v \in Structs(M, L) /\ v.data = b /\ v.len = len /\ v.al = al
  BY <1>1, StructIs
<1>3. len # 0
  BY ArrAssumption
<1>4. Supplied(N, M, at, v)
  <2>1. Replaced(N, M, at, v.data, v.al, v.len * TSZ, c)
    BY <1>2
  <2> QED
    BY <1>1, <1>2, <1>3, <2>1 DEF Supplied
<1>5. Bytes(N, b, n) = c
  BY <1>1, TheseBytes
<1> QED
  BY <1>2, <1>4, <1>5 DEF SeqOf

\* Nothing but a struct without elements.
LEMMA SuppliedNone ==
  ASSUME NEW M, NEW N, NEW at, NEW L, NEW al \in AllocatorsOf(M, L), Freed(N, M, at),
         NEW v, v = set_fields(Null, 0, al)
  PROVE  v \in Structs(M, L) /\ Supplied(N, M, at, v) /\ SeqOf(N, v) = <<>>
<1>1. v \in Structs(M, L) /\ v.data = Null /\ v.len = 0
  BY DEF set_fields, Structs
<1> QED
  BY <1>1, NoElems DEF Supplied

LEMMA FailsStep ==
  ASSUME IndInv, Fails,
         alive # Arr \/ \E g, h \in alive : arr[g].len # arr[h].len
  PROVE  IndInv' /\ Arrays!Next
<1>1. IndInv'
  BY DEF IndInv, Fails, ArrOnly
<1>2. seqs' = seqs
  BY DEF Fails, seqs, data, alive, elem
<1>3. ASSUME NEW g \in alive, NEW h \in alive, arr[g].len # arr[h].len
      PROVE  Len(seqs[g]) # Len(seqs[h])
  <2>1. \A f \in alive : arr[f].len \in Nat
    BY DEF IndInv, Good, ArraysOK, Structs, alive
  <2>2. \A f \in alive : Len(seqs[f]) = arr[f].len
    BY <2>1 DEF seqs
  <2> QED
    BY <2>2, <1>3
<1>4. ret' = "oom"
  BY DEF Fails
<1> QED
  BY <1>1, <1>2, <1>3, <1>4, Views DEF Arrays!Next, Arrays!Fails

LEMMA NewP ==
  ASSUME IndInv, NEW h \in Arr \ alive, NEW al \in Allocators, NEW len \in Lens,
         new_p(h, len, al)
  PROVE  IndInv' /\ Arrays!Next
<1>1. CASE Fails
  BY <1>1, FailsStep
<1>2. CASE \E o \in IF len = 0 THEN {Empty} ELSE nx_al_calloc(m, al, 1, len * TSZ) :
             Created(h, o, len, al)
  <2>1. PICK o \in IF len = 0 THEN {Empty} ELSE nx_al_calloc(m, al, 1, len * TSZ) :
               Created(h, o, len, al)
    BY <1>2
  <2>2. PICK v : v = set_fields(o.data, len, al)
    OBVIOUS
  <2>3. /\ m' = o.m /\ arr' = Has(arr, h, v) /\ ret' = "ok" /\ UNCHANGED <<logged, raw>>
    BY <2>1, <2>2 DEF Created, ArrOnly
  <2>4. MemOK(m) /\ al \in AllocatorsOf(m, logged) /\ al \in AlNames
    BY Views DEF IndInv, Good
  <2>5. PICK n \in Nat : n = len * TSZ /\ n < USIZE /\ len \in Nat
    BY ArrAssumption
  <2>6. v \in Structs(m, logged) /\ Supplied(m', m, Null, v) /\ SeqOf(m', v) = ZeroSeq(len)
    <3>1. CASE len = 0
      <4>1. m' = m /\ v = set_fields(Null, 0, al)
        BY <2>1, <2>2, <2>3, <3>1 DEF Empty
      <4>2. Freed(m', m, Null)
        BY <4>1, <2>4, NothingFreed
      <4>3. v \in Structs(m, logged) /\ Supplied(m', m, Null, v) /\ SeqOf(m', v) = <<>>
        BY <4>1, <4>2, <2>4, SuppliedNone
      <4>4. ZeroSeq(len) = <<>>
        BY <3>1 DEF ZeroSeq
      <4> QED
        BY <4>3, <4>4
    <3>2. CASE len # 0
      <4>1. PICK one \in Nat : one = 1 /\ n = one * n
        BY <2>5
      <4>2. o \in nx_al_calloc(m, al, one, n)
        BY <2>1, <2>5, <3>2, <4>1
      <4>3. Replaced(o.m, m, Null, o.data, al, n, Zeros(n)) /\ n # 0
        BY <4>1, <4>2, <2>4, <2>5, CallocFacts
      <4>4. DOMAIN Zeros(n) = 0 .. n - 1 /\ Zeros(n) = [i \in 0 .. n - 1 |-> Zeros(n)[i]]
        BY DEF Zeros
      <4>5. v \in Structs(m, logged) /\ Supplied(o.m, m, Null, v) /\ SeqOf(o.m, v) = ElemsOf(len, Zeros(n))
        BY <4>3, <4>4, <2>2, <2>4, <2>5, SuppliedBy
      <4>6. ElemsOf(len, Zeros(n)) = ZeroSeq(len)
        BY <2>5, ZeroElems DEF ZeroSeq
      <4> QED
        BY <4>5, <4>6, <2>3
    <3> QED
      BY <3>1, <3>2
  <2>7. IndInv' /\ seqs' = Has(seqs, h, SeqOf(m', v))
    BY <2>3, <2>6, ArrayStep
  <2>8. seqs' = Has(seqs, h, ZeroSeq(len))
    BY <2>6, <2>7
  <2> QED
    BY <2>3, <2>7, <2>8, MakesNext
<1> QED
  BY <1>1, <1>2 DEF new_p

\* What an array that exists holds.
LEMMA DataFacts ==
  ASSUME IndInv, NEW g \in alive
  PROVE  \E len, n, c :
           /\ len \in Nat /\ n \in Nat
           /\ arr[g].len = len /\ n = len * TSZ /\ c = data(g)
           /\ Filling(c, n) /\ DOMAIN c = 0 .. n - 1 /\ c = [i \in 0 .. n - 1 |-> c[i]]
           /\ seqs[g] = ElemsOf(len, c) /\ (len = 0 => seqs[g] = <<>>)
           /\ arr[g].data = Null <=> len = 0
           /\ arr[g].data # Null => /\ arr[g].data \in DOMAIN m.blocks
                                    /\ m.blocks[arr[g].data] = [al |-> arr[g].al, size |-> n]
           /\ arr[g] \in Structs(m, logged)
<1>1. MemOK(m) /\ arr[g] \in Structs(m, logged) /\ Holds(m, arr[g])
  BY DEF IndInv, Good, ArraysOK, alive
<1>2. PICK len \in Nat, n \in Nat : arr[g].len = len /\ n = len * TSZ
  BY <1>1, ArrAssumption DEF Structs
<1>3. PICK c : c = data(g) /\ c = Bytes(m, arr[g].data, n)
  BY <1>2 DEF data
<1>4. DOMAIN c = 0 .. n - 1 /\ c = [i \in 0 .. n - 1 |-> c[i]]
  BY <1>3 DEF Bytes
<1>5. seqs[g] = ElemsOf(len, c) /\ (len = 0 => seqs[g] = <<>>)
  <2>1. seqs[g] = SeqOf(m, arr[g])
    BY Views
  <2> QED
    BY <2>1, <1>2, <1>3, NoElems DEF SeqOf
<1>6. Filling(c, n)
  <2>1. CASE len = 0
    <3>1. n = 0
      BY <2>1, <1>2, ArrAssumption
    <3> QED
      BY <3>1, <1>4 DEF Filling
  <2>2. CASE len # 0
    <3>1. PICK b : b = arr[g].data
      OBVIOUS
    <3>2. b \in DOMAIN m.blocks /\ n <= m.blocks[b].size
      BY <2>2, <3>1, <1>1, <1>2 DEF Holds
    <3> QED
      BY <3>1, <3>2, <1>1, <1>3, BytesFacts
  <2> QED
    BY <2>1, <2>2
<1>7. /\ arr[g].data = Null <=> len = 0
      /\ arr[g].data # Null => /\ arr[g].data \in DOMAIN m.blocks
                               /\ m.blocks[arr[g].data] = [al |-> arr[g].al, size |-> n]
  BY <1>1, <1>2 DEF Holds
<1>8. len \in Nat /\ n \in Nat /\ arr[g].len = len /\ n = len * TSZ /\ c = data(g)
  BY <1>2, <1>3
<1> QED
  BY <1>1, <1>4, <1>5, <1>6, <1>7, <1>8, Zenon

LEMMA CopyA ==
  ASSUME IndInv, NEW h \in Arr \ alive, NEW g \in alive, NEW al \in Allocators, copy_a(h, g, al)
  PROVE  IndInv' /\ Arrays!Next
<1>1. CASE Fails
  BY <1>1, FailsStep
<1>2. PICK len, n, c :
           /\ len \in Nat /\ n \in Nat
           /\ arr[g].len = len /\ n = len * TSZ /\ c = data(g)
           /\ Filling(c, n) /\ DOMAIN c = 0 .. n - 1 /\ c = [i \in 0 .. n - 1 |-> c[i]]
           /\ seqs[g] = ElemsOf(len, c) /\ (len = 0 => seqs[g] = <<>>)
  BY DataFacts
<1>3. CASE \E o \in IF len = 0 THEN {Empty} ELSE nx_al_alloc(m, al, n, c) : Created(h, o, len, al)
  <2>1. PICK o \in IF len = 0 THEN {Empty} ELSE nx_al_alloc(m, al, n, c) : Created(h, o, len, al)
    BY <1>3
  <2>2. PICK v : v = set_fields(o.data, len, al)
    OBVIOUS
  <2>3. /\ m' = o.m /\ arr' = Has(arr, h, v) /\ ret' = "ok" /\ UNCHANGED <<logged, raw>>
    BY <2>1, <2>2 DEF Created, ArrOnly
  <2>4. MemOK(m) /\ al \in AllocatorsOf(m, logged) /\ al \in AlNames
    BY Views DEF IndInv, Good
  <2>5. v \in Structs(m, logged) /\ Supplied(m', m, Null, v) /\ SeqOf(m', v) = seqs[g]
    <3>1. CASE len = 0
      <4>1. m' = m /\ v = set_fields(Null, 0, al)
        BY <2>1, <2>2, <2>3, <3>1 DEF Empty
      <4>2. Freed(m', m, Null)
        BY <4>1, <2>4, NothingFreed
      <4>3. v \in Structs(m, logged) /\ Supplied(m', m, Null, v) /\ SeqOf(m', v) = <<>>
        BY <4>1, <4>2, <2>4, SuppliedNone
      <4> QED
        BY <4>3, <3>1, <1>2
    <3>2. CASE len # 0
      <4>1. o \in nx_al_alloc(m, al, n, c)
        BY <2>1, <3>2
      <4>2. Replaced(o.m, m, Null, o.data, al, n, c) /\ n # 0
        BY <4>1, <2>4, <1>2, AllocFacts
      <4>3. v \in Structs(m, logged) /\ Supplied(o.m, m, Null, v) /\ SeqOf(o.m, v) = ElemsOf(len, c)
        BY <4>2, <2>2, <2>4, <1>2, SuppliedBy
      <4> QED
        BY <4>3, <1>2, <2>3
    <3> QED
      BY <3>1, <3>2
  <2>6. IndInv' /\ seqs' = Has(seqs, h, SeqOf(m', v))
    BY <2>3, <2>5, ArrayStep
  <2>7. PICK s : s = seqs[g]
    OBVIOUS
  <2>8. seqs' = Has(seqs, h, s)
    BY <2>5, <2>6, <2>7
  <2> QED
    BY <2>3, <2>6, <2>7, <2>8, MakesNext
<1> QED
  BY <1>1, <1>2, <1>3 DEF copy_a

LEMMA FromData ==
  ASSUME IndInv, NEW h \in Arr \ alive, NEW g \in alive, from_data(h, data(g), arr[g].len)
  PROVE  IndInv' /\ Arrays!Next
<1>1. CASE Fails
  BY <1>1, FailsStep
<1>2. PICK len, n, c :
           /\ len \in Nat /\ n \in Nat
           /\ arr[g].len = len /\ n = len * TSZ /\ c = data(g)
           /\ Filling(c, n) /\ DOMAIN c = 0 .. n - 1 /\ c = [i \in 0 .. n - 1 |-> c[i]]
           /\ seqs[g] = ElemsOf(len, c) /\ (len = 0 => seqs[g] = <<>>)
  BY DataFacts
<1>3. PICK al : al = "libc"
  OBVIOUS
<1>4. CASE \E o \in IF len = 0 THEN {Empty} ELSE nx_al_calloc(m, al, 1, n) :
             Created(h, [o EXCEPT !.m = Written(@, o.data, c)], len, al)
  <2>1. PICK o \in IF len = 0 THEN {Empty} ELSE nx_al_calloc(m, al, 1, n) :
               Created(h, [o EXCEPT !.m = Written(@, o.data, c)], len, al)
    BY <1>4
  <2>2. PICK v : v = set_fields(o.data, len, al)
    OBVIOUS
  <2>3. o = [m |-> o.m, data |-> o.data]
    BY <2>1, OutcomeIs DEF Empty, nx_al_calloc
  <2>4. PICK N : N = Written(o.m, o.data, c)
    OBVIOUS
  <2>5. [o EXCEPT !.m = Written(@, o.data, c)] = [m |-> N, data |-> o.data]
    BY <2>3, <2>4
  <2>6. /\ m' = N /\ arr' = Has(arr, h, v) /\ ret' = "ok" /\ UNCHANGED <<logged, raw>>
    BY <2>1, <2>2, <2>5 DEF Created, ArrOnly
  <2>7. MemOK(m) /\ al \in AllocatorsOf(m, logged) /\ al \in AlNames
    BY <1>3 DEF IndInv, Good, AlNames, AllocatorsOf
  <2>8. v \in Structs(m, logged) /\ Supplied(N, m, Null, v) /\ SeqOf(N, v) = seqs[g]
    <3>1. CASE len = 0
      <4>1. o.m = m /\ v = set_fields(Null, 0, al) /\ n = 0
        BY <2>1, <2>2, <3>1, <1>2, ArrAssumption DEF Empty
      <4>2. N = m
        <5>1. DOMAIN c = {}
          BY <4>1, <1>2
        <5> QED
          BY <5>1, <4>1, <2>4, <2>7, WrittenNothing
      <4>3. Freed(N, m, Null)
        BY <4>2, <2>7, NothingFreed
      <4>4. v \in Structs(m, logged) /\ Supplied(N, m, Null, v) /\ SeqOf(N, v) = <<>>
        BY <4>1, <4>3, <2>7, SuppliedNone
      <4> QED
        BY <4>4, <3>1, <1>2
    <3>2. CASE len # 0
      <4>1. PICK one \in Nat : one = 1 /\ n = one * n
        BY <1>2
      <4>2. o \in nx_al_calloc(m, al, one, n)
        BY <2>1, <3>2, <4>1
      <4>3. Replaced(o.m, m, Null, o.data, al, n, Zeros(n)) /\ n # 0
        BY <4>1, <4>2, <2>7, <1>2, <1>3, CallocFacts
      <4>4. Replaced(N, m, Null, o.data, al, n, c)
        BY <4>3, <2>4, <2>7, <1>2, ThenWritten
      <4>5. v \in Structs(m, logged) /\ Supplied(N, m, Null, v) /\ SeqOf(N, v) = ElemsOf(len, c)
        BY <4>3, <4>4, <2>2, <2>7, <1>2, SuppliedBy
      <4> QED
        BY <4>5, <1>2
    <3> QED
      BY <3>1, <3>2
  <2>9. IndInv' /\ seqs' = Has(seqs, h, SeqOf(m', v))
    BY <2>6, <2>8, ArrayStep
  <2>10. PICK s : s = seqs[g]
    OBVIOUS
  <2>11. seqs' = Has(seqs, h, s)
    BY <2>6, <2>8, <2>9, <2>10
  <2> QED
    BY <2>6, <2>9, <2>10, <2>11, MakesNext
<1> QED
  BY <1>1, <1>2, <1>3, <1>4 DEF from_data

\* drop, and the end of a move: without its elements, a struct can go.
LEMMA Drop ==
  ASSUME IndInv, NEW h \in alive, drop(h)
  PROVE  IndInv' /\ Arrays!Next
<1>1. PICK at : at = arr[h].data
  OBVIOUS
<1>2. /\ m' = nx_al_dealloc(m, at) /\ arr' = Lacks(arr, h) /\ ret' = "ok"
      /\ UNCHANGED <<logged, raw>>
  BY <1>1 DEF drop, ArrOnly
<1>3. /\ Good(m, arr, raw, logged) /\ MemOK(m) /\ h \in Arr /\ h \in DOMAIN arr
      /\ at \in DOMAIN m.blocks \union {Null} /\ arr[h].al \in AllocatorsOf(m, logged)
  BY <1>1 DEF IndInv, Good, ArraysOK, alive, Holds, Structs
<1>4. Freed(m', m, at)
  BY <1>2, <1>3, DeallocFacts
<1>5. PICK v : v = set_fields(Null, 0, arr[h].al)
  OBVIOUS
<1>6. v \in Structs(m, logged) /\ Supplied(m', m, at, v) /\ v.data = Null
  <2>1. PICK al \in AllocatorsOf(m, logged) : al = arr[h].al
    BY <1>3
  <2>2. v = set_fields(Null, 0, al)
    BY <1>5, <2>1
  <2>3. v.data = Null
    BY <2>2 DEF set_fields
  <2> QED
    BY <2>2, <2>3, <1>4, SuppliedNone
<1>7. PICK B : B = Has(arr, h, v)
  OBVIOUS
<1>8. Good(m', B, raw, logged)
  BY <1>1, <1>3, <1>6, <1>7, GoodArray
<1>9. h \in DOMAIN B /\ B[h].data = Null /\ Lacks(B, h) = Lacks(arr, h)
  BY <1>3, <1>6, <1>7 DEF Has, Lacks
<1>10. Good(m', arr', raw', logged')
  BY <1>2, <1>8, <1>9, GoodLacks
<1>11. IndInv'
  BY <1>2, <1>10 DEF IndInv
<1>12. Seqs(m', arr') = Lacks(Seqs(m', B), h)
  BY <1>2, <1>9, SeqsLacks
<1>13. Seqs(m', B) = Has(seqs, h, SeqOf(m', v))
  BY <1>1, <1>3, <1>6, <1>7, SeqsArray, Views
<1>14. seqs' = Lacks(seqs, h)
  <2>1. seqs' = Seqs(m', arr')
    BY DEF seqs, Seqs, SeqOf, ElemsOf, data, alive, elem
  <2>2. Lacks(Has(seqs, h, SeqOf(m', v)), h) = Lacks(seqs, h)
    BY <1>3, Views DEF Has, Lacks
  <2> QED
    BY <2>1, <2>2, <1>12, <1>13
<1>15. Arrays!Drop(h)
  BY <1>14, Views DEF Arrays!Drop, Arrays!Lacks, Lacks
<1> QED
  BY <1>2, <1>11, <1>15, Views DEF Arrays!Next, Arrays!Succeeds

LEMMA Move ==
  ASSUME IndInv, NEW h \in Arr \ alive, NEW g \in alive, move(h, g)
  PROVE  IndInv' /\ Arrays!Next
<1>1. /\ m' = m /\ arr' = Lacks(Has(arr, h, arr[g]), g) /\ ret' = "ok" /\ UNCHANGED <<logged, raw>>
  BY DEF move, ArrOnly
<1>2. /\ Good(m, arr, raw, logged) /\ MemOK(m) /\ h \in Arr /\ h \notin DOMAIN arr /\ g \in DOMAIN arr
      /\ arr[g] \in Structs(m, logged) /\ h # g
  BY DEF IndInv, Good, ArraysOK, alive
<1>3. PICK v : v = set_fields(Null, 0, arr[g].al)
  OBVIOUS
<1>4. v \in Structs(m, logged) /\ Supplied(m, m, Null, v) /\ SeqOf(m, v) = <<>>
      /\ v = [data |-> Null, len |-> 0, al |-> arr[g].al]
  <2>1. PICK al \in AllocatorsOf(m, logged) : al = arr[g].al
    BY <1>2 DEF Structs
  <2>2. v = set_fields(Null, 0, al)
    BY <1>3, <2>1
  <2>3. v = [data |-> Null, len |-> 0, al |-> arr[g].al]
    BY <1>3 DEF set_fields
  <2> QED
    BY <1>2, <2>2, <2>3, NothingFreed, SuppliedNone
<1>5. PICK B : B = Has(arr, h, v)
  OBVIOUS
<1>6. /\ DOMAIN B = DOMAIN arr \union {h} /\ B[h] = v /\ B[g] = arr[g]
      /\ \A f \in DOMAIN arr : B[f] = arr[f]
  BY <1>2, <1>5 DEF Has
<1>7. Good(m, B, raw, logged) /\ Seqs(m, B) = Has(Seqs(m, arr), h, <<>>)
  BY <1>2, <1>4, <1>5, GoodArray, SeqsArray
<1>8. PICK C : C = Swapped(B, h, g)
  OBVIOUS
<1>9. Good(m, C, raw, logged)
  <2>1. h \in DOMAIN B /\ g \in DOMAIN B /\ B[h].al = B[g].al
    BY <1>2, <1>4, <1>6
  <2> QED
    BY <2>1, <1>7, <1>8, GoodSwapped
<1>10. C[h] = arr[g] /\ g \in DOMAIN C /\ C[g].data = Null
  <2>1. arr[g] = [data |-> arr[g].data, len |-> arr[g].len, al |-> arr[g].al]
    BY <1>2 DEF Structs
  <2> QED
    BY <2>1, <1>2, <1>4, <1>6, <1>8 DEF Swapped
<1>11. Lacks(C, g) = arr'
  <2>1. DOMAIN C = DOMAIN B /\ \A f \in DOMAIN B \ {h, g} : C[f] = arr[f]
    BY <1>5, <1>8 DEF Swapped, Has
  <2>2. Lacks(C, g) = [f \in DOMAIN B \ {g} |-> IF f = h THEN arr[g] ELSE arr[f]]
    BY <2>1, <1>10, <1>6 DEF Lacks
  <2>3. Lacks(Has(arr, h, arr[g]), g) = [f \in DOMAIN B \ {g} |-> IF f = h THEN arr[g] ELSE arr[f]]
    BY <1>6 DEF Lacks, Has
  <2> QED
    BY <1>1, <2>2, <2>3
<1>12. IndInv'
  <2>1. Good(m, Lacks(C, g), raw, logged)
    BY <1>9, <1>10, GoodLacks
  <2> QED
    BY <2>1, <1>1, <1>11 DEF IndInv
<1>13. seqs' = Lacks(Seqs(m, C), g)
  <2>1. seqs' = Seqs(m', arr')
    BY DEF seqs, Seqs, SeqOf, ElemsOf, data, alive, elem
  <2> QED
    BY <2>1, <1>1, <1>11, SeqsLacks
<1>14. seqs' = [f \in (alive \ {g}) \union {h} |-> IF f = h THEN seqs[g] ELSE seqs[f]]
  <2>1. Seqs(m, C) = Exchanged(Seqs(m, B), h, g) /\ DOMAIN Seqs(m, B) = DOMAIN B
    <3>1. h \in DOMAIN B /\ g \in DOMAIN B
      BY <1>2, <1>6
    <3>2. Seqs(m, C) = Exchanged(Seqs(m, B), h, g)
      BY <3>1, <1>8, SeqsSwapped
    <3>3. DOMAIN Seqs(m, B) = DOMAIN B
      BY DEF Seqs
    <3> QED
      BY <3>2, <3>3
  <2>2. PICK S : S = Seqs(m, B)
    OBVIOUS
  <2>3. PICK T : T = Seqs(m, C)
    OBVIOUS
  <2>4. seqs = Seqs(m, arr) /\ DOMAIN seqs = alive /\ DOMAIN arr = alive
    BY Views DEF alive
  <2>5. \A f \in alive : S[f] = seqs[f]
    BY <2>2, <2>4, <1>2, <1>7 DEF Has
  <2>6. DOMAIN T = alive \union {h} /\ T[h] = seqs[g] /\ \A f \in alive \ {g} : T[f] = seqs[f]
    BY <2>1, <2>2, <2>3, <2>4, <2>5, <1>2, <1>6 DEF Exchanged
  <2>7. Lacks(T, g) = [f \in (alive \ {g}) \union {h} |-> IF f = h THEN seqs[g] ELSE seqs[f]]
    BY <2>6, <1>2, <2>4 DEF Lacks
  <2> QED
    BY <2>3, <2>7, <1>13
<1>15. Arrays!Move(h, g)
  BY <1>14, Views DEF Arrays!Move
<1> QED
  BY <1>1, <1>12, <1>15, Views DEF Arrays!Next, Arrays!Succeeds

LEMMA ExchangedIs ==
  ASSUME NEW S, S = [f \in DOMAIN S |-> S[f]], NEW g \in DOMAIN S, NEW h \in DOMAIN S
  PROVE  Exchanged(S, g, h) = [S EXCEPT ![g] = S[h], ![h] = S[g]]
BY DEF Exchanged

LEMMA SeqsPrimed == seqs' = Seqs(m', arr')
BY DEF seqs, Seqs, SeqOf, ElemsOf, data, alive, elem

LEMMA Swap ==
  ASSUME IndInv, NEW a \in alive, NEW b \in alive, swap(a, b)
  PROVE  IndInv' /\ Arrays!Next
<1>1. /\ arr[a].al = arr[b].al /\ m' = m /\ ret' = "ok" /\ UNCHANGED <<logged, raw>>
      /\ arr' = [arr EXCEPT ![a].data = arr[b].data, ![a].len = arr[b].len,
                            ![b].data = arr[a].data, ![b].len = arr[a].len]
  BY DEF swap, ArrOnly
<1>2. /\ Good(m, arr, raw, logged) /\ a \in DOMAIN arr /\ b \in DOMAIN arr
      /\ arr \in [DOMAIN arr -> Structs(m, logged)]
  BY DEF IndInv, Good, ArraysOK, alive
<1>3. arr' = Swapped(arr, a, b)
  <2>1. PICK p \in Structs(m, logged), q \in Structs(m, logged) : p = arr[a] /\ q = arr[b]
    BY <1>2
  <2>2. p = [data |-> p.data, len |-> p.len, al |-> p.al]
        /\ q = [data |-> q.data, len |-> q.len, al |-> q.al]
    BY DEF Structs
  <2>3. CASE a = b
    BY <1>1, <1>2, <2>1, <2>2, <2>3 DEF Swapped
  <2>4. CASE a # b
    <3>1. Swapped(arr, a, b)
            = [f \in DOMAIN arr |-> IF f = a THEN [data |-> q.data, len |-> q.len, al |-> p.al]
                                    ELSE IF f = b THEN [data |-> p.data, len |-> p.len, al |-> q.al]
                                    ELSE arr[f]]
      BY <2>1 DEF Swapped
    <3>2. arr = [f \in DOMAIN arr |-> arr[f]]
      BY <1>2
    <3>3. arr' = [[arr EXCEPT ![a] = [data |-> q.data, len |-> q.len, al |-> p.al]]
                      EXCEPT ![b] = [data |-> p.data, len |-> p.len, al |-> q.al]]
      BY <1>1, <1>2, <2>1, <2>2, <2>4
    <3> QED
      BY <1>2, <2>4, <3>1, <3>2, <3>3
  <2> QED
    BY <2>3, <2>4
<1>4. Good(m, Swapped(arr, a, b), raw, logged)
  BY <1>1, <1>2, GoodSwapped
<1>5. IndInv'
  BY <1>1, <1>3, <1>4 DEF IndInv
<1>6. seqs' = Exchanged(seqs, a, b)
  BY <1>1, <1>2, <1>3, SeqsPrimed, SeqsSwapped, Views
<1>7. Exchanged(seqs, a, b) = [seqs EXCEPT ![a] = seqs[b], ![b] = seqs[a]]
  <2>1. PICK S : S = seqs
    OBVIOUS
  <2>2. S = [f \in DOMAIN S |-> S[f]]
    BY <2>1 DEF seqs
  <2>3. a \in DOMAIN S /\ b \in DOMAIN S
    BY <2>1, Views
  <2> QED
    BY <2>1, <2>2, <2>3, ExchangedIs
<1>8. Arrays!Swap(a, b)
  BY <1>6, <1>7 DEF Arrays!Swap
<1> QED
  BY <1>1, <1>5, <1>8, Views DEF Arrays!Next, Arrays!Succeeds

LEMMA MoveAssign ==
  ASSUME IndInv, NEW self \in alive, NEW src \in alive, move_assign(self, src)
  PROVE  IndInv' /\ Arrays!Next
<1>1. CASE self = src
  <2>1. m' = m /\ arr' = arr /\ ret' = "ok" /\ UNCHANGED <<logged, raw>>
    BY <1>1 DEF move_assign, ArrOnly
  <2>2. IndInv'
    BY <2>1 DEF IndInv
  <2>3. seqs' = seqs
    BY <2>1, SeqsPrimed, Views
  <2>4. Arrays!MoveAssign(self, src)
    BY <1>1, <2>3 DEF Arrays!MoveAssign
  <2> QED
    BY <2>1, <2>2, <2>4, Views DEF Arrays!Next, Arrays!Succeeds
<1>2. CASE self # src
  <2>1. PICK at : at = arr[self].data
    OBVIOUS
  <2>2. /\ arr[self].al = arr[src].al /\ m' = nx_al_dealloc(m, at) /\ ret' = "ok"
        /\ UNCHANGED <<logged, raw>>
        /\ arr' = [arr EXCEPT ![self].data = arr[src].data, ![self].len = arr[src].len,
                              ![src].data = Null, ![src].len = 0]
    BY <1>2, <2>1 DEF move_assign, ArrOnly
  <2>3. /\ Good(m, arr, raw, logged) /\ MemOK(m) /\ self \in Arr
        /\ self \in DOMAIN arr /\ src \in DOMAIN arr
        /\ arr \in [DOMAIN arr -> Structs(m, logged)]
        /\ at \in DOMAIN m.blocks \union {Null}
    BY <2>1 DEF IndInv, Good, ArraysOK, alive, Holds
  <2>4. Freed(m', m, at)
    BY <2>2, <2>3, DeallocFacts
  <2>5. PICK p \in Structs(m, logged), q \in Structs(m, logged) : p = arr[self] /\ q = arr[src]
    BY <2>3
  <2>6. p = [data |-> p.data, len |-> p.len, al |-> p.al]
        /\ q = [data |-> q.data, len |-> q.len, al |-> q.al] /\ q.al = p.al
    BY <2>2, <2>5 DEF Structs
  <2>7. PICK v : v = set_fields(Null, 0, p.al) /\ v = [data |-> Null, len |-> 0, al |-> p.al]
    BY DEF set_fields
  <2>8. v \in Structs(m, logged) /\ Supplied(m', m, at, v) /\ SeqOf(m', v) = <<>>
    <3>1. PICK al \in AllocatorsOf(m, logged) : al = p.al
      BY DEF Structs
    <3>2. v = set_fields(Null, 0, al)
      BY <2>7, <3>1
    <3> QED
      BY <3>2, <2>4, SuppliedNone
  <2>9. PICK B : B = Has(arr, self, v)
    OBVIOUS
  <2>10. /\ DOMAIN B = DOMAIN arr /\ B[self] = v /\ B[src] = q
         /\ \A f \in DOMAIN arr \ {self} : B[f] = arr[f]
    BY <1>2, <2>3, <2>5, <2>9 DEF Has
  <2>11. Good(m', B, raw, logged) /\ Seqs(m', B) = Has(Seqs(m, arr), self, <<>>)
    <3>1. at = IF self \in DOMAIN arr THEN arr[self].data ELSE Null
      BY <2>1, <2>3
    <3>2. Good(m', B, raw, logged)
      BY <2>3, <2>8, <2>9, <3>1, GoodArray
    <3>3. Seqs(m', B) = Has(Seqs(m, arr), self, SeqOf(m', v))
      BY <2>3, <2>8, <2>9, <3>1, SeqsArray
    <3> QED
      BY <3>2, <3>3, <2>8
  <2>12. arr' = Swapped(B, self, src)
    <3>1. Swapped(B, self, src)
            = [f \in DOMAIN arr |-> IF f = self THEN [data |-> q.data, len |-> q.len, al |-> p.al]
                                    ELSE IF f = src THEN [data |-> Null, len |-> 0, al |-> q.al]
                                    ELSE arr[f]]
      BY <1>2, <2>7, <2>10 DEF Swapped
    <3> QED
      BY <1>2, <2>2, <2>3, <2>5, <2>6, <3>1
  <2>13. self \in DOMAIN B /\ src \in DOMAIN B /\ B[self].al = B[src].al
    BY <2>3, <2>6, <2>7, <2>10
  <2>14. IndInv'
    <3>1. Good(m', Swapped(B, self, src), raw, logged)
      BY <2>11, <2>13, GoodSwapped
    <3> QED
      BY <3>1, <2>2, <2>12 DEF IndInv
  <2>15. seqs' = Exchanged(Has(seqs, self, <<>>), self, src)
    BY <2>11, <2>12, <2>13, SeqsPrimed, SeqsSwapped, Views
  <2>16. seqs' = [seqs EXCEPT ![self] = seqs[src], ![src] = <<>>]
    <3>1. PICK S : S = seqs
      OBVIOUS
    <3>2. S = [f \in DOMAIN S |-> S[f]]
      BY <3>1 DEF seqs
    <3>3. self \in DOMAIN S /\ src \in DOMAIN S
      BY <3>1, Views
    <3>4. Exchanged(Has(S, self, <<>>), self, src) = [S EXCEPT ![self] = S[src], ![src] = <<>>]
      BY <3>2, <3>3, <1>2 DEF Exchanged, Has
    <3> QED
      BY <3>1, <3>4, <2>15
  <2>17. Arrays!MoveAssign(self, src)
    BY <1>2, <2>16 DEF Arrays!MoveAssign
  <2> QED
    BY <2>2, <2>14, <2>17, Views DEF Arrays!Next, Arrays!Succeeds
<1> QED
  BY <1>1, <1>2

LEMMA PatchStep ==
  ASSUME IndInv, NEW h \in alive, NEW v, v = arr[h], v.data # Null,
         NEW k, NEW c, Patched(m', m, v.data, k, c),
         UNCHANGED <<arr, logged, raw>>, ret' \in {"ok", "oom"}
  PROVE  IndInv' /\ seqs' = Has(seqs, h, SeqOf(m', v))
<1>1. /\ Good(m, arr, raw, logged) /\ h \in Arr /\ h \in DOMAIN arr /\ v \in Structs(m, logged)
      /\ Holds(m, v) /\ MemOK(m)
  BY DEF IndInv, Good, ArraysOK, alive
<1>2. PICK b, n : b \in Nat /\ b = v.data /\ n = v.len * TSZ
  BY <1>1 DEF Structs
<1>3. b \in DOMAIN m.blocks /\ m.blocks[b] = [al |-> v.al, size |-> n] /\ v.len # 0
  BY <1>1, <1>2 DEF Holds
<1>4. Patched(m', m, b, k, c)
  BY <1>2
<1>5. Replaced(m', m, b, b, v.al, n, Bytes(m', b, n))
  <2>1. PICK N : N = m'
    OBVIOUS
  <2>2. Replaced(N, m, b, b, v.al, n, Bytes(N, b, n))
    BY <1>2, <1>3, <1>4, <2>1, PatchedReplaced
  <2> QED
    BY <2>1, <2>2
<1>6. Supplied(m', m, b, v)
  BY <1>2, <1>3, <1>5 DEF Supplied
<1>7. arr' = Has(arr, h, v)
  <2>1. arr = [f \in DOMAIN arr |-> arr[f]]
    BY <1>1 DEF Good, ArraysOK
  <2>2. Has(arr, h, v) = arr
    BY <1>1, <2>1 DEF Has
  <2> QED
    BY <2>2
<1>8. b = IF h \in alive THEN arr[h].data ELSE Null
  BY <1>2
<1> QED
  BY <1>1, <1>6, <1>7, <1>8, ArrayStep

LEMMA SetOne ==
  ASSUME IndInv, NEW h \in alive, NEW i \in 0 .. arr[h].len - 1, NEW x \in Elem, set(h, i, x)
  PROVE  IndInv' /\ Arrays!Next
<1>1. PICK len, n, c :
           /\ len \in Nat /\ n \in Nat
           /\ arr[h].len = len /\ n = len * TSZ /\ c = data(h)
           /\ Filling(c, n) /\ DOMAIN c = 0 .. n - 1 /\ c = [p \in 0 .. n - 1 |-> c[p]]
           /\ seqs[h] = ElemsOf(len, c) /\ (len = 0 => seqs[h] = <<>>)
           /\ arr[h].data = Null <=> len = 0
           /\ arr[h].data # Null => /\ arr[h].data \in DOMAIN m.blocks
                                    /\ m.blocks[arr[h].data] = [al |-> arr[h].al, size |-> n]
           /\ arr[h] \in Structs(m, logged)
  BY DataFacts
<1>2. PICK v : v = arr[h]
  OBVIOUS
<1>3. PICK b : b = v.data
  OBVIOUS
<1>4. i \in 0 .. len - 1 /\ len # 0
  BY <1>1
<1>5. b # Null /\ b \in DOMAIN m.blocks /\ m.blocks[b].size = n /\ MemOK(m) /\ TSZ \in Nat \ {0}
  BY <1>1, <1>2, <1>3, <1>4, ArrAssumption DEF IndInv, Good
<1>6. PICK k \in Nat : k = i * TSZ
  BY <1>4, <1>5
<1>7. k + TSZ <= n
  <2>1. PICK j \in 0 .. TSZ - 1 : j = TSZ - 1
    BY <1>5
  <2>2. (i * TSZ) + j \in 0 .. (len * TSZ) - 1
    BY <1>1, <1>4, <1>5, CellOf
  <2>3. n = len * TSZ /\ n \in Nat /\ TSZ \in Nat
    BY <1>1, <1>5
  <2>4. k + j \in 0 .. n - 1
    BY <2>2, <2>3, <1>6
  <2> QED
    BY <2>1, <2>3, <2>4, <1>6
<1>8. Filling(x, TSZ) /\ DOMAIN x = 0 .. TSZ - 1
  BY DEF Filling, Elem, Content
<1>9. /\ m' = Written(m, b + k, x) /\ UNCHANGED <<arr, logged, raw>> /\ ret' = "ok"
  BY <1>2, <1>3, <1>6 DEF set, ArrOnly
<1>10. Patched(m', m, b, k, x)
  <2>1. PICK N : N = m'
    OBVIOUS
  <2>2. N = Written(m, b + k, x)
    BY <1>9, <2>1
  <2>3. TSZ \in Nat /\ k + TSZ <= m.blocks[b].size
    BY <1>5, <1>7
  <2>4. Patched(N, m, b, k, x)
    BY <1>5, <1>8, <2>2, <2>3, WrittenFacts
  <2> QED
    BY <2>1, <2>4
<1>11. IndInv' /\ seqs' = Has(seqs, h, SeqOf(m', v))
  BY <1>2, <1>3, <1>5, <1>9, <1>10, PatchStep
<1>12. SeqOf(m', v) = [seqs[h] EXCEPT ![i + 1] = x]
  <2>1. PICK d : d = Bytes(m', b, n)
    OBVIOUS
  <2>2. SeqOf(m', v) = ElemsOf(len, d)
    BY <2>1, <1>1, <1>2, <1>3 DEF SeqOf
  <2>3. c = Bytes(m, b, n)
    BY <1>1, <1>2, <1>3 DEF data
  <2>4. Overlaid(d, c, n, k, x)
    <3>1. \A z \in 0 .. n - 1 : d[z] = m'.bytes[b + z] /\ c[z] = m.bytes[b + z]
      BY <2>1, <2>3 DEF Bytes
    <3> QED
      BY <3>1, <1>5, <1>8, <1>10 DEF Patched, Overlaid
  <2>5. len \in Nat /\ n \in Nat /\ n = len * TSZ
    BY <1>1
  <2>6. ElemsOf(len, d) = [ElemsOf(len, c) EXCEPT ![i + 1] = x]
    BY <2>4, <2>5, <1>4, <1>6, SetElems
  <2> QED
    BY <2>2, <2>6, <1>1
<1>13. seqs' = [seqs EXCEPT ![h][i + 1] = x]
  <2>1. PICK S : S = seqs /\ S = [f \in DOMAIN S |-> S[f]] /\ h \in DOMAIN S
    BY Views DEF seqs
  <2>2. Has(S, h, [S[h] EXCEPT ![i + 1] = x]) = [S EXCEPT ![h][i + 1] = x]
    BY <2>1 DEF Has
  <2> QED
    BY <2>1, <2>2, <1>11, <1>12
<1>14. Arrays!Set(h)
  <2>1. Len(seqs[h]) = len
    BY <1>1 DEF ElemsOf
  <2>2. i + 1 \in 1 .. Len(seqs[h])
    BY <2>1, <1>4
  <2> QED
    BY <1>13, <2>2 DEF Arrays!Set
<1> QED
  BY <1>9, <1>11, <1>14, Views DEF Arrays!Next, Arrays!Succeeds

LEMMA CopyAssign ==
  ASSUME IndInv, NEW self \in alive, NEW src \in alive, copy_assign(self, src)
  PROVE  IndInv' /\ Arrays!Next
<1>1. PICK len, n, c :
           /\ len \in Nat /\ n \in Nat
           /\ arr[src].len = len /\ n = len * TSZ /\ c = data(src)
           /\ Filling(c, n) /\ DOMAIN c = 0 .. n - 1 /\ c = [i \in 0 .. n - 1 |-> c[i]]
           /\ seqs[src] = ElemsOf(len, c) /\ (len = 0 => seqs[src] = <<>>)
  BY DataFacts
<1>2. PICK v, at, al : v = arr[self] /\ at = v.data /\ al = v.al
  OBVIOUS
<1>3. PICK s : s = seqs[src]
  OBVIOUS
<1>4. /\ Good(m, arr, raw, logged) /\ MemOK(m) /\ self \in Arr
      /\ v \in Structs(m, logged) /\ Holds(m, v) /\ at \in DOMAIN m.blocks \union {Null}
      /\ al \in AllocatorsOf(m, logged) /\ al \in AlNames
      /\ at = IF self \in alive THEN arr[self].data ELSE Null
  <2>1. /\ Good(m, arr, raw, logged) /\ MemOK(m) /\ self \in Arr
        /\ v \in Structs(m, logged) /\ Holds(m, v)
    BY <1>2 DEF IndInv, Good, ArraysOK, alive
  <2>2. at \in DOMAIN m.blocks \union {Null}
    BY <2>1, <1>2 DEF Holds
  <2>3. al \in AllocatorsOf(m, logged) /\ al \in AlNames
    BY <2>1, <1>2, Views DEF Structs
  <2> QED
    BY <2>1, <2>2, <2>3, <1>2
<1>5. ASSUME NEW w, w \in Structs(m, logged), Supplied(m', m, at, w), SeqOf(m', w) = s,
             arr' = Has(arr, self, w), UNCHANGED <<logged, raw>>, ret' = "ok"
      PROVE  IndInv' /\ Arrays!Next
  <2>1. IndInv' /\ seqs' = Has(seqs, self, SeqOf(m', w))
    BY <1>4, <1>5, ArrayStep
  <2>2. seqs' = [seqs EXCEPT ![self] = seqs[src]]
    <3>1. PICK S : S = seqs /\ S = [f \in DOMAIN S |-> S[f]] /\ self \in DOMAIN S
      BY Views DEF seqs
    <3>2. Has(S, self, s) = [S EXCEPT ![self] = s]
      BY <3>1 DEF Has
    <3> QED
      BY <3>1, <3>2, <2>1, <1>3, <1>5
  <2>3. Arrays!CopyAssign(self, src)
    BY <2>2 DEF Arrays!CopyAssign
  <2> QED
    BY <1>5, <2>1, <2>3, Views DEF Arrays!Next, Arrays!Succeeds
<1>6. ASSUME NEW w PROVE [arr EXCEPT ![self] = w] = Has(arr, self, w)
  <2>1. arr = [f \in DOMAIN arr |-> arr[f]] /\ self \in DOMAIN arr
    BY <1>4 DEF Good, ArraysOK, alive
  <2> QED
    BY <2>1 DEF Has
<1>7. CASE self = src /\ UNCHANGED <<m, arr>> /\ ret' = "ok" /\ ArrOnly
  <2>1. IndInv'
    BY <1>7 DEF IndInv, ArrOnly
  <2>2. seqs' = seqs
    BY <1>7, SeqsPrimed, Views
  <2>3. [seqs EXCEPT ![self] = seqs[src]] = seqs
    <3>1. PICK S : S = seqs /\ S = [f \in DOMAIN S |-> S[f]] /\ self \in DOMAIN S
      BY Views DEF seqs
    <3>2. [S EXCEPT ![self] = S[self]] = S
      BY <3>1
    <3> QED
      BY <3>1, <3>2, <1>7
  <2>4. Arrays!CopyAssign(self, src)
    BY <2>2, <2>3 DEF Arrays!CopyAssign
  <2> QED
    BY <1>7, <2>1, <2>4, Views DEF Arrays!Next, Arrays!Succeeds
<1>8. CASE /\ self # src /\ len = 0 /\ ret' = "ok" /\ ArrOnly
           /\ m' = nx_al_dealloc(m, at) /\ arr' = [arr EXCEPT ![self] = set_fields(Null, 0, al)]
  <2>1. PICK w : w = set_fields(Null, 0, al)
    OBVIOUS
  <2>2. Freed(m', m, at)
    BY <1>4, <1>8, DeallocFacts
  <2>3. w \in Structs(m, logged) /\ Supplied(m', m, at, w) /\ SeqOf(m', w) = <<>>
    BY <2>1, <2>2, <1>4, SuppliedNone
  <2>4. arr' = Has(arr, self, w)
    BY <1>6, <1>8, <2>1
  <2>5. UNCHANGED <<logged, raw>> /\ ret' = "ok" /\ s = <<>>
    BY <1>1, <1>3, <1>8 DEF ArrOnly
  <2> QED
    BY <2>3, <2>4, <2>5, <1>5
<1>9. CASE /\ self # src /\ len > 0 /\ v.len = len /\ ret' = "ok" /\ ArrOnly
           /\ m' = Written(m, at, c) /\ UNCHANGED arr
  <2>1. at # Null /\ m.blocks[at] = [al |-> al, size |-> n] /\ at \in DOMAIN m.blocks /\ at \in Nat
    BY <1>1, <1>2, <1>4, <1>9 DEF Holds, Structs
  <2>2. PICK N : N = m'
    OBVIOUS
  <2>3. Replaced(N, m, at, at, al, n, c)
    BY <2>1, <2>2, <1>1, <1>4, <1>9, OverwrittenFacts
  <2>4. v = set_fields(at, len, al) /\ n # 0
    <3>1. v = set_fields(at, len, al)
      BY <1>2, <1>4, <1>9 DEF Structs, set_fields
    <3>2. n # 0
      BY <1>1, <1>9, ArrAssumption
    <3> QED
      BY <3>1, <3>2
  <2>5. v \in Structs(m, logged) /\ Supplied(N, m, at, v) /\ SeqOf(N, v) = ElemsOf(len, c)
    BY <2>3, <2>4, <1>1, <1>4, SuppliedBy
  <2>6. arr' = Has(arr, self, v)
    <3>1. arr = [f \in DOMAIN arr |-> arr[f]] /\ self \in DOMAIN arr
      BY <1>4 DEF Good, ArraysOK, alive
    <3>2. Has(arr, self, v) = arr
      BY <3>1, <1>2 DEF Has
    <3> QED
      BY <3>2, <1>9
  <2>7. UNCHANGED <<logged, raw>> /\ ret' = "ok" /\ s = ElemsOf(len, c)
    BY <1>1, <1>3, <1>9 DEF ArrOnly
  <2> QED
    BY <2>2, <2>5, <2>6, <2>7, <1>5
<1>10. CASE len > 0 /\ v.len # len /\ Fails
  BY <1>1, <1>2, <1>10, FailsStep
<1>11. CASE /\ len > 0 /\ v.len # len
            /\ \E o \in nx_al_alloc(m, al, n, c) :
                 /\ m' = nx_al_dealloc(o.m, at) /\ ret' = "ok" /\ ArrOnly
                 /\ arr' = [arr EXCEPT ![self] = set_fields(o.data, len, al)]
  <2>1. PICK o \in nx_al_alloc(m, al, n, c) :
               /\ m' = nx_al_dealloc(o.m, at) /\ ret' = "ok" /\ ArrOnly
               /\ arr' = [arr EXCEPT ![self] = set_fields(o.data, len, al)]
    BY <1>11
  <2>2. Replaced(o.m, m, Null, o.data, al, n, c) /\ n # 0
    BY <1>1, <1>4, AllocFacts
  <2>3. Replaced(nx_al_dealloc(o.m, at), m, at, o.data, al, n, c)
    BY <2>2, <1>1, <1>4, AllocThenFree
  <2>4. PICK w : w = set_fields(o.data, len, al)
    OBVIOUS
  <2>5. PICK N : N = nx_al_dealloc(o.m, at)
    OBVIOUS
  <2>6. w \in Structs(m, logged) /\ Supplied(N, m, at, w) /\ SeqOf(N, w) = ElemsOf(len, c)
    BY <2>2, <2>3, <2>4, <2>5, <1>1, <1>4, SuppliedBy
  <2>7. m' = N /\ arr' = Has(arr, self, w) /\ UNCHANGED <<logged, raw>> /\ ret' = "ok"
        /\ s = ElemsOf(len, c)
    BY <2>1, <2>4, <2>5, <1>1, <1>3, <1>6 DEF ArrOnly
  <2> QED
    BY <2>6, <2>7, <1>5
<1>12. /\ arr[src].len = len /\ arr[src].len * TSZ = n /\ data(src) = c
       /\ arr[self] = v /\ v.data = at /\ v.al = al
  BY <1>1, <1>2
<1> QED
  BY <1>7, <1>8, <1>9, <1>10, <1>11, <1>12 DEF copy_assign

-----------------------------------------------------------------------------
(* Steps of the client's block.                                            *)

\* The client has the block at address b for the one at address at, as S says.
Obtained(N, M, at, b, S, L) == Apart(N, M, at, b) /\ RawOK(N, S, L) /\ S.at = b

LEMMA RawStep ==
  ASSUME IndInv, NEW b, Obtained(m', m, raw.at, b, raw', logged),
         UNCHANGED <<logged, arr, ret>>
  PROVE  IndInv' /\ UNCHANGED <<seqs, ret>>
<1>1. Good(m, arr, raw, logged)
  BY DEF IndInv
<1>2. Good(m', arr, raw', logged)
  BY <1>1, GoodRaw DEF Obtained
<1>3. Seqs(m', arr) = Seqs(m, arr)
  BY <1>1, SeqsRaw DEF Obtained
<1> QED
  BY <1>2, <1>3, SeqsPrimed, Views DEF IndInv

LEMMA RefusedStep ==
  ASSUME IndInv, UNCHANGED <<m, raw>>, RawOnly
  PROVE  IndInv' /\ UNCHANGED <<seqs, ret>>
BY SeqsPrimed, Views DEF IndInv, RawOnly

Client(al, at, want) == [al |-> al, at |-> at, want |-> want]

\* Nothing is expected of n bytes but what they begin with.
Expects(want, n, c) ==
  /\ DOMAIN want = 0 .. n - 1
  /\ \A i \in 0 .. n - 1 :
       want[i] \in Content /\ (want[i] # Uninit => i \in DOMAIN c /\ want[i] = c[i])

\* A new block from which no more is expected than it begins with.
LEMMA RawSupplied ==
  ASSUME NEW M, NEW N, NEW at, NEW b, NEW L, NEW al \in AllocatorsOf(M, L), NEW n \in Nat, NEW c,
         Replaced(N, M, at, b, al, n, c),
         NEW want, Expects(want, n, c),
         NEW S, S = Client(al, b, want)
  PROVE  Obtained(N, M, at, b, S, L)
<1>1. Apart(N, M, at, b)
  BY ReplacedApart
<1>2. S.al = al /\ S.at = b /\ S.want = want /\ S = [al |-> S.al, at |-> S.at, want |-> S.want]
  BY DEF Client
<1>3. /\ b \in Nat /\ b \in DOMAIN N.blocks /\ N.blocks[b] = [al |-> al, size |-> n]
      /\ \A i \in DOMAIN c : N.bytes[b + i] = c[i]
  BY DEF Replaced
<1>4. AllocatorsOf(N, L) = AllocatorsOf(M, L)
  BY <1>1 DEF Apart, AllocatorsOf
<1>5. RawOK(N, S, L)
  BY <1>2, <1>3, <1>4 DEF RawOK, Expects
<1> QED
  BY <1>1, <1>2, <1>5 DEF Obtained

LEMMA RawAlloc ==
  ASSUME IndInv, NEW al \in Allocators, NEW n \in Nat, raw_alloc(al, n)
  PROVE  IndInv' /\ UNCHANGED <<seqs, ret>>
<1>1. CASE Refused(al, n)
  BY <1>1, RefusedStep DEF Refused
<1>2. PICK c : c = [i \in {} |-> Zero]
  OBVIOUS
<1>3. CASE \E o \in nx_al_alloc(m, al, n, c) : Obtains(o, al, Unknown(n))
  <2>1. PICK o \in nx_al_alloc(m, al, n, c) : Obtains(o, al, Unknown(n))
    BY <1>3
  <2>2. /\ MemOK(m) /\ al \in AllocatorsOf(m, logged) /\ al \in AlNames /\ raw.at = Null
    BY Views DEF IndInv, Good, raw_alloc
  <2>3. Filling(c, n)
    BY <1>2 DEF Filling
  <2>4. Replaced(o.m, m, Null, o.data, al, n, c)
    BY <2>2, <2>3, AllocFacts
  <2>5. PICK want : want = Unknown(n)
    OBVIOUS
  <2>6. Expects(want, n, c)
    BY <2>5 DEF Unknown, Content, Expects
  <2>7. PICK S : S = Client(al, o.data, want)
    OBVIOUS
  <2>8. Obtained(o.m, m, Null, o.data, S, logged)
    BY <2>2, <2>4, <2>6, <2>7, RawSupplied
  <2>9. m' = o.m /\ raw' = S /\ UNCHANGED <<logged, arr, ret>>
    BY <2>1, <2>5, <2>7 DEF Obtains, RawOnly, Client
  <2> QED
    BY <2>2, <2>8, <2>9, RawStep
<1> QED
  BY <1>1, <1>2, <1>3 DEF raw_alloc

LEMMA RawCalloc ==
  ASSUME IndInv, NEW al \in Allocators, NEW num \in Nat, NEW size \in Nat, raw_calloc(al, num, size)
  PROVE  IndInv' /\ UNCHANGED <<seqs, ret>>
<1>1. CASE UNCHANGED <<m, raw>> /\ RawOnly
  BY <1>1, RefusedStep
<1>2. PICK n \in Nat : n = num * size
  OBVIOUS
<1>3. CASE \E o \in nx_al_calloc(m, al, num, size) : Obtains(o, al, Zeros(n))
  <2>1. PICK o \in nx_al_calloc(m, al, num, size) : Obtains(o, al, Zeros(n))
    BY <1>3
  <2>2. /\ MemOK(m) /\ al \in AllocatorsOf(m, logged) /\ al \in AlNames /\ raw.at = Null
        /\ al = "plain" => n < USIZE
    BY <1>2, Views DEF IndInv, Good, raw_calloc
  <2>3. Replaced(o.m, m, Null, o.data, al, n, Zeros(n))
    BY <1>2, <2>2, CallocFacts
  <2>4. PICK want : want = Zeros(n)
    OBVIOUS
  <2>5. Expects(want, n, want)
    BY <2>4, ZerosFacts DEF Content, Expects
  <2>6. PICK S : S = Client(al, o.data, want)
    OBVIOUS
  <2>7. Replaced(o.m, m, Null, o.data, al, n, want)
    BY <2>3, <2>4
  <2>8. Obtained(o.m, m, Null, o.data, S, logged)
    BY <2>2, <2>5, <2>6, <2>7, RawSupplied
  <2>9. m' = o.m /\ raw' = S /\ UNCHANGED <<logged, arr, ret>>
    BY <2>1, <2>4, <2>6 DEF Obtains, RawOnly, Client
  <2> QED
    BY <2>2, <2>8, <2>9, RawStep
<1> QED
  BY <1>1, <1>2, <1>3 DEF raw_calloc

\* What is at the client's address.
RawIs(at, al, n, want) ==
  /\ raw = Client(al, at, want) /\ at = raw.at /\ al = raw.al /\ want = raw.want
  /\ at \in DOMAIN m.blocks /\ al \in AllocatorsOf(m, logged) /\ al \in AlNames
  /\ m.blocks[at] = [al |-> al, size |-> n] /\ RawSize = n /\ n \in Nat
  /\ DOMAIN want = 0 .. n - 1
  /\ \A i \in 0 .. n - 1 :
       want[i] \in Content /\ (want[i] # Uninit => m.bytes[at + i] = want[i])

LEMMA RawFacts ==
  ASSUME IndInv, raw.at # Null
  PROVE  \E at, al, n, want : RawIs(at, al, n, want)
<1>1. RawOK(m, raw, logged) /\ MemOK(m)
  BY DEF IndInv, Good
<1>2. PICK at, al, want : at = raw.at /\ al = raw.al /\ want = raw.want
  OBVIOUS
<1>3. /\ at \in DOMAIN m.blocks /\ al \in AllocatorsOf(m, logged) /\ al \in AlNames
      /\ m.blocks[at].al = al /\ raw = Client(al, at, want)
  BY <1>1, <1>2, Views DEF RawOK, Client
<1>4. PICK n \in Nat : n = m.blocks[at].size /\ m.blocks[at] = [al |-> al, size |-> n]
  BY <1>1, <1>3 DEF MemOK, BlockOK
<1>5. RawSize = n
  BY <1>2, <1>4 DEF RawSize
<1>6. /\ DOMAIN want = 0 .. n - 1
      /\ \A i \in 0 .. n - 1 :
           want[i] \in Content /\ (want[i] # Uninit => m.bytes[at + i] = want[i])
  BY <1>1, <1>2, <1>4 DEF RawOK
<1>7. RawIs(at, al, n, want)
  BY <1>2, <1>3, <1>4, <1>5, <1>6 DEF RawIs
<1> QED
  BY <1>7

LEMMA RawRealloc ==
  ASSUME IndInv, NEW n \in Nat, raw_realloc(n)
  PROVE  IndInv' /\ UNCHANGED <<seqs, ret>>
<1>1. raw.at # Null /\ n > 0
  BY DEF raw_realloc
<1>2. PICK at, al, old, had : RawIs(at, al, old, had)
  BY <1>1, RawFacts
<1>3. /\ at = raw.at /\ al = raw.al /\ had = raw.want
      /\ at \in DOMAIN m.blocks /\ al \in AllocatorsOf(m, logged) /\ al \in AlNames
      /\ m.blocks[at] = [al |-> al, size |-> old] /\ RawSize = old /\ old \in Nat
      /\ DOMAIN had = 0 .. old - 1
      /\ \A i \in 0 .. old - 1 :
           had[i] \in Content /\ (had[i] # Uninit => m.bytes[at + i] = had[i])
  BY <1>2 DEF RawIs
<1>4. CASE Refused(al, n)
  BY <1>4, RefusedStep DEF Refused
<1>5. PICK want : want = [i \in 0 .. n - 1 |-> IF i < old THEN had[i] ELSE Uninit]
  OBVIOUS
<1>6. CASE \E o \in nx_al_realloc(m, al, at, old, n) : Obtains(o, al, want)
  <2>1. PICK o \in nx_al_realloc(m, al, at, old, n) : Obtains(o, al, want)
    BY <1>6
  <2>2. MemOK(m) /\ n \in Nat \ {0} /\ old = m.blocks[at].size
    BY <1>1, <1>3 DEF IndInv, Good
  <2>3. PICK k \in Nat : k = Copied(old, n) /\ k <= old /\ k <= n /\ (k = old \/ k = n)
    BY <1>3 DEF Copied
  <2>4. PICK c : c = Bytes(m, at, k)
    OBVIOUS
  <2>5. Replaced(o.m, m, at, o.data, al, n, c)
    BY <2>1, <2>2, <2>3, <2>4, <1>3, ReallocFacts
  <2>6. Expects(want, n, c)
    <3>1. ASSUME NEW i \in 0 .. n - 1
          PROVE  want[i] \in Content /\ (want[i] # Uninit => i \in DOMAIN c /\ want[i] = c[i])
      <4>1. CASE i < old
        <5>1. i \in 0 .. k - 1 /\ i \in 0 .. old - 1
          BY <4>1, <2>3, <1>3
        <5>2. i \in DOMAIN c /\ c[i] = m.bytes[at + i]
          BY <5>1, <2>4 DEF Bytes
        <5> QED
          BY <4>1, <5>1, <5>2, <1>3, <1>5
      <4>2. CASE ~(i < old)
        BY <4>2, <1>5 DEF Content
      <4> QED
        BY <4>1, <4>2
    <3> QED
      BY <3>1, <1>5 DEF Expects
  <2>7. PICK S : S = Client(al, o.data, want)
    OBVIOUS
  <2>8. Obtained(o.m, m, at, o.data, S, logged)
    BY <2>5, <2>6, <2>7, <1>3, RawSupplied
  <2>9. m' = o.m /\ raw' = S /\ UNCHANGED <<logged, arr, ret>>
    BY <2>1, <2>7 DEF Obtains, RawOnly, Client
  <2> QED
    BY <1>3, <2>8, <2>9, RawStep
<1>7. /\ raw.al = al /\ raw.at = at /\ RawSize = old
      /\ [i \in 0 .. n - 1 |-> IF i < RawSize THEN raw.want[i] ELSE Uninit] = want
  BY <1>3, <1>5
<1> QED
  BY <1>4, <1>6, <1>7 DEF raw_realloc

LEMMA RawDealloc ==
  ASSUME IndInv, raw_dealloc
  PROVE  IndInv' /\ UNCHANGED <<seqs, ret>>
<1>1. /\ raw.at # Null /\ m' = nx_al_dealloc(m, raw.at) /\ raw' = NoRaw
      /\ UNCHANGED <<logged, arr, ret>>
  BY DEF raw_dealloc, RawOnly
<1>2. MemOK(m) /\ raw.at \in DOMAIN m.blocks \union {Null}
  BY <1>1 DEF IndInv, Good, RawOK
<1>3. Freed(m', m, raw.at)
  BY <1>1, <1>2, DeallocFacts
<1>4. Apart(m', m, raw.at, Null)
  BY <1>2, <1>3, FreedApart
<1>5. RawOK(m', raw', logged) /\ raw'.at = Null
  BY <1>1 DEF RawOK, NoRaw, AllocatorsOf
<1>6. Obtained(m', m, raw.at, Null, raw', logged)
  BY <1>4, <1>5 DEF Obtained
<1> QED
  BY <1>1, <1>6, RawStep

LEMMA RawFill ==
  ASSUME IndInv, NEW x \in Byte, raw_fill(x)
  PROVE  IndInv' /\ UNCHANGED <<seqs, ret>>
<1>1. raw.at # Null
  BY DEF raw_fill
<1>2. PICK at, al, n, had : RawIs(at, al, n, had)
  BY <1>1, RawFacts
<1>3. /\ raw = Client(al, at, had) /\ at = raw.at
      /\ at \in DOMAIN m.blocks /\ al \in AllocatorsOf(m, logged)
      /\ m.blocks[at] = [al |-> al, size |-> n] /\ RawSize = n /\ n \in Nat
  BY <1>2 DEF RawIs
<1>4. PICK c : c = [i \in 0 .. n - 1 |-> x]
  OBVIOUS
<1>5. Filling(c, n) /\ DOMAIN c = 0 .. n - 1 /\ Expects(c, n, c)
  BY <1>3, <1>4 DEF Filling, Content, Expects
<1>6. PICK S : S = Client(al, at, c)
  OBVIOUS
<1>7. m' = Written(m, at, c) /\ raw' = S /\ UNCHANGED <<logged, arr, ret>>
  <2>1. m' = Written(m, at, c) /\ UNCHANGED <<logged, arr, ret>>
    BY <1>3, <1>4 DEF raw_fill, RawOnly
  <2>2. raw' = [raw EXCEPT !.want = c]
    BY <1>3, <1>4 DEF raw_fill
  <2>3. [Client(al, at, had) EXCEPT !.want = c] = S
    BY <1>6 DEF Client
  <2> QED
    BY <2>1, <2>2, <2>3, <1>3
<1>8. MemOK(m)
  BY DEF IndInv, Good
<1>9. PICK N : N = m'
  OBVIOUS
<1>10. Replaced(N, m, at, at, al, n, c)
  BY <1>3, <1>5, <1>7, <1>8, <1>9, OverwrittenFacts
<1>11. Obtained(N, m, at, at, S, logged)
  <2>1. al \in AllocatorsOf(m, logged) /\ n \in Nat
    BY <1>3
  <2> QED
    BY <2>1, <1>5, <1>6, <1>10, RawSupplied
<1> QED
  BY <1>3, <1>7, <1>9, <1>11, RawStep

-----------------------------------------------------------------------------
(* Steps of the arena and the log.                                         *)

\* The client's arrays and its block, or what is left of it, use only what is left.
LEMMA RestStep ==
  ASSUME IndInv, MemOK(m'), DOMAIN m'.blocks \subseteq DOMAIN m.blocks,
         Kept(m', m, DOMAIN m'.blocks), logged' \in BOOLEAN, logged' => m'.cap # 0,
         \A h \in alive : /\ arr[h].al \in AllocatorsOf(m', logged')
                          /\ arr[h].data # Null => arr[h].data \in DOMAIN m'.blocks,
         \/ raw' = raw /\ (raw.at # Null => raw.at \in DOMAIN m'.blocks)
         \/ raw' = NoRaw /\ raw.at \notin DOMAIN m'.blocks,
         raw'.al \in AllocatorsOf(m', logged'),
         UNCHANGED <<arr, ret>>
  PROVE  IndInv' /\ UNCHANGED <<seqs, ret>>
<1>1. Good(m, arr, raw, logged)
  BY DEF IndInv
<1>2. PICK N, K, S : N = m' /\ K = logged' /\ S = raw'
  OBVIOUS
<1>3. /\ MemOK(N) /\ DOMAIN N.blocks \subseteq DOMAIN m.blocks /\ Kept(N, m, DOMAIN N.blocks)
      /\ K \in BOOLEAN /\ (K => N.cap # 0)
      /\ \A h \in DOMAIN arr : /\ arr[h].al \in AllocatorsOf(N, K)
                               /\ arr[h].data # Null => arr[h].data \in DOMAIN N.blocks
      /\ \/ S = raw /\ (raw.at # Null => raw.at \in DOMAIN N.blocks)
         \/ S = NoRaw /\ raw.at \notin DOMAIN N.blocks
      /\ S.al \in AllocatorsOf(N, K)
  BY <1>2 DEF alive
<1>4. Good(N, arr, S, K)
  BY <1>1, <1>3, GoodRest
<1>5. Seqs(N, arr) = Seqs(m, arr)
  BY <1>1, <1>3, SeqsRest
<1> QED
  BY <1>2, <1>4, <1>5, SeqsPrimed, Views DEF IndInv

\* What is in use before a step.
LEMMA InUse ==
  ASSUME IndInv
  PROVE  /\ MemOK(m) /\ logged \in BOOLEAN /\ (logged => m.cap # 0)
         /\ \A h \in alive : /\ arr[h].al \in AllocatorsOf(m, logged)
                             /\ arr[h].data # Null => /\ arr[h].data \in DOMAIN m.blocks
                                                      /\ m.blocks[arr[h].data].al = arr[h].al
         /\ raw.al \in AllocatorsOf(m, logged) /\ raw.at \in Nat \union {Null}
         /\ raw.at # Null => raw.at \in DOMAIN m.blocks /\ m.blocks[raw.at].al = raw.al
<1>1. ASSUME NEW h \in alive
      PROVE  /\ arr[h].al \in AllocatorsOf(m, logged)
             /\ arr[h].data # Null => /\ arr[h].data \in DOMAIN m.blocks
                                      /\ m.blocks[arr[h].data].al = arr[h].al
  <2>1. arr[h] \in Structs(m, logged) /\ Holds(m, arr[h])
    BY DEF IndInv, Good, ArraysOK, alive
  <2> QED
    BY <2>1 DEF Structs, Holds
<1> QED
  BY <1>1 DEF IndInv, Good, RawOK

LEMMA ArenaNew ==
  ASSUME IndInv, NEW cap \in Caps, arena_new(cap)
  PROVE  IndInv' /\ UNCHANGED <<seqs, ret>>
<1>1. m.cap = 0 /\ m' = WithArena(m, cap) /\ UNCHANGED <<logged, arr, raw, ret>>
  BY DEF arena_new, WithArena
<1>2. PICK N : N = m'
  OBVIOUS
<1>3. MemOK(N) /\ N.cap = cap /\ cap # 0 /\ N.blocks = m.blocks /\ Kept(N, m, DOMAIN N.blocks)
  BY <1>1, <1>2, InUse, NewArena
<1>4. AllocatorsOf(m, logged) \subseteq AllocatorsOf(N, logged)
  BY <1>1, <1>3 DEF AllocatorsOf
<1> QED
  BY <1>1, <1>2, <1>3, <1>4, InUse, RestStep

LEMMA ArenaDrop ==
  ASSUME IndInv, arena_drop
  PROVE  IndInv' /\ UNCHANGED <<seqs, ret>>
<1>1. /\ ~logged /\ Keeps("arena") /\ Keeps("plain") /\ UNCHANGED <<logged, arr, raw, ret>>
      /\ m' = [m EXCEPT !.cap = 0, !.offset = 0, !.bytes = FromLibc(@), !.blocks = FromLibc(@)]
  BY DEF arena_drop
<1>2. m' = OnlyLibc(m, 0, FromLibc(m.bytes))
  BY <1>1 DEF OnlyLibc
<1>3. PICK N, y, cap : N = m' /\ y = FromLibc(m.bytes) /\ cap = 0
  OBVIOUS
<1>4. N = OnlyLibc(m, cap, y) /\ y \in {m.bytes, FromLibc(m.bytes)} /\ cap \in {0, m.cap}
  BY <1>2, <1>3
<1>5. /\ MemOK(N) /\ N.cap = cap
      /\ DOMAIN N.blocks = { b \in DOMAIN m.blocks : m.blocks[b].al = "libc" }
      /\ Kept(N, m, DOMAIN N.blocks)
  BY <1>4, InUse, LibcRemains
<1>6. \A al \in AllocatorsOf(m, logged) : al # "arena" /\ al # "plain" => al = "libc"
  BY <1>1 DEF AllocatorsOf
<1>7. "libc" \in AllocatorsOf(N, logged)
  BY DEF AllocatorsOf
<1>8. /\ \A h \in alive : arr[h].al = "libc"
      /\ raw.al = "libc"
  BY <1>1, <1>6, InUse DEF Keeps
<1>9. /\ \A h \in alive : /\ arr[h].al \in AllocatorsOf(N, logged)
                          /\ arr[h].data # Null => arr[h].data \in DOMAIN N.blocks
      /\ raw.al \in AllocatorsOf(N, logged) /\ (raw.at # Null => raw.at \in DOMAIN N.blocks)
  BY <1>5, <1>7, <1>8, InUse
<1>10. DOMAIN N.blocks \subseteq DOMAIN m.blocks
  BY <1>5
<1> QED
  BY <1>1, <1>3, <1>5, <1>9, <1>10, InUse, RestStep

LEMMA ArenaReset ==
  ASSUME IndInv, arena_reset
  PROVE  IndInv' /\ UNCHANGED <<seqs, ret>>
<1>1. /\ UNCHANGED <<logged, arr, ret>>
      /\ \A h \in alive : arr[h].al # "libc" => arr[h].data = Null
      /\ m' = [m EXCEPT !.offset = 0, !.blocks = FromLibc(@)]
      /\ raw' = IF raw.al = "libc" THEN raw ELSE NoRaw
  BY DEF arena_reset
<1>2. m' = OnlyLibc(m, m.cap, m.bytes)
  <2>1. PICK cap, off, by, bl : m = [cap |-> cap, offset |-> off, bytes |-> by, blocks |-> bl]
    BY InUse DEF MemOK
  <2>2. m.cap = cap /\ m.bytes = by /\ m.blocks = bl
    BY <2>1
  <2>3. PICK z : z = FromLibc(bl)
    OBVIOUS
  <2>4. m' = [cap |-> cap, offset |-> 0, bytes |-> by, blocks |-> z]
    <3>1. m' = [m EXCEPT !.offset = 0, !.blocks = z]
      BY <1>1, <2>2, <2>3
    <3> QED
      BY <3>1, <2>1
  <2>5. OnlyLibc(m, cap, by) = [cap |-> cap, offset |-> 0, bytes |-> by, blocks |-> z]
    <3>1. OnlyLibc(m, cap, by) = [m EXCEPT !.cap = cap, !.offset = 0, !.bytes = by, !.blocks = z]
      BY <2>2, <2>3 DEF OnlyLibc
    <3> QED
      BY <3>1, <2>1
  <2> QED
    BY <2>2, <2>4, <2>5
<1>3. PICK N, y, cap : N = m' /\ y = m.bytes /\ cap = m.cap
  OBVIOUS
<1>4. N = OnlyLibc(m, cap, y) /\ y \in {m.bytes, FromLibc(m.bytes)} /\ cap \in {0, m.cap}
  BY <1>2, <1>3
<1>5. /\ MemOK(N) /\ N.cap = cap
      /\ DOMAIN N.blocks = { b \in DOMAIN m.blocks : m.blocks[b].al = "libc" }
      /\ Kept(N, m, DOMAIN N.blocks)
  BY <1>4, InUse, LibcRemains
<1>6. AllocatorsOf(N, logged) = AllocatorsOf(m, logged) /\ "libc" \in AllocatorsOf(N, logged)
  BY <1>3, <1>5 DEF AllocatorsOf
<1>7. \A h \in alive : /\ arr[h].al \in AllocatorsOf(N, logged)
                       /\ arr[h].data # Null => arr[h].data \in DOMAIN N.blocks
  BY <1>1, <1>5, <1>6, InUse
<1>8. /\ \/ raw' = raw /\ (raw.at # Null => raw.at \in DOMAIN N.blocks)
         \/ raw' = NoRaw /\ raw.at \notin DOMAIN N.blocks
      /\ raw'.al \in AllocatorsOf(N, logged)
  <2>1. CASE raw.al = "libc"
    BY <2>1, <1>1, <1>5, <1>6, InUse
  <2>2. CASE raw.al # "libc"
    <3>1. raw' = NoRaw /\ raw'.al = "libc"
      BY <2>2, <1>1 DEF NoRaw
    <3>2. Null \notin DOMAIN m.blocks
      BY InUse DEF MemOK, BlockOK, Null
    <3>3. raw.at \notin DOMAIN N.blocks
      BY <2>2, <3>2, <1>5, InUse
    <3> QED
      BY <3>1, <3>3, <1>6
  <2> QED
    BY <2>1, <2>2
<1>9. DOMAIN N.blocks \subseteq DOMAIN m.blocks /\ (logged => N.cap # 0)
  BY <1>3, <1>5, InUse
<1> QED
  BY <1>1, <1>3, <1>5, <1>7, <1>8, <1>9, InUse, RestStep

LEMMA LogSteps ==
  ASSUME IndInv, log_new \/ log_drop
  PROVE  IndInv' /\ UNCHANGED <<seqs, ret>>
<1>1. /\ UNCHANGED <<m, arr, raw, ret>> /\ logged' \in BOOLEAN /\ (logged' => m.cap # 0)
      /\ \A al \in AllocatorsOf(m, logged) : al \in AllocatorsOf(m, logged') \/ (al = "log" /\ Keeps("log"))
  BY InUse DEF log_new, log_drop, AllocatorsOf
<1>2. /\ \A h \in alive : arr[h].al \in AllocatorsOf(m, logged')
      /\ raw.al \in AllocatorsOf(m, logged')
  BY <1>1, InUse DEF Keeps
<1>3. Kept(m, m, DOMAIN m.blocks)
  BY DEF Kept
<1> QED
  BY <1>1, <1>2, <1>3, InUse, RestStep

-----------------------------------------------------------------------------
(* The invariant.                                                          *)

LEMMA InitInv == Init => IndInv /\ Arrays!Init
<1> SUFFICES ASSUME Init PROVE IndInv /\ Arrays!Init
  OBVIOUS
<1>1. m = NoMemory /\ logged = FALSE /\ raw = NoRaw /\ ret = "ok" /\ DOMAIN arr = {}
  BY DEF Init
<1>2. /\ m = [cap |-> m.cap, offset |-> m.offset, bytes |-> m.bytes, blocks |-> m.blocks]
      /\ m.cap = 0 /\ m.offset = 0 /\ DOMAIN m.bytes = {} /\ DOMAIN m.blocks = {}
      /\ m.blocks = [b \in DOMAIN m.blocks |-> m.blocks[b]]
      /\ m.bytes \in [DOMAIN m.bytes -> Content]
  BY <1>1 DEF NoMemory
<1>3. 0 % ALIGN = 0
  BY ArenaAssumption
<1>4. MemOK(m)
  BY <1>2, <1>3 DEF MemOK
<1>5. ArraysOK(m, arr, logged)
  <2>1. arr \in [DOMAIN arr -> Structs(m, logged)]
    BY <1>1 DEF Init
  <2> QED
    BY <1>1, <2>1 DEF ArraysOK
<1>6. RawOK(m, raw, logged)
  BY <1>1 DEF RawOK, NoRaw, AllocatorsOf
<1>7. OwnersOK(m, arr, raw)
  BY <1>1, <1>2 DEF OwnersOK
<1>8. IndInv
  BY <1>1, <1>4, <1>5, <1>6, <1>7 DEF IndInv, Good
<1>9. seqs = [h \in {} |-> <<>>]
  BY <1>1 DEF seqs, alive
<1> QED
  BY <1>1, <1>8, <1>9 DEF Arrays!Init

LEMMA StepInv == IndInv /\ [Next]_arrVars => IndInv' /\ [Arrays!Next]_<<seqs, ret>>
<1> SUFFICES ASSUME IndInv, [Next]_arrVars PROVE IndInv' /\ (Arrays!Next \/ UNCHANGED <<seqs, ret>>)
  OBVIOUS
<1>1. CASE UNCHANGED arrVars
  <2>1. UNCHANGED <<m, logged, arr, raw, ret>>
    BY <1>1 DEF arrVars
  <2>2. IndInv'
    BY <2>1 DEF IndInv
  <2>3. seqs' = seqs
    BY <2>1, SeqsPrimed, Views
  <2> QED
    BY <2>1, <2>2, <2>3
<1>2. CASE \E h \in Arr \ alive :
             \/ \E al \in Allocators \cap ArrAl :
                  \/ \E len \in Lens : new_p(h, len, al)
                  \/ \E g \in alive : copy_a(h, g, al)
             \/ \E g \in alive : move(h, g) \/ from_data(h, data(g), arr[g].len)
  BY <1>2, NewP, CopyA, Move, FromData
<1>3. CASE \E h \in alive :
             \/ drop(h)
             \/ \E g \in alive : copy_assign(h, g) \/ move_assign(h, g) \/ swap(h, g)
             \/ \E i \in 0 .. arr[h].len - 1, x \in Elem : set(h, i, x)
  BY <1>3, Drop, CopyAssign, MoveAssign, Swap, SetOne
<1>4. CASE \E al \in Allocators \cap RawAl :
             \/ \E n \in Sizes : raw_alloc(al, n)
             \/ \E p \in Callocs : raw_calloc(al, p[1], p[2])
  <2>1. Sizes \subseteq Nat /\ \A p \in Callocs : p[1] \in Nat /\ p[2] \in Nat
    BY ArrAssumption, ArenaAssumption
  <2> QED
    BY <1>4, <2>1, RawAlloc, RawCalloc
<1>5. CASE (\E n \in Sizes : raw_realloc(n)) \/ raw_dealloc \/ \E x \in Byte : raw_fill(x)
  <2>1. Sizes \subseteq Nat
    BY ArrAssumption, ArenaAssumption
  <2> QED
    BY <1>5, <2>1, RawRealloc, RawDealloc, RawFill
<1>6. CASE (\E cap \in Caps : arena_new(cap)) \/ arena_drop \/ arena_reset \/ log_new \/ log_drop
  BY <1>6, ArenaNew, ArenaDrop, ArenaReset, LogSteps
<1> QED
  BY <1>1, <1>2, <1>3, <1>4, <1>5, <1>6 DEF Next

\* Every reachable state satisfies the invariant.
THEOREM Invariance == Spec => []IndInv
<1>1. Init => IndInv
  BY InitInv
<1>2. IndInv /\ [Next]_arrVars => IndInv'
  BY StepInv
<1> QED
  BY <1>1, <1>2, PTL DEF Spec

-----------------------------------------------------------------------------
(* What follows from it.                                                   *)

LEMMA InvTypeOK == IndInv => TypeOK
<1> SUFFICES ASSUME IndInv PROVE TypeOK
  OBVIOUS
<1>1. MemOK(m) /\ ArraysOK(m, arr, logged)
  BY DEF IndInv, Good
<1>2. \A b \in DOMAIN m.blocks : m.blocks[b].size \in Nat \ {0}
  BY <1>1 DEF MemOK, BlockOK
<1>3. \A i \in DOMAIN m.bytes : i \in Nat /\ m.bytes[i] \in Byte \union {Zero, Uninit}
  BY <1>1 DEF MemOK, Content
<1>4. \A h \in alive : arr[h].len \in Nat /\ (arr[h].len = 0 <=> arr[h].data = Null)
  BY <1>1 DEF ArraysOK, Structs, Holds, alive
<1> QED
  BY <1>1, <1>2, <1>3, <1>4 DEF TypeOK, IndInv, Good, MemOK, ArraysOK, alive

LEMMA InvBlocksApart == IndInv => BlocksApart
<1> SUFFICES ASSUME IndInv, NEW b \in DOMAIN m.blocks
             PROVE  /\ b % ALIGN = 0 /\ b .. b + m.blocks[b].size - 1 \subseteq DOMAIN m.bytes
                    /\ InArena(b) => b + m.blocks[b].size <= m.offset
                    /\ \A c \in DOMAIN m.blocks : b < c => b + m.blocks[b].size <= c
  BY DEF BlocksApart
<1>1. MemOK(m) /\ BlockOK(m, b)
  BY DEF IndInv, Good, MemOK
<1>2. InArena(b) => m.blocks[b].al # "libc"
  BY <1>1, ArenaBlocks
<1> QED
  BY <1>1, <1>2 DEF MemOK, BlockOK

LEMMA InvOneOwner == IndInv => OneOwner
<1> SUFFICES ASSUME IndInv PROVE OneOwner
  OBVIOUS
<1>1. MemOK(m) /\ ArraysOK(m, arr, logged) /\ OwnersOK(m, arr, raw)
  BY DEF IndInv, Good
<1>2. ASSUME NEW h \in alive, arr[h].data # Null
      PROVE  /\ arr[h].data \in DOMAIN m.blocks /\ arr[h].data # raw.at
             /\ m.blocks[arr[h].data] = [al |-> arr[h].al, size |-> arr[h].len * TSZ]
             /\ arr[h].al \in Allocators
             /\ \A g \in alive : arr[g].data = arr[h].data => g = h
  <2>1. Holds(m, arr[h]) /\ arr[h] \in Structs(m, logged)
    BY <1>1 DEF ArraysOK, alive
  <2>2. arr[h].al \in Allocators
    BY <2>1, Views DEF Structs
  <2>3. arr[h].data # raw.at /\ \A g \in alive : arr[g].data = arr[h].data => g = h
    BY <1>1, <1>2 DEF ArraysOK, OwnersOK, alive
  <2> QED
    BY <1>2, <2>1, <2>2, <2>3 DEF Holds
<1>3. \A b \in DOMAIN m.blocks : ~InArena(b) => b = raw.at \/ \E h \in alive : arr[h].data = b
  BY <1>1, ArenaBlocks DEF OwnersOK, alive
<1> QED
  BY <1>2, <1>3 DEF OneOwner

LEMMA InvRawKept == IndInv => RawKept
<1> SUFFICES ASSUME IndInv, raw.at # Null
             PROVE  /\ raw.at \in DOMAIN m.blocks /\ m.blocks[raw.at].al = raw.al
                    /\ DOMAIN raw.want = 0 .. RawSize - 1
                    /\ \A i \in DOMAIN raw.want :
                         raw.want[i] # Uninit => m.bytes[raw.at + i] = raw.want[i]
  BY DEF RawKept
<1>1. PICK at, al, n, want : RawIs(at, al, n, want)
  BY RawFacts
<1>2. /\ at = raw.at /\ al = raw.al /\ want = raw.want
      /\ at \in DOMAIN m.blocks /\ m.blocks[at] = [al |-> al, size |-> n] /\ RawSize = n
      /\ DOMAIN want = 0 .. n - 1
      /\ \A i \in 0 .. n - 1 : want[i] # Uninit => m.bytes[at + i] = want[i]
  BY <1>1 DEF RawIs
<1>3. m.blocks[at].al = al
  BY <1>2
<1> QED
  BY <1>2, <1>3

\* Each field has its type, the arena's offset is aligned and in range, and
\* arr_assert_impl holds of each array between calls.
THEOREM TypeCorrect == Spec => []TypeOK
BY Invariance, InvTypeOK, PTL

\* alloc_arena.c: the blocks that are valid lie apart, aligned, and in their
\* buffer, whatever sizes are asked for and however often the arena is reset.
THEOREM BlocksApartHolds == Spec => []BlocksApart
BY Invariance, InvBlocksApart, PTL

\* arr.c: each array has a valid block of its size to itself, from the allocator
\* that it gives it back to, and no block of libc is lost.
THEOREM OneOwnerHolds == Spec => []OneOwner
BY Invariance, InvOneOwner, PTL

\* alloc.c: a block keeps what its client wrote and the zeros of calloc, through
\* realloc and through all that others do with the same allocators.
THEOREM RawKeptHolds == Spec => []RawKept
BY Invariance, InvRawKept, PTL

\* arr.h: arrays are sequences that nothing but their own calls changes, and a
\* call that fails has changed none.
THEOREM ImplementsArraysHolds == Spec => ImplementsArrays
<1>1. Init => Arrays!Init
  BY InitInv
<1>2. IndInv /\ [Next]_arrVars => [Arrays!Next]_<<seqs, ret>>
  BY StepInv
<1> QED
  BY <1>1, <1>2, Invariance, PTL DEF Spec, ImplementsArrays, Arrays!Spec, Arrays!arrayVars
=============================================================================
