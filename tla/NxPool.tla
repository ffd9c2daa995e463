------------------------------- MODULE NxPool -------------------------------
(***************************************************************************)
(* src/mem/alloc_pool.c, called through the wrappers of src/mem/alloc.c:   *)
(* a pool of equal blocks whose free blocks form a list that runs through  *)
(* their own first words, the words a client overwrites once it holds the  *)
(* block.                                                                  *)
(*                                                                         *)
(* The constructor is split at its three calls of malloc and the loop that *)
(* builds the list at its iterations; alloc, calloc, realloc, dealloc run  *)
(* without a loop and are one step each.  A block is named by its index    *)
(* and only its first word is kept.  The client frees and resizes only     *)
(* blocks it holds ("ptr must have been allocated from this pool").        *)
(*                                                                         *)
(* A definition named X_..., right before X and used by nothing, is X with *)
(* a bug someone could write: it shows that a property can fail.           *)
(***************************************************************************)
EXTENDS Integers, FiniteSets

CONSTANTS
  Null, Junk,   \* the null pointer; a word that is no pointer of this pool
  USIZE,        \* 2^w, the number of values of nx_usize
  ALIGN,        \* POOL_ALIGNMENT
  WORD,         \* sizeof(PoolNode)
  BlockSizes, BlockCounts,  \* arguments of nx_al_pool_new
  Sizes, Nums               \* arguments of alloc, calloc and realloc

ASSUME WordAssumption == Null \notin Nat /\ Junk \notin Nat /\ Null # Junk
ASSUME SizesAssumption ==
  /\ USIZE \in Nat \ {0} /\ ALIGN \in Nat \ {0} /\ WORD \in 1 .. ALIGN
  /\ BlockSizes \subseteq 1 .. USIZE - 1 /\ BlockCounts \subseteq 1 .. USIZE - 1
  /\ Sizes \subseteq 0 .. USIZE - 1 /\ Nums \subseteq 0 .. USIZE - 1

VARIABLES
  block_size, block_count, free_head, used,  \* the fields of nx_AlPoolCtx
  mem,      \* the first word of each block of data
  heap,     \* which of the three mallocs of the pool are outstanding
  pc, i,    \* "none", "data", "build", "al" inside new, "idle"; the loop index
  live,     \* ghost: the bytes asked for, for each block the client holds
  asked,    \* ghost: the block_size argument of new
  ret       \* ghost: bytes the last call asked for, and the pointer returned

fields == <<block_size, block_count, free_head, used>>
vars   == <<block_size, block_count, free_head, used, mem, heap, pc, i, live, asked, ret>>

Block == 0 .. block_count - 1
Word  == Block \union {Null, Junk}
Held  == DOMAIN live
NoneHeld == [b \in {} |-> 0]
NoMem    == [b \in {} |-> Junk]

Answer(n, p) == ret' = [n |-> n, p |-> p]

\* val + alignment - 1 may wrap.
align_up(val, a) == (((val + a - 1) % USIZE) \div a) * a

Init ==
  /\ block_size = 0 /\ block_count = 0 /\ free_head = Null /\ used = 0
  /\ mem = NoMem /\ heap = {} /\ pc = "none" /\ i = 0
  /\ live = NoneHeld /\ asked = 0 /\ ret = [n |-> 0, p |-> Null]

-----------------------------------------------------------------------------
(* nx_al_pool_new and nx_al_pool_drop.                                     *)

pool_new(size, count) ==
  /\ pc = "none" /\ pc' = "data" /\ heap' = {"ctx"}
  /\ block_size' = align_up(IF size < WORD THEN WORD ELSE size, ALIGN)
  /\ block_count' = count /\ asked' = size
  /\ UNCHANGED <<free_head, used, mem, i, live, ret>>

\* The constructor gives up and frees what it has (freed).
GiveUp(freed) ==
  /\ pc' = "none" /\ heap' = heap \ freed
  /\ block_size' = 0 /\ block_count' = 0 /\ free_head' = Null /\ used' = 0
  /\ mem' = NoMem /\ i' = 0 /\ live' = NoneHeld /\ asked' = 0 /\ Answer(0, Null)

TooLarge == block_size * block_count >= USIZE

new_overflows  == pc = "data" /\ TooLarge  /\ GiveUp({"ctx"})
new_data_fails == pc = "data" /\ ~TooLarge /\ GiveUp({"ctx"})
new_al_fails_leaking == pc = "al" /\ GiveUp({"ctx"})

new_al_fails   == pc = "al" /\ GiveUp({"data", "ctx"})

new_data ==
  /\ pc = "data" /\ ~TooLarge
  /\ heap' = heap \union {"data"} /\ mem' = [b \in Block |-> Junk]
  /\ used' = 0 /\ free_head' = Null /\ pc' = "build" /\ i' = block_count
  /\ UNCHANGED <<block_size, block_count, live, asked, ret>>

new_al ==
  /\ pc = "al" /\ pc' = "idle" /\ heap' = heap \union {"al"} /\ Answer(0, Null)
  /\ UNCHANGED <<fields, mem, i, live, asked>>

drop == pc = "idle" /\ GiveUp({"data", "ctx", "al"})

-----------------------------------------------------------------------------
(* pool_build_free_list, for new and for reset.                            *)

build_links ==
  /\ pc = "build" /\ i > 0
  /\ mem' = [mem EXCEPT ![i - 1] = free_head] /\ free_head' = i - 1 /\ i' = i - 1
  /\ UNCHANGED <<block_size, block_count, used, heap, pc, live, asked, ret>>

build_ends ==
  /\ pc = "build" /\ i = 0
  /\ pc' = IF "al" \in heap THEN "idle" ELSE "al"
  /\ UNCHANGED <<fields, mem, heap, i, live, asked, ret>>

reset_keeps_used ==
  /\ pc = "idle" /\ pc' = "build" /\ i' = block_count
  /\ free_head' = Null /\ live' = NoneHeld /\ Answer(0, Null)
  /\ UNCHANGED <<block_size, block_count, used, mem, heap, asked>>

reset_in_place ==
  /\ pc = "idle" /\ used' = 0 /\ live' = NoneHeld /\ Answer(0, Null)
  /\ UNCHANGED <<block_size, block_count, free_head, mem, heap, pc, i, asked>>

reset ==
  /\ pc = "idle" /\ pc' = "build" /\ i' = block_count
  /\ used' = 0 /\ free_head' = Null /\ live' = NoneHeld /\ Answer(0, Null)
  /\ UNCHANGED <<block_size, block_count, mem, heap, asked>>

-----------------------------------------------------------------------------
(* Serving requests.                                                       *)

Refuses(n) == n = 0 \/ n > block_size \/ free_head = Null

refuse(n) ==
  /\ pc = "idle" /\ Refuses(n) /\ Answer(n, Null)
  /\ UNCHANGED <<fields, mem, heap, pc, i, live, asked>>

\* The block at the head of the list goes to the client, who asked for n bytes
\* and finds the word w in it.
Hand(n, w) ==
  /\ pc = "idle" /\ ~Refuses(n)
  /\ free_head' = mem[free_head] /\ used' = used + 1
  /\ mem' = [mem EXCEPT ![free_head] = w]
  /\ live' = [b \in Held \union {free_head} |-> IF b = free_head THEN n ELSE live[b]]
  /\ Answer(n, free_head)
  /\ UNCHANGED <<block_size, block_count, heap, pc, i, asked>>

pool_alloc(n) == refuse(n) \/ Hand(n, mem[free_head])

\* memset clears num * size bytes, perhaps fewer than a word.
pool_calloc(num, size) ==
  LET total == num * size IN
    IF total >= USIZE
    THEN /\ pc = "idle" /\ Answer(total, Null)
         /\ UNCHANGED <<fields, mem, heap, pc, i, live, asked>>
    ELSE \/ refuse(total)
         \/ \E w \in Word : (total >= WORD => w = Null) /\ Hand(total, w)

pool_dealloc_unlinked(b) ==
  /\ pc = "idle"
  /\ free_head' = b /\ used' = used - 1
  /\ live' = [c \in Held \ {b} |-> live[c]] /\ Answer(0, Null)
  /\ UNCHANGED <<block_size, block_count, mem, heap, pc, i, asked>>

pool_dealloc(b) ==
  /\ pc = "idle"
  /\ mem' = [mem EXCEPT ![b] = free_head] /\ free_head' = b /\ used' = used - 1
  /\ live' = [c \in Held \ {b} |-> live[c]] /\ Answer(0, Null)
  /\ UNCHANGED <<block_size, block_count, heap, pc, i, asked>>

\* memcpy after the old block was put back on the list.
Moves_copying_late(b, n) ==
  /\ pc = "idle" /\ ~Refuses(n)
  /\ mem' = [mem EXCEPT ![free_head] = mem[free_head], ![b] = mem[free_head]]
  /\ free_head' = b
  /\ live' = [c \in (Held \ {b}) \union {free_head} |-> IF c = free_head THEN n ELSE live[c]]
  /\ Answer(n, free_head)
  /\ UNCHANGED <<block_size, block_count, used, heap, pc, i, asked>>

\* nx_al_realloc without a realloc callback, of a block the client holds: take
\* the block at the head, copy, and put b back.
Moves(b, n) ==
  /\ pc = "idle" /\ ~Refuses(n)
  /\ \E w \in Word :
       /\ n >= WORD /\ live[b] >= WORD => w = mem[b]
       /\ mem' = [mem EXCEPT ![free_head] = w, ![b] = mem[free_head]]
  /\ free_head' = b
  /\ live' = [c \in (Held \ {b}) \union {free_head} |-> IF c = free_head THEN n ELSE live[c]]
  /\ Answer(n, free_head)
  /\ UNCHANGED <<block_size, block_count, used, heap, pc, i, asked>>

nx_al_realloc(b, n) ==
  IF n = 0 THEN pool_dealloc(b) ELSE refuse(n) \/ Moves(b, n)

\* The client writes the first word of a block it holds.
write(b, w) ==
  /\ pc = "idle" /\ live[b] >= WORD
  /\ mem' = [mem EXCEPT ![b] = w]
  /\ UNCHANGED <<fields, heap, pc, i, live, asked, ret>>

Next ==
  \/ \E s \in BlockSizes, c \in BlockCounts : pool_new(s, c)
  \/ new_overflows \/ new_data_fails \/ new_data \/ new_al_fails \/ new_al \/ drop
  \/ build_links \/ build_ends \/ reset
  \/ \E n \in Sizes : pool_alloc(n)
  \/ \E m \in Nums, n \in Sizes : pool_calloc(m, n)
  \/ \E b \in Held : pool_dealloc(b) \/ (\E w \in Word : write(b, w))
  \/ \E b \in Held, n \in Sizes : nx_al_realloc(b, n)

Spec == Init /\ [][Next]_vars

-----------------------------------------------------------------------------
(* Correctness.                                                            *)

\* Every field and local has its type.  The head of the list is a block or
\* null, never a word a client wrote.
TypeOK ==
  /\ block_size \in Nat /\ block_count \in Nat /\ used \in Nat
  /\ free_head \in Block \union {Null}
  /\ mem \in [(IF "data" \in heap THEN Block ELSE {}) -> Word]
  /\ heap \subseteq {"ctx", "data", "al"}
  /\ pc \in {"none", "data", "build", "al", "idle"} /\ i \in 0 .. block_count
  /\ Held \subseteq Block /\ live \in [Held -> Nat \ {0}]
  /\ asked \in Nat /\ ret.n \in Nat /\ ret.p \in Word

\* The blocks the list should hold, and how many there are.
Listed  == IF pc = "build" THEN i .. block_count - 1 ELSE Block \ Held
listLen == IF pc = "build" THEN block_count - i ELSE block_count - used

\* The list from h through the words m is made of the n blocks of L, each once,
\* and ends: they can be numbered so that the head has the highest number, each
\* block links to the one numbered just below, and block number 0 to null.
IsNumbering(r, L, m, h, n) ==
  /\ \A b, c \in L : r[b] = r[c] => b = c
  /\ \A b \in L : IF r[b] = 0 THEN m[b] = Null
                  ELSE m[b] \in L /\ r[m[b]] = r[b] - 1
  /\ IF n = 0 THEN h = Null ELSE h \in L /\ r[h] = n - 1
IsList(L, m, h, n) == \E r \in [L -> 0 .. n - 1] : IsNumbering(r, L, m, h, n)

\* The free list holds exactly the free blocks, each once, whatever words the
\* client writes into its own; while it is built, the blocks linked so far.
FreeListExact ==
  pc \in {"build", "al", "idle"} => IsList(Listed, mem, free_head, listLen)

\* used is the number of blocks the client holds, so that the assertion
\* used > 0 of pool_dealloc never fails.
UsedCounts == used = Cardinality(Held)

\* A constructor that fails, at whichever malloc, leaves nothing allocated; so
\* does drop.
NothingLeaks == pc = "none" => heap = {}

\* "usable size per block (will be aligned up, minimum sizeof(void *))".
UsableSize == pc = "idle" => block_size >= asked

\* The pool implements NxBlocks.
sizes  == IF pc = "idle" \/ (pc = "build" /\ "al" \in heap)
          THEN [asked |-> asked, size |-> block_size, count |-> block_count]
          ELSE [asked |-> 0, size |-> 0, count |-> 0]
blocks == [b \in Held |-> [n |-> live[b], w |-> mem[b]]]
Blocks == INSTANCE NxBlocks WITH pool <- sizes, held <- blocks, out <- ret
ImplementsBlocks == Blocks!Spec

-----------------------------------------------------------------------------
(* The inductive invariant behind these.                                   *)

\* What is allocated, and held, at each place of the code.
PlaceOK ==
  /\ pc = "none" => heap = {} /\ block_count = 0
  /\ pc = "data" => heap = {"ctx"}
  /\ pc = "build" => heap \in {{"ctx", "data"}, {"ctx", "data", "al"}}
  /\ pc = "al" => heap = {"ctx", "data"}
  /\ pc = "idle" => heap = {"ctx", "data", "al"}
  /\ pc # "idle" => Held = {}
IndInv == TypeOK /\ PlaceOK /\ UsedCounts /\ FreeListExact
=============================================================================
