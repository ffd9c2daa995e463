------------------------------ MODULE NxBlocks ------------------------------
(***************************************************************************)
(* What include/nx/mem/alloc_pool.h and alloc.h promise of a block pool:   *)
(* a fixed number of blocks of one size, each held by the client or free;  *)
(* a request is refused only when it is for nothing, for more than a block *)
(* holds, or when no block is free; and the word a client wrote into a     *)
(* block it holds stays there until the client writes again or gives the   *)
(* block back.                                                             *)
(***************************************************************************)
EXTENDS Integers

CONSTANTS
  Null,      \* the null pointer, also the word of all zeros
  Junk,      \* a word that is no pointer into the pool
  WORD,      \* sizeof(void *)
  ALIGN      \* alignof(max_align_t)

VARIABLES pool,   \* the sizes the pool was made with, NoPool when there is none
          held,   \* for each block the client holds: bytes asked for, first word
          out     \* bytes the last call asked for, and the pointer it returned

blockVars == <<pool, held, out>>

NoPool  == [asked |-> 0, size |-> 0, count |-> 0]
NoneHeld == [b \in {} |-> [n |-> 0, w |-> Null]]

Answer(n, p) == out' = [n |-> n, p |-> p]
live         == DOMAIN held
Block        == 0 .. pool.count - 1
Word         == Block \union {Null, Junk}   \* what a block's first word may be
Refuses(n)   == n = 0 \/ n > pool.size \/ live = Block

Init == pool = NoPool /\ held = NoneHeld /\ out = [n |-> 0, p |-> Null]

\* The blocks are at least as large as asked, can hold a pointer, and are
\* rounded up to the alignment by less than ALIGN bytes.
Open ==
  /\ pool = NoPool /\ pool'.count > 0
  /\ LET need == IF pool'.asked < WORD THEN WORD ELSE pool'.asked IN
       pool'.size \in need .. need + ALIGN - 1 /\ pool'.size % ALIGN = 0
  /\ Answer(0, Null) /\ UNCHANGED held

Close == /\ pool # NoPool /\ pool' = NoPool
         /\ held' = NoneHeld /\ Answer(0, Null)
Reset == /\ pool # NoPool
         /\ held' = NoneHeld /\ Answer(0, Null) /\ UNCHANGED pool

\* alloc and calloc hand out a free block; calloc's is zeroed.
Give(zeroed) ==
  \E n \in {out'.n}, b \in Block \ live, w \in Word :
    /\ pool # NoPool /\ ~Refuses(n)
    /\ zeroed /\ n >= WORD => w = Null
    /\ held' = [c \in live \union {b} |-> IF c = b THEN [n |-> n, w |-> w] ELSE held[c]]
    /\ Answer(n, b) /\ UNCHANGED pool

Refuse == /\ pool # NoPool /\ Refuses(out'.n)
          /\ Answer(out'.n, Null) /\ UNCHANGED <<pool, held>>

Take(b) == /\ held' = [c \in live \ {b} |-> held[c]]
           /\ Answer(0, Null) /\ UNCHANGED pool

\* realloc: the block moves, and with it what both sizes can hold.
Move(b) ==
  \E n \in {out'.n}, c \in Block \ live, w \in Word :
    /\ ~Refuses(n)
    /\ n >= WORD /\ held[b].n >= WORD => w = held[b].w
    /\ held' = [d \in (live \ {b}) \union {c} |->
                  IF d = c THEN [n |-> n, w |-> w] ELSE held[d]]
    /\ Answer(n, c) /\ UNCHANGED pool

\* The client writes into a block it holds.
Write(b) == /\ \E w \in Word : held' = [held EXCEPT ![b].w = w]
            /\ UNCHANGED <<pool, out>>

Next == \/ Open \/ Close \/ Reset \/ Refuse
        \/ Give(TRUE) \/ Give(FALSE)
        \/ \E b \in live : Take(b) \/ Move(b) \/ Write(b)

Spec == Init /\ [][Next]_blockVars
=============================================================================
