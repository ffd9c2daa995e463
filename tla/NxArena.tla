------------------------------- MODULE NxArena -------------------------------
(***************************************************************************)
(* The allocators of src/mem that arrays and clients draw memory from: the *)
(* arena of alloc_arena.c, libc (alloc_libc.c), and a log around the arena *)
(* (alloc_log.c), reached through the wrappers of alloc.c.                 *)
(*                                                                         *)
(* Addresses are numbers: the arena's buffer begins at 0, what malloc can  *)
(* return lies behind it.  "log" forwards to the arena; "plain" is a copy  *)
(* a client made of the arena's nx_Al with calloc set to null, for which   *)
(* alloc.c falls back.  None but libc has a realloc.                       *)
(*                                                                         *)
(* Each allocating operator is the set of the outcomes of a call that      *)
(* succeeds: the memory after it and the address returned.                 *)
(*                                                                         *)
(* A definition named X_..., right before X and used by nothing, is X with *)
(* a bug someone could write: it shows that a property can fail.           *)
(***************************************************************************)
EXTENDS Integers

CONSTANTS
  ALIGN,           \* alignof(max_align_t)
  USIZE,           \* 2^w, the number of values of nx_usize
  Caps,            \* the capacities of arenas
  Slots, SLOT,     \* the addresses malloc can return, with SLOT bytes each
  Byte, Zero,      \* what a client writes into a byte; the byte 0
  Uninit           \* a byte nobody wrote since malloc

ASSUME ArenaAssumption ==
  /\ ALIGN \in Nat \ {0} /\ USIZE \in Nat \ {0} /\ Caps \subseteq 1 .. USIZE - 1
  /\ Slots \subseteq Nat /\ SLOT \in Nat /\ Uninit \notin Byte \union {Zero}
  /\ \A s \in Slots : s % ALIGN = 0 /\ \A c \in Caps : c <= s
  /\ \A s, t \in Slots : s < t => s + SLOT <= t

Null == -1

Has(f, x, y) == [z \in DOMAIN f \union {x} |-> IF z = x THEN y ELSE f[z]]
Lacks(f, x)  == [z \in DOMAIN f \ {x} |-> f[z]]

\* The memory: the arena's capacity (0 when there is none) and offset, every
\* byte of it and of the blocks from malloc, and, as a ghost, the blocks that
\* are valid: by address, the size asked for and the allocator it came from.
NoMemory == [cap |-> 0, offset |-> 0, bytes |-> [i \in {} |-> Zero], blocks |-> [i \in {} |-> 0]]

InArena(at)    == at < 0 \/ \A s \in Slots : at < s
Bytes(M, at, n) == [i \in 0 .. n - 1 |-> M.bytes[at + i]]
Zeros(n)       == [i \in 0 .. n - 1 |-> Zero]

\* The block of n bytes at address at, which begins with a copy of c.
Block(M, al, at, n, c) ==
  [M EXCEPT !.blocks = Has(@, at, [al |-> al, size |-> n]),
            !.bytes = [i \in DOMAIN @ \union at .. at + n - 1 |->
                         IF i - at \in DOMAIN c THEN c[i - at]
                         ELSE IF i \in DOMAIN @ THEN @[i] ELSE Uninit]]

\* memcpy of the bytes c to address at.
Written(M, at, c) ==
  [M EXCEPT !.bytes = [i \in DOMAIN @ |-> IF i - at \in DOMAIN c THEN c[i - at] ELSE @[i]]]

-----------------------------------------------------------------------------
(* The arena and malloc.                                                   *)

align_up(x) == LET y == (x + ALIGN - 1) % USIZE IN y - (y % ALIGN)

\* The sum wraps before it is compared.
CanAlloc_wrapping(M, n) ==
  n > 0 /\ align_up(n) >= n /\ (M.offset + align_up(n)) % USIZE <= M.cap

CanAlloc(M, n) ==
  /\ n > 0 /\ align_up(n) >= n
  /\ M.offset + align_up(n) < USIZE /\ M.offset + align_up(n) <= M.cap

arena_alloc(M, al, n, c) ==
  IF CanAlloc(M, n)
  THEN {[m |-> [Block(M, al, M.offset, n, c) EXCEPT !.offset = @ + align_up(n)],
         data |-> M.offset]}
  ELSE {}

malloc(M, n, c) ==
  { [m |-> Block(M, "libc", s, n, c), data |-> s] :
      s \in { t \in Slots : t \notin DOMAIN M.blocks /\ 0 < n /\ n <= SLOT } }

-----------------------------------------------------------------------------
(* The wrappers of alloc.c.                                                *)

nx_al_alloc(M, al, n, c) ==
  IF al = "libc" THEN malloc(M, n, c) ELSE arena_alloc(M, al, n, c)

MayFail(M, al, n) == al = "libc" \/ ~CanAlloc(M, n)

\* The fallback multiplies without a check; what it asks for is then cleared.
calloc_size(al, num, size) == IF al = "plain" THEN (num * size) % USIZE ELSE num * size

\* Without the memset, which fresh memory does not seem to need.
nx_al_calloc_unfilled(M, al, num, size) ==
  LET n == calloc_size(al, num, size)
  IN IF n >= USIZE THEN {}
     ELSE nx_al_alloc(M, al, n, IF al = "libc" THEN Zeros(n) ELSE [i \in {} |-> Zero])

nx_al_calloc(M, al, num, size) ==
  LET n == calloc_size(al, num, size)
  IN IF n >= USIZE THEN {} ELSE nx_al_alloc(M, al, n, Zeros(n))

\* The arena's does nothing: its bytes stay taken and keep what they hold.
nx_al_dealloc(M, at) ==
  IF at = Null THEN M
  ELSE [M EXCEPT !.blocks = Lacks(@, at),
                 !.bytes = IF InArena(at) THEN @
                           ELSE [i \in DOMAIN @ \ (at .. at + M.blocks[at].size - 1) |-> @[i]]]

\* One byte less when the block grows.
Copied_short(old, new) == IF old < new THEN old - 1 ELSE new

\* As many bytes as both blocks have.
Copied(old, new) == IF old < new THEN old ELSE new

\* A larger or smaller block with the contents of the one at address at; libc
\* may leave it in place.  new_size > 0: with 0 nothing is allocated.
nx_al_realloc(M, al, at, old_size, new_size) ==
  LET c == Bytes(M, at, Copied(old_size, new_size))
      stays == IF al = "libc" THEN malloc(nx_al_dealloc(M, at), new_size, c) ELSE {}
  IN { o \in stays : o.data = at } \union
     { [o EXCEPT !.m = nx_al_dealloc(o.m, at)] : o \in nx_al_alloc(M, al, new_size, c) }
=============================================================================
