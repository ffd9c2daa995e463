------------------------------- MODULE NxHeap -------------------------------
(***************************************************************************)
(* What vec.c and str.c rest on: buffers handed out by allocators through  *)
(* the wrappers of src/mem/alloc.c.  An allocation may fail at any time; a *)
(* realloc may leave the buffer where it is or move it.                    *)
(*                                                                         *)
(* A buffer is an address, the allocator it came from and its cells.  Each *)
(* allocating operator is the set of the outcomes of a call that succeeds: *)
(* the heap after it and the address returned.                             *)
(***************************************************************************)
EXTENDS Integers

CONSTANTS
  Al,               \* allocators, different as nx_al_eq compares them
  Buf, Null,        \* addresses an allocator can return; the null pointer
  Zero, Uninit,     \* a cell of all-zero bytes; one that nobody wrote
  ALLOC_MAX         \* the largest buffer, in cells, an allocator can provide

ASSUME NullAssumption == Null \notin Buf

VARIABLE heap       \* the buffers that are allocated

Has(f, x, y) == [z \in DOMAIN f \union {x} |-> IF z = x THEN y ELSE f[z]]
Lacks(f, x)  == [z \in DOMAIN f \ {x} |-> f[z]]

\* The cells of a struct v with a field data, in the heap H; a null pointer
\* has none.
CellsIn(H, v) == IF v.data = Null THEN [i \in {} |-> Zero] ELSE H[v.data].cells

\* n cells from allocator al, the first ones a copy of c.
nx_al_alloc(H, al, n, c) ==
  IF n > ALLOC_MAX THEN {}
  ELSE { [heap |-> Has(H, b, [al |-> al, cells |->
            [i \in 0 .. n - 1 |-> IF i \in DOMAIN c THEN c[i] ELSE Uninit]]),
          data |-> b] : b \in Buf \ DOMAIN H }

nx_al_dealloc(H, b) == IF b = Null THEN H ELSE Lacks(H, b)

\* The buffer may stay or move; the allocator may need the old one while it
\* copies, so that a move goes to an address not in use.
nx_al_realloc(al, b, n) ==
  LET old == IF b = Null THEN [i \in {} |-> Zero] ELSE heap[b].cells
      stays == IF b = Null THEN {} ELSE nx_al_alloc(Lacks(heap, b), al, n, old)
  IN { o \in stays : o.data = b } \union
     { [heap |-> nx_al_dealloc(o.heap, b), data |-> o.data] :
         o \in nx_al_alloc(heap, al, n, old) }

\* memcpy, memmove and memset: the first n of s into the cells c, from
\* position at on.
memcpy(c, at, s, n) ==
  [i \in DOMAIN c |-> IF at <= i /\ i < at + n THEN s[i - at] ELSE c[i]]
Zeros(n)    == [i \in 0 .. n - 1 |-> Zero]
Elems(c, n) == [i \in 0 .. n - 1 |-> c[i]]
=============================================================================
