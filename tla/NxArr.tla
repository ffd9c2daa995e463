-------------------------------- MODULE NxArr --------------------------------
(***************************************************************************)
(* src/ds/arr.c: arrays of fixed length, with their memory from the arena, *)
(* from libc, or from an allocator around the arena; beside them a client  *)
(* of the same allocators that works on a block of bytes of its own, and   *)
(* the calls that make, reset and drop the arena and the log.              *)
(*                                                                         *)
(* No call can be interrupted, so that each is one step.  The client keeps *)
(* what the headers ask for: an allocator outlives what came from it, and  *)
(* products of sizes do not wrap where nobody checks them.                 *)
(***************************************************************************)
EXTENDS NxArena

CONSTANTS
  Arr,             \* the client's variables of type nx_Arr *
  TSZ,             \* the size of an element
  Lens,            \* the lengths of arrays the client asks for
  Sizes, Callocs,  \* the sizes, and the <<num, size>>, of its own block
  ArrAl, RawAl     \* the allocators it gives to arrays, and uses for the block

ASSUME ArrAssumption ==
  /\ TSZ \in Nat \ {0} /\ Lens \subseteq Nat /\ Sizes \subseteq 0 .. USIZE - 1
  /\ \A n \in Lens : n * TSZ < USIZE
  /\ \A p \in Callocs : p[1] \in 1 .. USIZE - 1 /\ p[2] \in 1 .. USIZE - 1

VARIABLES
  m,        \* the memory
  logged,   \* whether a log wraps the arena
  arr,      \* the structs nx_Arr that exist, by the variable that owns them
  raw,      \* the client's block: allocator, address, and what it expects
  ret       \* the status the last call returned

arrVars == <<m, logged, arr, raw, ret>>

alive == DOMAIN arr
Elem  == [0 .. TSZ - 1 -> Byte]

\* The allocators there are.
Allocators ==
  {"libc"} \union (IF m.cap = 0 THEN {} ELSE {"arena", "plain"})
           \union (IF logged THEN {"log"} ELSE {})

NoRaw == [al |-> "libc", at |-> Null, want |-> [i \in {} |-> Zero]]

Init == m = NoMemory /\ logged = FALSE /\ arr = [h \in {} |-> 0] /\ raw = NoRaw /\ ret = "ok"

-----------------------------------------------------------------------------
(* Arrays: lifetime.                                                       *)

set_fields(data, len, al) == [data |-> data, len |-> len, al |-> al]

\* The bytes of an array, and element i of them.
data(h)   == Bytes(m, arr[h].data, arr[h].len * TSZ)
elem(c, i) == [j \in 0 .. TSZ - 1 |-> c[i * TSZ + j]]

ArrOnly == UNCHANGED <<logged, raw>>

\* A call that has to allocate, the struct or the elements, gives up.
Fails == ret' = "oom" /\ UNCHANGED <<m, arr>> /\ ArrOnly

\* h gets a struct, and the elements of the outcome o.
Created(h, o, len, al) ==
  m' = o.m /\ arr' = Has(arr, h, set_fields(o.data, len, al)) /\ ret' = "ok" /\ ArrOnly

Empty == [m |-> m, data |-> Null]

new_p(h, len, al) ==
  \/ \E o \in IF len = 0 THEN {Empty} ELSE nx_al_calloc(m, al, 1, len * TSZ) : Created(h, o, len, al)
  \/ Fails

\* From libc, like new_len; the span may be of another array.
from_data(h, c, len) ==
  \/ \E o \in IF len = 0 THEN {Empty} ELSE nx_al_calloc(m, "libc", 1, len * TSZ) :
       Created(h, [o EXCEPT !.m = Written(@, o.data, c)], len, "libc")
  \/ Fails

copy_a(h, g, al) ==
  LET n == arr[g].len IN
    \/ \E o \in IF n = 0 THEN {Empty} ELSE nx_al_alloc(m, al, n * TSZ, data(g)) : Created(h, o, n, al)
    \/ Fails

drop(h) == m' = nx_al_dealloc(m, arr[h].data) /\ arr' = Lacks(arr, h) /\ ret' = "ok" /\ ArrOnly

move(h, g) == arr' = Lacks(Has(arr, h, arr[g]), g) /\ UNCHANGED m /\ ret' = "ok" /\ ArrOnly

-----------------------------------------------------------------------------
(* Arrays: assignment and elements.                                        *)

\* The old elements are freed before there are new ones.
copy_assign_frees_first(self, src) ==
  LET n == arr[src].len
      M == nx_al_dealloc(m, arr[self].data)
  IN /\ self # src /\ n > 0 /\ arr[self].len # n /\ ArrOnly
     /\ \/ \E o \in nx_al_alloc(M, arr[self].al, n * TSZ, data(src)) :
             m' = o.m /\ arr' = [arr EXCEPT ![self] = set_fields(o.data, n, @.al)] /\ ret' = "ok"
        \/ MayFail(M, arr[self].al, n * TSZ) /\ m' = M /\ UNCHANGED arr /\ ret' = "oom"

copy_assign(self, src) ==
  LET n == arr[src].len
      v == arr[self]
  IN \/ self = src /\ UNCHANGED <<m, arr>> /\ ret' = "ok" /\ ArrOnly
     \/ /\ self # src /\ n = 0 /\ ret' = "ok" /\ ArrOnly
        /\ m' = nx_al_dealloc(m, v.data) /\ arr' = [arr EXCEPT ![self] = set_fields(Null, 0, v.al)]
     \/ /\ self # src /\ n > 0 /\ v.len = n /\ ret' = "ok" /\ ArrOnly
        /\ m' = Written(m, v.data, data(src)) /\ UNCHANGED arr
     \/ /\ n > 0 /\ v.len # n
        /\ \/ MayFail(m, v.al, n * TSZ) /\ Fails
           \/ \E o \in nx_al_alloc(m, v.al, n * TSZ, data(src)) :
                /\ m' = nx_al_dealloc(o.m, v.data) /\ ret' = "ok" /\ ArrOnly
                /\ arr' = [arr EXCEPT ![self] = set_fields(o.data, n, v.al)]

move_assign_shares(self, src) ==
  /\ self # src /\ arr[self].al = arr[src].al /\ ret' = "ok" /\ ArrOnly
  /\ m' = nx_al_dealloc(m, arr[self].data)
  /\ arr' = [arr EXCEPT ![self].data = arr[src].data, ![self].len = arr[src].len, ![src].len = 0]

\* The allocators are equal as nx_al_eq compares them; self keeps its own.
move_assign(self, src) ==
  /\ arr[self].al = arr[src].al /\ ret' = "ok" /\ ArrOnly
  /\ IF self = src THEN UNCHANGED <<m, arr>>
     ELSE /\ m' = nx_al_dealloc(m, arr[self].data)
          /\ arr' = [arr EXCEPT ![self].data = arr[src].data, ![self].len = arr[src].len,
                                ![src].data = Null, ![src].len = 0]

set(h, i, x) ==
  /\ m' = Written(m, arr[h].data + i * TSZ, x) /\ UNCHANGED arr /\ ret' = "ok" /\ ArrOnly

swap(a, b) ==
  /\ arr[a].al = arr[b].al /\ ret' = "ok" /\ UNCHANGED m /\ ArrOnly
  /\ arr' = [arr EXCEPT ![a].data = arr[b].data, ![a].len = arr[b].len,
                        ![b].data = arr[a].data, ![b].len = arr[a].len]

-----------------------------------------------------------------------------
(* The client's own block.                                                 *)

RawOnly == UNCHANGED <<logged, arr, ret>>

\* What the client expects of n bytes: nothing, or what it was promised.
Unknown(n)  == [i \in 0 .. n - 1 |-> Uninit]
RawSize     == IF raw.at = Null THEN 0 ELSE m.blocks[raw.at].size

Obtains(o, al, want) == m' = o.m /\ raw' = [al |-> al, at |-> o.data, want |-> want] /\ RawOnly
Refused(al, n)       == MayFail(m, al, n) /\ UNCHANGED <<m, raw>> /\ RawOnly

raw_alloc(al, n) ==
  /\ raw.at = Null
  /\ \/ \E o \in nx_al_alloc(m, al, n, [i \in {} |-> Zero]) : Obtains(o, al, Unknown(n))
     \/ Refused(al, n)

raw_calloc(al, num, size) ==
  /\ raw.at = Null /\ (al = "plain" => num * size < USIZE)
  /\ \/ \E o \in nx_al_calloc(m, al, num, size) : Obtains(o, al, Zeros(num * size))
     \/ (num * size >= USIZE \/ MayFail(m, al, num * size)) /\ UNCHANGED <<m, raw>> /\ RawOnly

raw_realloc(n) ==
  /\ raw.at # Null /\ n > 0
  /\ \/ \E o \in nx_al_realloc(m, raw.al, raw.at, RawSize, n) :
          Obtains(o, raw.al, [i \in 0 .. n - 1 |-> IF i < RawSize THEN raw.want[i] ELSE Uninit])
     \/ Refused(raw.al, n)

\* realloc to nothing is dealloc in the fallback.
raw_dealloc == raw.at # Null /\ m' = nx_al_dealloc(m, raw.at) /\ raw' = NoRaw /\ RawOnly

raw_fill(x) ==
  LET c == [i \in 0 .. RawSize - 1 |-> x]
  IN raw.at # Null /\ m' = Written(m, raw.at, c) /\ raw' = [raw EXCEPT !.want = c] /\ RawOnly

-----------------------------------------------------------------------------
(* The allocators' own lives.  The mallocs of a constructor all succeed, or *)
(* it has freed what they gave and nothing has happened.                    *)

Keeps(al) == raw.al # al /\ \A h \in alive : arr[h].al # al

arena_new(cap) ==
  /\ m.cap = 0 /\ UNCHANGED <<logged, arr, raw, ret>>
  /\ m' = [m EXCEPT !.cap = cap, !.offset = 0,
             !.bytes = [i \in DOMAIN @ \union 0 .. cap - 1 |-> IF i \in DOMAIN @ THEN @[i] ELSE Uninit]]

FromLibc(f) == [i \in { j \in DOMAIN f : ~InArena(j) } |-> f[i]]

\* Every block of the arena becomes invalid.
arena_drop ==
  /\ m.cap # 0 /\ ~logged /\ Keeps("arena") /\ Keeps("plain") /\ UNCHANGED <<logged, arr, raw, ret>>
  /\ m' = [m EXCEPT !.cap = 0, !.offset = 0, !.bytes = FromLibc(@), !.blocks = FromLibc(@)]

\* Also here; only arrays without elements can live on.
arena_reset ==
  /\ m.cap # 0 /\ UNCHANGED <<logged, arr, ret>>
  /\ \A h \in alive : arr[h].al # "libc" => arr[h].data = Null
  /\ m' = [m EXCEPT !.offset = 0, !.blocks = FromLibc(@)]
  /\ raw' = IF raw.al = "libc" THEN raw ELSE NoRaw

log_new  == m.cap # 0 /\ ~logged /\ logged' = TRUE /\ UNCHANGED <<m, arr, raw, ret>>
log_drop == logged /\ Keeps("log") /\ logged' = FALSE /\ UNCHANGED <<m, arr, raw, ret>>

-----------------------------------------------------------------------------
Next ==
  \/ \E h \in Arr \ alive :
       \/ \E al \in Allocators \cap ArrAl :
            \/ \E len \in Lens : new_p(h, len, al)
            \/ \E g \in alive : copy_a(h, g, al)
       \/ \E g \in alive : move(h, g) \/ from_data(h, data(g), arr[g].len)
  \/ \E h \in alive :
       \/ drop(h)
       \/ \E g \in alive : copy_assign(h, g) \/ move_assign(h, g) \/ swap(h, g)
       \/ \E i \in 0 .. arr[h].len - 1, x \in Elem : set(h, i, x)
  \/ \E al \in Allocators \cap RawAl :
       \/ \E n \in Sizes : raw_alloc(al, n)
       \/ \E p \in Callocs : raw_calloc(al, p[1], p[2])
  \/ \E n \in Sizes : raw_realloc(n)
  \/ raw_dealloc \/ \E x \in Byte : raw_fill(x)
  \/ \E cap \in Caps : arena_new(cap)
  \/ arena_drop \/ arena_reset \/ log_new \/ log_drop

Spec == Init /\ [][Next]_arrVars

-----------------------------------------------------------------------------
(* Correctness.                                                            *)

\* Each field has its type, the arena's offset is aligned and in range, and
\* arr_assert_impl holds of each array.
TypeOK ==
  /\ m.cap \in Caps \union {0} /\ m.offset \in 0 .. m.cap /\ m.offset % ALIGN = 0
  /\ \A i \in DOMAIN m.bytes : i \in Nat /\ m.bytes[i] \in Byte \union {Zero, Uninit}
  /\ \A b \in DOMAIN m.blocks : m.blocks[b].size \in Nat \ {0}
  /\ logged \in BOOLEAN /\ (logged => m.cap # 0) /\ ret \in {"ok", "oom"}
  /\ alive \subseteq Arr
  /\ \A h \in alive : arr[h].len \in Nat /\ (arr[h].len = 0 <=> arr[h].data = Null)

\* alloc_arena.c: whatever sizes are asked for and however often the arena is
\* reset, the blocks that are valid lie apart, aligned, and in its buffer, and
\* the arena's are all below the offset.
BlocksApart ==
  \A b \in DOMAIN m.blocks :
    /\ b % ALIGN = 0 /\ b .. b + m.blocks[b].size - 1 \subseteq DOMAIN m.bytes
    /\ InArena(b) => b + m.blocks[b].size <= m.offset
    /\ \A c \in DOMAIN m.blocks : b < c => b + m.blocks[b].size <= c

\* arr.c and alloc.c: each array with elements has a valid block to itself,
\* of its size, from the allocator it will give it back to; a block of libc
\* without an owner is a leak.
OneOwner ==
  /\ \A h \in alive : LET v == arr[h] IN v.data # Null =>
       /\ v.data \in DOMAIN m.blocks /\ v.data # raw.at
       /\ m.blocks[v.data] = [al |-> v.al, size |-> v.len * TSZ]
       /\ v.al \in Allocators
       /\ \A g \in alive : arr[g].data = v.data => g = h
  /\ \A b \in DOMAIN m.blocks : ~InArena(b) => b = raw.at \/ \E h \in alive : arr[h].data = b

\* alloc.h: a block keeps what its client wrote, and the zeros calloc promised,
\* through realloc and through everything others do with the same allocators,
\* and a realloc that fails leaves it valid.
RawKept ==
  raw.at # Null =>
    /\ raw.at \in DOMAIN m.blocks /\ m.blocks[raw.at].al = raw.al
    /\ DOMAIN raw.want = 0 .. RawSize - 1
    /\ \A i \in DOMAIN raw.want : raw.want[i] # Uninit => m.bytes[raw.at + i] = raw.want[i]

\* Each array as the sequence of its elements.
seqs == [h \in alive |-> [i \in 1 .. arr[h].len |-> elem(data(h), i - 1)]]

\* arr.h: the arrays are sequences of fixed length that nothing but their own
\* calls changes, and a call that fails has changed nothing.
Arrays == INSTANCE NxArrays WITH
  Val <- Elem, Zero <- [j \in 0 .. TSZ - 1 |-> Zero], out <- ret, seqs <- seqs

ImplementsArrays == Arrays!Spec
=============================================================================
