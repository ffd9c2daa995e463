------------------------------- MODULE NxVec --------------------------------
(***************************************************************************)
(* src/ds/vec.c: growable arrays whose buffers come from allocators that   *)
(* may fail and, on realloc, may move the buffer or not.                   *)
(*                                                                         *)
(* No call runs a callback or can be interrupted, so that each call is one *)
(* step.  A buffer is an address and its cells; cells beyond len keep what *)
(* was last written there.  Sizes are counted in elements: vec.h says      *)
(* "No overflow checking", and the client's lengths stay below a wrap of   *)
(* the byte count.  The client passes elements of its own, never a pointer *)
(* into a vector; a span may be that of a vector.                          *)
(*                                                                         *)
(* A definition named X_..., right before X and used by nothing, is X with *)
(* a bug someone could write: it shows that a property can fail.           *)
(***************************************************************************)
EXTENDS NxHeap

CONSTANTS
  Vec,              \* the client's variables of type nx_Vec *
  Val,              \* elements of the client
  USIZE,            \* 2^w, the number of values of nx_usize
  Lens              \* the lengths and capacities the client asks for

ASSUME CellAssumption == Uninit \notin Val \union {Zero}
ASSUME SizeAssumption ==
  /\ USIZE \in Nat \ {0} /\ ALLOC_MAX \in Nat /\ ALLOC_MAX < USIZE
  /\ Lens \subseteq Nat

VARIABLES
  vec,    \* the structs nx_Vec that exist, by the variable that owns them
  ret     \* the status the last call returned

vars == <<vec, heap, ret>>

alive == DOMAIN vec
Cell  == Val \union {Zero, Uninit}

cells(h) == CellsIn(heap, vec[h])

set_fields(data, len, cap, al) == [data |-> data, len |-> len, cap |-> cap, al |-> al]

Init == vec = [h \in {} |-> 0] /\ heap = [b \in {} |-> 0] /\ ret = "ok"

-----------------------------------------------------------------------------
(* Capacity.                                                               *)

\* Vector h with at least n cells, by realloc: [heap, v] for each outcome.
Reserved(h, n) ==
  IF n <= vec[h].cap THEN {[heap |-> heap, v |-> vec[h]]}
  ELSE { [heap |-> o.heap, v |-> [vec[h] EXCEPT !.data = o.data, !.cap = n]] :
           o \in nx_al_realloc(vec[h].al, vec[h].data, n) }

\* No divisor but 1 is odd.
PowerOfTwo(p) == \A q \in 2 .. p : p % q = 0 => q % 2 = 0

\* The capacity, or 1, doubled until n fits; n itself when doubling would wrap.
NewCaps(cap, n) ==
  LET start   == IF cap = 0 THEN 1 ELSE cap
      Doubled == { d \in n .. USIZE - 1 : \E p \in 1 .. d : d = start * p /\ PowerOfTwo(p) }
  IN IF Doubled = {} THEN {n} ELSE { d \in Doubled : \A e \in Doubled : d <= e }

ensure_cap(h, n) ==
  IF n <= vec[h].cap THEN {[heap |-> heap, v |-> vec[h]]}
  ELSE UNION { Reserved(h, c) : c \in NewCaps(vec[h].cap, n) }

\* A call that has to allocate gives up and has changed nothing.
Fails == ret' = "oom" /\ UNCHANGED <<vec, heap>>

\* Vector h, as r left it, gets the cells c and the length n.
Store(h, r, c, n) ==
  /\ heap' = IF r.v.data = Null THEN r.heap ELSE [r.heap EXCEPT ![r.v.data].cells = c]
  /\ vec' = [vec EXCEPT ![h] = [r.v EXCEPT !.len = n]] /\ ret' = "ok"
Shortened(h, n) == vec' = [vec EXCEPT ![h].len = n] /\ UNCHANGED heap

-----------------------------------------------------------------------------
(* Lifetime.                                                               *)

\* A struct and a buffer for h: capacity cap, length len, the first cells a
\* copy of c.  No buffer is allocated for capacity 0.
Created(h, len, cap, al, c) ==
  IF cap = 0
  THEN vec' = Has(vec, h, set_fields(Null, 0, 0, al)) /\ UNCHANGED heap /\ ret' = "ok"
  ELSE \E o \in nx_al_alloc(heap, al, cap, c) :
         /\ heap' = o.heap /\ ret' = "ok"
         /\ vec' = Has(vec, h, set_fields(o.data, len, cap, al))

\* nx_vec_new, _new_len and _new_cap are calls of new_p.
new_p(h, len, cap, al) ==
  len <= cap /\ (Created(h, len, cap, al, Zeros(len)) \/ Fails)

\* The span is that of vector g.
from_data(h, g, al) ==
  Created(h, vec[g].len, vec[g].len, al, Elems(cells(g), vec[g].len)) \/ Fails

copy_a(h, g, al) ==
  Created(h, vec[g].len, vec[g].cap, al, Elems(cells(g), vec[g].len)) \/ Fails

drop(h) ==
  heap' = nx_al_dealloc(heap, vec[h].data) /\ vec' = Lacks(vec, h) /\ ret' = "ok"

move(h, g) == vec' = Lacks(Has(vec, h, vec[g]), g) /\ UNCHANGED heap /\ ret' = "ok"

-----------------------------------------------------------------------------
(* Assignment and swap.                                                    *)

copy_assign_keeps_cap(self, src) ==
  LET s == vec[src] IN
    \/ s.len > vec[self].cap /\ Fails
    \/ s.len > vec[self].cap /\ \E o \in nx_al_alloc(heap, vec[self].al, s.cap, Elems(cells(src), s.len)) :
         /\ heap' = nx_al_dealloc(o.heap, vec[self].data) /\ ret' = "ok"
         /\ vec' = [vec EXCEPT ![self] = set_fields(o.data, s.len, @.cap, @.al)]

\* The old buffer is freed only when the new one is there.
copy_assign(self, src) ==
  LET s == vec[src]
      c == Elems(cells(src), s.len)
  IN \/ self = src /\ ret' = "ok" /\ UNCHANGED <<vec, heap>>
     \/ self # src /\ s.len = 0 /\ Shortened(self, 0) /\ ret' = "ok"
     \/ /\ self # src /\ s.len > 0 /\ s.len <= vec[self].cap
        /\ Store(self, [heap |-> heap, v |-> vec[self]], memcpy(cells(self), 0, c, s.len), s.len)
     \/ /\ s.len > vec[self].cap
        /\ \/ Fails
           \/ \E o \in nx_al_alloc(heap, vec[self].al, s.cap, c) :
                /\ heap' = nx_al_dealloc(o.heap, vec[self].data) /\ ret' = "ok"
                /\ vec' = [vec EXCEPT ![self] = set_fields(o.data, s.len, s.cap, @.al)]

move_assign_shares(self, src) ==
  /\ vec[self].al = vec[src].al /\ ret' = "ok"
  /\ IF self = src THEN UNCHANGED <<vec, heap>>
     ELSE /\ heap' = nx_al_dealloc(heap, vec[self].data)
          /\ vec' = [vec EXCEPT ![self] = vec[src], ![src].len = 0]

move_assign(self, src) ==
  /\ vec[self].al = vec[src].al /\ ret' = "ok"
  /\ IF self = src THEN UNCHANGED <<vec, heap>>
     ELSE /\ heap' = nx_al_dealloc(heap, vec[self].data)
          /\ vec' = [vec EXCEPT ![self] = vec[src], ![src] = set_fields(Null, 0, 0, @.al)]

swap(a, b) ==
  /\ vec[a].al = vec[b].al /\ ret' = "ok"
  /\ vec' = [vec EXCEPT ![a] = vec[b], ![b] = vec[a]] /\ UNCHANGED heap

-----------------------------------------------------------------------------
(* Elements.                                                               *)

set(h, idx, x) ==
  Store(h, [heap |-> heap, v |-> vec[h]], [cells(h) EXCEPT ![idx] = x], vec[h].len)

push(h, x) ==
  LET n == vec[h].len IN
    \/ \E r \in ensure_cap(h, n + 1) : Store(h, r, [CellsIn(r.heap, r.v) EXCEPT ![n] = x], n + 1)
    \/ n + 1 > vec[h].cap /\ Fails

\* The pointer returned is to a cell that is no element any more.
pop(h) == vec[h].len > 0 /\ Shortened(h, vec[h].len - 1) /\ ret' = "ok"

clear(h) == Shortened(h, 0) /\ ret' = "ok"

\* memcpy upward, cell by cell, instead of memmove.
shift_right_smearing(c, idx, n) ==
  [i \in DOMAIN c |-> IF idx < i /\ i <= n THEN c[idx] ELSE c[i]]

shift_right(c, idx, n) == [i \in DOMAIN c |-> IF idx < i /\ i <= n THEN c[i - 1] ELSE c[i]]
shift_left(c, idx, n)  == [i \in DOMAIN c |-> IF idx <= i /\ i < n - 1 THEN c[i + 1] ELSE c[i]]

insert(h, idx, x) ==
  LET n == vec[h].len IN
    \/ \E r \in ensure_cap(h, n + 1) :
         Store(h, r, [shift_right(CellsIn(r.heap, r.v), idx, n) EXCEPT ![idx] = x], n + 1)
    \/ n + 1 > vec[h].cap /\ Fails

erase(h, idx) ==
  Store(h, [heap |-> heap, v |-> vec[h]], shift_left(cells(h), idx, vec[h].len), vec[h].len - 1)

\* The span of g; that of h itself only while the buffer stays where it is.
extend(h, g) ==
  LET n == vec[h].len
      k == vec[g].len
  IN /\ g # h \/ n + k <= vec[h].cap
     /\ \/ k = 0 /\ ret' = "ok" /\ UNCHANGED <<vec, heap>>
        \/ k > 0 /\ \E r \in ensure_cap(h, n + k) :
             Store(h, r, memcpy(CellsIn(r.heap, r.v), n, cells(g), k), n + k)
        \/ n + k > vec[h].cap /\ Fails

-----------------------------------------------------------------------------
(* Sizes.                                                                  *)

reserve(h, new_cap) ==
  \/ \E r \in Reserved(h, new_cap) : Store(h, r, CellsIn(r.heap, r.v), vec[h].len)
  \/ new_cap > vec[h].cap /\ Fails

resize_unfilled(h, new_len) ==
  \/ \E r \in Reserved(h, new_len) : Store(h, r, CellsIn(r.heap, r.v), new_len)
  \/ new_len > vec[h].cap /\ Fails

resize(h, new_len) ==
  LET n == vec[h].len IN
    \/ new_len <= n /\ Shortened(h, new_len) /\ ret' = "ok"
    \/ new_len > n /\ \E r \in Reserved(h, new_len) :
         Store(h, r, memcpy(CellsIn(r.heap, r.v), n, Zeros(new_len - n), new_len - n), new_len)
    \/ new_len > vec[h].cap /\ Fails

shrink_to_fit(h) ==
  LET v == vec[h] IN
    \/ v.len = v.cap /\ ret' = "ok" /\ UNCHANGED <<vec, heap>>
    \/ /\ v.len # v.cap /\ v.len = 0 /\ heap' = nx_al_dealloc(heap, v.data)
       /\ vec' = [vec EXCEPT ![h] = set_fields(Null, 0, 0, v.al)] /\ ret' = "ok"
    \/ /\ v.len # v.cap /\ v.len > 0
       /\ \/ Fails
          \/ \E o \in nx_al_realloc(v.al, v.data, v.len) :
               /\ heap' = o.heap /\ ret' = "ok"
               /\ vec' = [vec EXCEPT ![h].data = o.data, ![h].cap = v.len]

Index(h) == 0 .. vec[h].len - 1

Next ==
  \/ \E h \in Vec \ alive :
       \/ \E al \in Al : \/ \E len, cap \in Lens : new_p(h, len, cap, al)
                         \/ \E g \in alive : from_data(h, g, al) \/ copy_a(h, g, al)
       \/ \E g \in alive : move(h, g)
  \/ \E h \in alive :
       \/ drop(h) \/ pop(h) \/ clear(h) \/ shrink_to_fit(h)
       \/ \E x \in Val : \/ push(h, x) \/ \E idx \in Index(h) : set(h, idx, x)
                         \/ \E idx \in 0 .. vec[h].len : insert(h, idx, x)
       \/ \E idx \in Index(h) : erase(h, idx)
       \/ \E n \in Lens : reserve(h, n) \/ resize(h, n)
       \/ \E g \in alive :
            \/ copy_assign(h, g) \/ move_assign(h, g) \/ swap(h, g) \/ extend(h, g)

Spec == Init /\ [][Next]_vars

-----------------------------------------------------------------------------
(* Correctness.                                                            *)

Struct    == [data : Buf \union {Null}, len : Nat, cap : Nat, al : Al]
Buffer(I) == [al : Al, cells : [I -> Cell]]

\* Each struct and each buffer has its type, and the assertions of
\* vec_assert_impl hold between calls.
TypeOK ==
  /\ alive \subseteq Vec /\ vec \in [alive -> Struct]
  /\ \A h \in alive : vec[h].len <= vec[h].cap /\ (vec[h].cap = 0 <=> vec[h].data = Null)
  /\ DOMAIN heap \subseteq Buf /\ heap = [b \in DOMAIN heap |-> heap[b]]
  /\ \A b \in DOMAIN heap : heap[b] \in Buffer(DOMAIN heap[b].cells)
  /\ ret \in {"ok", "oom"}

\* Every buffer has exactly one owner, so that nothing leaks and nothing is
\* freed twice, and will be given back to the allocator it came from with the
\* size it has.
OneOwner ==
  /\ \A h \in alive : LET v == vec[h] IN v.data # Null =>
       /\ v.data \in DOMAIN heap /\ heap[v.data].al = v.al
       /\ DOMAIN heap[v.data].cells = 0 .. v.cap - 1
       /\ \A g \in alive : vec[g].data = v.data => g = h
  /\ \A b \in DOMAIN heap : \E h \in alive : vec[h].data = b

\* No element of a vector is indeterminate.
NoUninit == \A h \in alive : \A i \in Index(h) : cells(h)[i] # Uninit

\* Each of the three needs the others to be kept by a step.
IndInv == TypeOK /\ OneOwner /\ NoUninit

\* The vectors implement NxSeqs.
Listed(c, n) == [i \in 1 .. n |-> c[i - 1]]
seqs == [h \in alive |-> Listed(cells(h), vec[h].len)]
room == [h \in alive |-> vec[h].cap]
Seqs == INSTANCE NxSeqs WITH out <- ret
ImplementsSeqs == Seqs!Spec
=============================================================================
