---------------------------- MODULE NxVec_proofs ----------------------------
(***************************************************************************)
(* Proofs about NxVec, for any numbers of vectors, allocators and buffers  *)
(* and buffers of any size: every buffer has one owner, no element is      *)
(* indeterminate, and the vectors implement the sequences of NxSeqs.       *)
(*                                                                         *)
(* Nearly every call replaces one vector, and perhaps its buffer.  Fits    *)
(* says when a vector v and a heap K may take the place of vector h and of *)
(* the heap; OneVector that the invariant then holds again, Becomes what   *)
(* the sequences are then.                                                 *)
(***************************************************************************)
EXTENDS NxVec, SequenceTheorems, TLAPS

Owned(h) == IF h \in alive THEN vec[h].data ELSE Null

Fits(v, K, h) ==
  /\ v \in Struct /\ v.len <= v.cap /\ (v.cap = 0 <=> v.data = Null)
  /\ K = [b \in DOMAIN K |-> K[b]]
  /\ DOMAIN K = ((DOMAIN heap \ {Owned(h)}) \union {v.data}) \ {Null}
  /\ v.data \notin DOMAIN heap \ {Owned(h)}
  /\ \A b \in DOMAIN K : b # v.data => K[b] = heap[b]
  /\ v.data # Null => K[v.data] \in Buffer(0 .. v.cap - 1) /\ K[v.data].al = v.al

\* No element of v, in the heap K, is indeterminate.
Filled(v, K) == \A i \in 0 .. v.len - 1 : CellsIn(K, v)[i] # Uninit

\* The elements of v, in the heap K, are those of c.
HasThose(v, K, c) == \A i \in 0 .. v.len - 1 : CellsIn(K, v)[i] = c[i]

\* A vector that keeps to the invariant.
LEMMA CellsFacts ==
  ASSUME IndInv, NEW h \in alive
  PROVE  /\ cells(h) \in [0 .. vec[h].cap - 1 -> Cell]
         /\ \A i \in Index(h) : cells(h)[i] # Uninit
         /\ vec[h] \in Struct /\ vec[h].len \in 0 .. vec[h].cap
         /\ vec[h].data \notin DOMAIN heap \ {Owned(h)} /\ Fits(vec[h], heap, h)
<1>1. /\ vec[h] \in Struct /\ vec[h].len <= vec[h].cap
      /\ vec[h].cap = 0 <=> vec[h].data = Null
  BY DEF IndInv, TypeOK, alive
<1>2. vec[h].len \in 0 .. vec[h].cap /\ vec[h].cap \in Nat
  BY <1>1 DEF Struct
<1>3. vec[h].data # Null => /\ vec[h].data \in DOMAIN heap
                            /\ heap[vec[h].data] \in Buffer(0 .. vec[h].cap - 1)
                            /\ heap[vec[h].data].al = vec[h].al
  BY DEF IndInv, TypeOK, OneOwner
<1>4. cells(h) \in [0 .. vec[h].cap - 1 -> Cell]
  <2>1. CASE vec[h].data = Null
    BY <2>1, <1>1, 0 .. 0 - 1 = {} DEF cells, CellsIn
  <2>2. CASE vec[h].data # Null
    BY <2>2, <1>3 DEF cells, CellsIn, Buffer
  <2> QED
    BY <2>1, <2>2
<1>5. Null \notin DOMAIN heap /\ heap = [b \in DOMAIN heap |-> heap[b]]
  BY NullAssumption DEF IndInv, TypeOK
<1>6. Fits(vec[h], heap, h)
  BY <1>1, <1>3, <1>5 DEF Fits, Owned
<1> QED
  BY <1>1, <1>2, <1>4, <1>6 DEF IndInv, NoUninit, Owned, Fits

-----------------------------------------------------------------------------
(* One vector is replaced.                                                 *)

LEMMA OneVector ==
  ASSUME IndInv, NEW h \in Vec, NEW v, NEW K, Fits(v, K, h), Filled(v, K),
         vec' = Has(vec, h, v), heap' = K, ret' \in {"ok", "oom"}
  PROVE  IndInv'
<1>1. alive' = alive \union {h} /\ vec'[h] = v /\ \A g \in alive \ {h} : vec'[g] = vec[g]
  BY DEF alive, Has
<1>2. \A g \in alive \ {h} : vec[g].data # Null =>
        /\ vec[g].data \in DOMAIN heap \ {Owned(h)} /\ vec[g].data # v.data
        /\ heap'[vec[g].data] = heap[vec[g].data] /\ vec[g].data \in DOMAIN heap'
  <2> SUFFICES ASSUME NEW g \in alive \ {h}, vec[g].data # Null
               PROVE  /\ vec[g].data \in DOMAIN heap \ {Owned(h)} /\ vec[g].data # v.data
                      /\ heap'[vec[g].data] = heap[vec[g].data] /\ vec[g].data \in DOMAIN heap'
    OBVIOUS
  <2>1. vec[g].data \in DOMAIN heap
    BY DEF IndInv, OneOwner
  <2>2. vec[g].data # Owned(h)
    BY DEF IndInv, OneOwner, Owned
  <2> QED
    BY <2>1, <2>2 DEF Fits
<1>3. TypeOK'
  <2>1. alive' \subseteq Vec
    BY <1>1 DEF IndInv, TypeOK
  <2>2. vec' \in [alive' -> Struct]
    BY <1>1 DEF IndInv, TypeOK, Fits, Has, alive
  <2>3. \A g \in alive' : vec'[g].len <= vec'[g].cap /\ (vec'[g].cap = 0 <=> vec'[g].data = Null)
    BY <1>1 DEF IndInv, TypeOK, Fits
  <2>4. DOMAIN heap' \subseteq Buf /\ heap' = [b \in DOMAIN heap' |-> heap'[b]]
    BY DEF IndInv, TypeOK, Fits, Struct
  <2>5. ASSUME NEW b \in DOMAIN heap' PROVE heap'[b] \in Buffer(DOMAIN heap'[b].cells)
    <3>1. CASE b = v.data
      <4>1. heap'[b] \in Buffer(0 .. v.cap - 1)
        BY <3>1, <2>5 DEF Fits
      <4> QED
        BY <4>1 DEF Buffer
    <3>2. CASE b # v.data
      BY <3>2 DEF IndInv, TypeOK, Fits
    <3> QED
      BY <3>1, <3>2
  <2> QED
    BY <2>1, <2>2, <2>3, <2>4, <2>5 DEF TypeOK
<1>4. OneOwner'
  <2>1. ASSUME NEW g \in alive', vec'[g].data # Null
        PROVE  /\ vec'[g].data \in DOMAIN heap' /\ heap'[vec'[g].data].al = vec'[g].al
               /\ DOMAIN heap'[vec'[g].data].cells = 0 .. vec'[g].cap - 1
    <3>1. CASE g = h
      BY <3>1, <2>1, <1>1 DEF Fits, Buffer
    <3>2. CASE g # h
      BY <3>2, <2>1, <1>1, <1>2 DEF IndInv, OneOwner
    <3> QED
      BY <3>1, <3>2
  <2>2. ASSUME NEW g \in alive', vec'[g].data # Null,
               NEW f \in alive', vec'[f].data = vec'[g].data
        PROVE  f = g
    BY <2>2, <1>1, <1>2 DEF IndInv, OneOwner
  <2>3. ASSUME NEW b \in DOMAIN heap' PROVE \E g \in alive' : vec'[g].data = b
    <3>1. CASE b = v.data
      BY <3>1, <1>1
    <3>2. CASE b # v.data
      <4>1. b \in DOMAIN heap /\ b # Owned(h)
        BY <3>2, <2>3 DEF Fits
      <4>2. PICK g \in alive : vec[g].data = b
        BY <4>1 DEF IndInv, OneOwner
      <4> QED
        BY <4>1, <4>2, <1>1 DEF Owned
    <3> QED
      BY <3>1, <3>2
  <2> QED
    BY <2>1, <2>2, <2>3 DEF OneOwner
<1>5. NoUninit'
  <2> SUFFICES ASSUME NEW g \in alive', NEW i \in 0 .. vec'[g].len - 1
               PROVE  CellsIn(heap', vec'[g])[i] # Uninit
    BY DEF NoUninit, Index, cells
  <2>1. CASE g = h
    BY <2>1, <1>1 DEF Filled
  <2>2. CASE g # h
    <3>1. g \in alive \ {h} /\ vec'[g] = vec[g]
      BY <2>2, <1>1
    <3>2. CellsIn(heap', vec'[g]) = CellsIn(heap, vec[g])
      BY <3>1, <1>2 DEF CellsIn
    <3> QED
      BY <3>1, <3>2, CellsFacts DEF Index, cells
  <2> QED
    BY <2>1, <2>2
<1> QED
  BY <1>3, <1>4, <1>5 DEF IndInv

\* The calls that keep the struct write vec with EXCEPT.
LEMMA HasExcept ==
  ASSUME IndInv, NEW h \in alive, NEW v
  PROVE  [vec EXCEPT ![h] = v] = Has(vec, h, v)
BY DEF IndInv, TypeOK, alive, Has

-----------------------------------------------------------------------------
(* What the allocator and the capacity operators return.                   *)

\* o is a new buffer beside those of H: n cells, of which the first are those
\* of c.
NewBuffer(o, H, al, n, c) ==
  /\ o.data \in Buf \ DOMAIN H /\ o.data # Null
  /\ o.heap = [b \in DOMAIN o.heap |-> o.heap[b]]
  /\ DOMAIN o.heap = DOMAIN H \union {o.data}
  /\ \A b \in DOMAIN H : o.heap[b] = H[b]
  /\ o.heap[o.data] \in Buffer(0 .. n - 1) /\ o.heap[o.data].al = al
  /\ \A i \in DOMAIN c \cap (0 .. n - 1) : o.heap[o.data].cells[i] = c[i]

LEMMA AllocFacts ==
  ASSUME NEW H, NEW al \in Al, NEW n \in Nat \ {0}, NEW c,
         \A i \in DOMAIN c : c[i] \in Cell,
         NEW o \in nx_al_alloc(H, al, n, c)
  PROVE  NewBuffer(o, H, al, n, c)
<1> DEFINE k == [i \in 0 .. n - 1 |-> IF i \in DOMAIN c THEN c[i] ELSE Uninit]
<1>1. PICK b \in Buf \ DOMAIN H : o = [heap |-> Has(H, b, [al |-> al, cells |-> k]), data |-> b]
  BY DEF nx_al_alloc
<1>2. o.data = b /\ o.heap = Has(H, b, [al |-> al, cells |-> k])
  BY <1>1
<1>3. k \in [0 .. n - 1 -> Cell]
  BY DEF Cell
<1>4. o.heap[b] = [al |-> al, cells |-> k]
  BY <1>2 DEF Has
<1>5. /\ DOMAIN o.heap = DOMAIN H \union {b} /\ \A x \in DOMAIN H : o.heap[x] = H[x]
      /\ o.heap = [x \in DOMAIN o.heap |-> o.heap[x]]
  BY <1>2 DEF Has
<1>6. o.heap[b] \in Buffer(0 .. n - 1) /\ o.heap[b].al = al /\ o.heap[b].cells = k
  BY <1>3, <1>4 DEF Buffer
<1> HIDE DEF k
<1>7. \A i \in DOMAIN c \cap (0 .. n - 1) : k[i] = c[i]
  BY DEF k
<1> QED
  BY <1>2, <1>5, <1>6, <1>7, NullAssumption DEF NewBuffer

\* The buffer of h with n cells, moved or not; the first cells are kept.
LEMMA ReallocFacts ==
  ASSUME IndInv, NEW h \in alive, NEW n \in Nat \ {0}, NEW len \in 0 .. n, len <= vec[h].len,
         NEW o \in nx_al_realloc(vec[h].al, vec[h].data, n),
         NEW v, v = set_fields(o.data, len, n, vec[h].al)
  PROVE  Fits(v, o.heap, h) /\ Filled(v, o.heap) /\ HasThose(v, o.heap, cells(h))
<1> DEFINE old == IF vec[h].data = Null THEN [i \in {} |-> Zero] ELSE heap[vec[h].data].cells
<1>1. /\ cells(h) \in [0 .. vec[h].cap - 1 -> Cell] /\ \A i \in Index(h) : cells(h)[i] # Uninit
      /\ vec[h] \in Struct /\ vec[h].len \in 0 .. vec[h].cap /\ Fits(vec[h], heap, h)
  BY CellsFacts
<1>2. old = cells(h) /\ vec[h].al \in Al /\ Owned(h) = vec[h].data
  BY <1>1 DEF cells, CellsIn, Struct, Owned
<1>3. \A i \in DOMAIN old : old[i] \in Cell
  BY <1>1, <1>2
<1> HIDE DEF old
<1>4. /\ o.data \in Buf /\ o.data \notin DOMAIN heap \ {Owned(h)} /\ o.data # Null
      /\ o.heap = [b \in DOMAIN o.heap |-> o.heap[b]]
      /\ DOMAIN o.heap = (DOMAIN heap \ {Owned(h)}) \union {o.data}
      /\ \A b \in DOMAIN o.heap : b # o.data => o.heap[b] = heap[b]
      /\ o.heap[o.data] \in Buffer(0 .. n - 1) /\ o.heap[o.data].al = vec[h].al
      /\ \A i \in DOMAIN old \cap (0 .. n - 1) : o.heap[o.data].cells[i] = old[i]
  <2>1. CASE vec[h].data # Null /\ o \in nx_al_alloc(Lacks(heap, vec[h].data), vec[h].al, n, old)
    <3>1. NewBuffer(o, Lacks(heap, vec[h].data), vec[h].al, n, old)
      BY <2>1, <1>2, <1>3, AllocFacts
    <3>2. /\ DOMAIN Lacks(heap, vec[h].data) = DOMAIN heap \ {vec[h].data}
          /\ \A b \in DOMAIN heap \ {vec[h].data} : Lacks(heap, vec[h].data)[b] = heap[b]
      BY DEF Lacks
    <3> QED
      BY <3>1, <3>2, <1>2 DEF NewBuffer
  <2>2. CASE \E q \in nx_al_alloc(heap, vec[h].al, n, old) :
               o = [heap |-> nx_al_dealloc(q.heap, vec[h].data), data |-> q.data]
    <3>1. PICK q \in nx_al_alloc(heap, vec[h].al, n, old) :
                 o = [heap |-> nx_al_dealloc(q.heap, vec[h].data), data |-> q.data]
      BY <2>2
    <3>2. NewBuffer(q, heap, vec[h].al, n, old)
      BY <1>2, <1>3, AllocFacts
    <3>3. o.data = q.data /\ o.heap = nx_al_dealloc(q.heap, vec[h].data)
      BY <3>1
    <3>4. CASE vec[h].data = Null
      <4>1. o.heap = q.heap
        BY <3>3, <3>4 DEF nx_al_dealloc
      <4>2. Null \notin DOMAIN heap
        BY <1>1 DEF Fits
      <4> QED
        BY <4>1, <4>2, <3>2, <3>3, <3>4, <1>2 DEF NewBuffer
    <3>5. CASE vec[h].data # Null
      <4>1. o.heap = Lacks(q.heap, vec[h].data)
        BY <3>3, <3>5 DEF nx_al_dealloc
      <4>2. vec[h].data \in DOMAIN heap /\ vec[h].data # q.data
        BY <3>2, <3>5, <1>1 DEF Fits, NewBuffer
      <4>3. /\ DOMAIN o.heap = DOMAIN q.heap \ {vec[h].data}
            /\ \A b \in DOMAIN o.heap : o.heap[b] = q.heap[b]
            /\ o.heap = [b \in DOMAIN o.heap |-> o.heap[b]]
        BY <4>1 DEF Lacks
      <4> QED
        BY <4>2, <4>3, <3>2, <3>3, <1>2 DEF NewBuffer
    <3> QED
      BY <3>4, <3>5
  <2> QED
    BY <2>1, <2>2 DEF nx_al_realloc, old
<1>5. /\ v \in Struct /\ v.data = o.data /\ v.len = len /\ v.cap = n /\ v.al = vec[h].al
  BY <1>2, <1>4 DEF set_fields, Struct
<1>6. Fits(v, o.heap, h)
  <2>1. Null \notin DOMAIN heap
    BY <1>1 DEF Fits
  <2> QED
    BY <1>4, <1>5, <2>1 DEF Fits
<1>7. Filled(v, o.heap) /\ HasThose(v, o.heap, cells(h))
  <2> SUFFICES ASSUME NEW i \in 0 .. len - 1
               PROVE  /\ o.heap[o.data].cells[i] # Uninit
                      /\ o.heap[o.data].cells[i] = cells(h)[i]
    BY <1>4, <1>5 DEF Filled, HasThose, CellsIn
  <2>1. i \in DOMAIN old \cap (0 .. n - 1) /\ i \in Index(h)
    BY <1>1, <1>2 DEF Index, Struct
  <2> QED
    BY <2>1, <1>1, <1>2, <1>4
<1> QED
  BY <1>6, <1>7

LEMMA ReservedFacts ==
  ASSUME IndInv, NEW h \in alive, NEW n \in Nat, NEW r \in Reserved(h, n)
  PROVE  /\ Fits(r.v, r.heap, h) /\ Filled(r.v, r.heap) /\ HasThose(r.v, r.heap, cells(h))
         /\ r.v.len = vec[h].len /\ r.v.cap = IF n <= vec[h].cap THEN vec[h].cap ELSE n
<1>1. /\ vec[h] \in Struct /\ vec[h].len \in 0 .. vec[h].cap /\ Fits(vec[h], heap, h)
      /\ Filled(vec[h], heap) /\ HasThose(vec[h], heap, cells(h))
  BY CellsFacts DEF Filled, HasThose, Index, cells
<1>2. CASE n <= vec[h].cap
  BY <1>1, <1>2 DEF Reserved
<1>3. CASE ~(n <= vec[h].cap)
  <2>1. PICK o \in nx_al_realloc(vec[h].al, vec[h].data, n) :
          r = [heap |-> o.heap, v |-> [vec[h] EXCEPT !.data = o.data, !.cap = n]]
    BY <1>3 DEF Reserved
  <2>2. r.heap = o.heap /\ r.v = set_fields(o.data, vec[h].len, n, vec[h].al)
    BY <2>1, <1>1 DEF set_fields, Struct
  <2>3. n \in Nat \ {0} /\ vec[h].len \in 0 .. n /\ vec[h].len <= vec[h].len
    BY <1>1, <1>3 DEF Struct
  <2>4. Fits(r.v, o.heap, h) /\ Filled(r.v, o.heap) /\ HasThose(r.v, o.heap, cells(h))
    BY <2>2, <2>3, ReallocFacts
  <2> QED
    BY <2>2, <2>3, <2>4, <1>3 DEF set_fields
<1> QED
  BY <1>2, <1>3

LEMMA EnsureCapFacts ==
  ASSUME IndInv, NEW h \in alive, NEW n \in Nat, NEW r \in ensure_cap(h, n)
  PROVE  /\ Fits(r.v, r.heap, h) /\ Filled(r.v, r.heap) /\ HasThose(r.v, r.heap, cells(h))
         /\ r.v.len = vec[h].len /\ n <= r.v.cap
         /\ n <= vec[h].cap => r.v.cap = vec[h].cap
<1>1. vec[h].cap \in Nat
  BY CellsFacts DEF Struct
<1>2. CASE n <= vec[h].cap
  BY <1>2, ReservedFacts DEF ensure_cap, Reserved
<1>3. CASE ~(n <= vec[h].cap)
  <2>1. PICK c \in NewCaps(vec[h].cap, n) : r \in Reserved(h, c)
    BY <1>3 DEF ensure_cap
  <2>2. c \in Nat /\ n <= c
    BY <2>1, SizeAssumption DEF NewCaps
  <2>3. /\ Fits(r.v, r.heap, h) /\ Filled(r.v, r.heap) /\ HasThose(r.v, r.heap, cells(h))
        /\ r.v.len = vec[h].len /\ c <= r.v.cap
    BY <2>1, <2>2, <1>1, ReservedFacts
  <2> QED
    BY <2>2, <2>3, <1>3 DEF Fits, Struct
<1> QED
  BY <1>2, <1>3

-----------------------------------------------------------------------------
(* The ways a call ends.                                                   *)

LEMMA FitsCells ==
  ASSUME NEW v, NEW K, NEW h, Fits(v, K, h)
  PROVE  CellsIn(K, v) \in [0 .. v.cap - 1 -> Cell]
<1>1. CASE v.data = Null
  BY <1>1, 0 .. 0 - 1 = {} DEF Fits, CellsIn
<1>2. CASE v.data # Null
  BY <1>2 DEF Fits, CellsIn, Buffer
<1> QED
  BY <1>1, <1>2

LEMMA SameInv ==
  ASSUME IndInv, UNCHANGED <<vec, heap>>, ret' \in {"ok", "oom"}
  PROVE  IndInv'
BY DEF IndInv, TypeOK, OneOwner, NoUninit, alive, Index, cells

\* What Store makes of h: a vector w and a heap that fit, with the cells c.
LEMMA StoreFits ==
  ASSUME IndInv, NEW h \in alive, NEW r, Fits(r.v, r.heap, h),
         NEW n \in 0 .. r.v.cap, NEW c \in [0 .. r.v.cap - 1 -> Cell],
         Store(h, r, c, n)
  PROVE  \E w : /\ vec' = Has(vec, h, w) /\ Fits(w, heap', h) /\ HasThose(w, heap', c)
                /\ w.len = n /\ w.cap = r.v.cap
<1> DEFINE v == [r.v EXCEPT !.len = n]
           K == IF r.v.data = Null THEN r.heap ELSE [r.heap EXCEPT ![r.v.data].cells = c]
<1>1. /\ v \in Struct /\ v.data = r.v.data /\ v.len = n /\ v.cap = r.v.cap /\ v.al = r.v.al
      /\ n <= v.cap
  BY DEF Fits, Struct
<1>2. vec' = Has(vec, h, v) /\ heap' = K
  BY HasExcept DEF Store, IndInv, TypeOK
<1>3. Fits(v, K, h) /\ HasThose(v, K, c)
  <2>1. CASE r.v.data = Null
    BY <2>1, <1>1, 0 .. 0 - 1 = {} DEF Fits, HasThose, CellsIn
  <2>2. CASE r.v.data # Null
    <3>1. /\ r.v.data \in DOMAIN r.heap
          /\ r.heap[r.v.data] \in Buffer(0 .. r.v.cap - 1) /\ r.heap[r.v.data].al = r.v.al
      BY <2>2 DEF Fits
    <3>2. /\ DOMAIN K = DOMAIN r.heap /\ K = [b \in DOMAIN K |-> K[b]]
          /\ K[r.v.data] = [r.heap[r.v.data] EXCEPT !.cells = c]
          /\ \A b \in DOMAIN K : b # r.v.data => K[b] = r.heap[b]
      BY <2>2, <3>1 DEF Fits
    <3>3. /\ K[r.v.data] \in Buffer(0 .. r.v.cap - 1) /\ K[r.v.data].al = r.v.al
          /\ K[r.v.data].cells = c
      BY <3>1, <3>2 DEF Buffer
    <3> HIDE DEF K, v
    <3>4. Fits(v, K, h)
      BY <1>1, <3>2, <3>3, <2>2 DEF Fits
    <3>5. HasThose(v, K, c)
      BY <1>1, <3>3, <2>2 DEF HasThose, CellsIn
    <3> QED
      BY <3>4, <3>5
  <2> QED
    BY <2>1, <2>2
<1> HIDE DEF v, K
<1> QED
  BY <1>1, <1>2, <1>3

LEMMA StoreInv ==
  ASSUME IndInv, NEW h \in alive, NEW r, Fits(r.v, r.heap, h),
         NEW n \in 0 .. r.v.cap, NEW c \in [0 .. r.v.cap - 1 -> Cell],
         \A i \in 0 .. n - 1 : c[i] # Uninit,
         Store(h, r, c, n)
  PROVE  IndInv'
<1>1. PICK w : /\ vec' = Has(vec, h, w) /\ Fits(w, heap', h) /\ HasThose(w, heap', c)
               /\ w.len = n
  BY StoreFits
<1>2. Filled(w, heap')
  BY <1>1 DEF Filled, HasThose
<1>3. h \in Vec /\ ret' \in {"ok", "oom"}
  BY DEF Store, IndInv, TypeOK
<1> QED
  BY <1>1, <1>2, <1>3, OneVector

LEMMA ShortenedFits ==
  ASSUME IndInv, NEW h \in alive, NEW n \in 0 .. vec[h].len, Shortened(h, n)
  PROVE  \E w : /\ vec' = Has(vec, h, w) /\ Fits(w, heap', h) /\ HasThose(w, heap', cells(h))
                /\ w.len = n /\ w.cap = vec[h].cap
<1> DEFINE v == [vec[h] EXCEPT !.len = n]
<1>1. vec[h] \in Struct /\ vec[h].len \in 0 .. vec[h].cap /\ Fits(vec[h], heap, h)
  BY CellsFacts
<1>2. /\ v \in Struct /\ v.data = vec[h].data /\ v.len = n /\ v.cap = vec[h].cap
      /\ v.al = vec[h].al /\ v.len <= v.cap
  BY <1>1 DEF Struct
<1>3. vec' = Has(vec, h, v) /\ heap' = heap
  <2>1. vec' = [vec EXCEPT ![h] = v]
    BY DEF Shortened
  <2> HIDE DEF v
  <2> QED
    BY <2>1, HasExcept DEF Shortened
<1> HIDE DEF v
<1>4. Fits(v, heap, h)
  BY <1>1, <1>2 DEF Fits
<1>5. HasThose(v, heap, cells(h))
  BY <1>2 DEF HasThose, CellsIn, cells
<1> QED
  BY <1>2, <1>3, <1>4, <1>5

LEMMA ShortenedInv ==
  ASSUME IndInv, NEW h \in alive, NEW n \in 0 .. vec[h].len,
         Shortened(h, n), ret' = "ok"
  PROVE  IndInv'
<1>1. PICK w : /\ vec' = Has(vec, h, w) /\ Fits(w, heap', h) /\ HasThose(w, heap', cells(h))
               /\ w.len = n
  BY ShortenedFits
<1>2. Filled(w, heap')
  <2>1. 0 .. w.len - 1 \subseteq Index(h) /\ \A i \in Index(h) : cells(h)[i] # Uninit
    BY <1>1, CellsFacts DEF Index, Struct
  <2> QED
    BY <1>1, <2>1 DEF Filled, HasThose
<1>3. h \in Vec
  BY DEF IndInv, TypeOK
<1> QED
  BY <1>1, <1>2, <1>3, OneVector

\* A buffer obtained for h in place of the one it had, if any.
LEMMA ReplacedFits ==
  ASSUME IndInv, NEW h \in Vec, NEW al \in Al, NEW n \in Nat \ {0}, NEW len \in 0 .. n,
         NEW c \in [0 .. len - 1 -> Cell], \A i \in 0 .. len - 1 : c[i] # Uninit,
         NEW o \in nx_al_alloc(heap, al, n, c),
         NEW v, v = set_fields(o.data, len, n, al),
         NEW K, K = nx_al_dealloc(o.heap, Owned(h))
  PROVE  Fits(v, K, h) /\ Filled(v, K) /\ HasThose(v, K, c)
<1>1. \A i \in DOMAIN c : c[i] \in Cell
  OBVIOUS
<1>2. NewBuffer(o, heap, al, n, c)
  BY <1>1, AllocFacts
<1>3. v \in Struct /\ v.data = o.data /\ v.len = len /\ v.cap = n /\ v.al = al
  BY <1>2 DEF set_fields, Struct, NewBuffer
<1>4. Owned(h) # Null => Owned(h) \in DOMAIN heap
  BY DEF Owned, IndInv, OneOwner
<1>5. Null \notin DOMAIN heap
  BY NullAssumption DEF IndInv, TypeOK
<1>6. /\ DOMAIN K = DOMAIN o.heap \ {Owned(h)} /\ K = [b \in DOMAIN K |-> K[b]]
      /\ \A b \in DOMAIN K : K[b] = o.heap[b]
  <2>1. CASE Owned(h) = Null
    BY <2>1, <1>2, <1>5 DEF nx_al_dealloc, NewBuffer
  <2>2. CASE Owned(h) # Null
    <3>1. K = Lacks(o.heap, Owned(h))
      BY <2>2 DEF nx_al_dealloc
    <3> QED
      BY <3>1 DEF Lacks
  <2> QED
    BY <2>1, <2>2
<1>7. v.data \in DOMAIN K /\ K[v.data] = o.heap[o.data]
  BY <1>2, <1>3, <1>4, <1>6 DEF NewBuffer
<1>8. Fits(v, K, h)
  BY <1>2, <1>3, <1>4, <1>5, <1>6, <1>7 DEF Fits, NewBuffer
<1>9. Filled(v, K) /\ HasThose(v, K, c)
  <2> SUFFICES ASSUME NEW i \in 0 .. len - 1 PROVE o.heap[o.data].cells[i] = c[i]
    BY <1>2, <1>3, <1>7 DEF Filled, HasThose, CellsIn, NewBuffer
  <2>1. i \in DOMAIN c \cap (0 .. n - 1)
    OBVIOUS
  <2> QED
    BY <2>1, <1>2 DEF NewBuffer
<1> QED
  BY <1>8, <1>9

LEMMA CreatedInv ==
  ASSUME IndInv, NEW h \in Vec \ alive, NEW al \in Al, NEW cap \in Nat, NEW len \in 0 .. cap,
         NEW c \in [0 .. len - 1 -> Cell], \A i \in 0 .. len - 1 : c[i] # Uninit,
         Created(h, len, cap, al, c)
  PROVE  IndInv'
<1>1. Owned(h) = Null /\ Null \notin DOMAIN heap /\ heap = [b \in DOMAIN heap |-> heap[b]]
  BY NullAssumption DEF Owned, IndInv, TypeOK
<1>2. CASE cap = 0
  <2> DEFINE v == set_fields(Null, 0, 0, al)
  <2>1. v \in Struct /\ v.data = Null /\ v.len = 0 /\ v.cap = 0
    BY DEF set_fields, Struct
  <2>2. vec' = Has(vec, h, v) /\ heap' = heap /\ ret' \in {"ok", "oom"}
    BY <1>2 DEF Created
  <2> HIDE DEF v
  <2>3. Fits(v, heap, h)
    <3>1. DOMAIN heap = ((DOMAIN heap \ {Null}) \union {Null}) \ {Null}
      BY <1>1
    <3> QED
      BY <2>1, <1>1, <3>1 DEF Fits
  <2>4. Filled(v, heap)
    BY <2>1 DEF Filled
  <2> QED
    BY <2>2, <2>3, <2>4, OneVector
<1>3. CASE cap # 0
  <2>1. PICK o \in nx_al_alloc(heap, al, cap, c) :
          /\ heap' = o.heap /\ ret' = "ok"
          /\ vec' = Has(vec, h, set_fields(o.data, len, cap, al))
    BY <1>3 DEF Created
  <2>2. o.heap = nx_al_dealloc(o.heap, Owned(h))
    BY <1>1 DEF nx_al_dealloc
  <2>3. /\ Fits(set_fields(o.data, len, cap, al), o.heap, h)
        /\ Filled(set_fields(o.data, len, cap, al), o.heap)
    BY <2>2, <1>3, ReplacedFits
  <2> QED
    BY <2>1, <2>3, OneVector
<1> QED
  BY <1>2, <1>3

-----------------------------------------------------------------------------
(* The calls.                                                              *)

\* The first n cells of c are not indeterminate.
Known(c, n) == \A i \in 0 .. n - 1 : c[i] # Uninit

LEMMA MemcpyFacts ==
  ASSUME NEW cap \in Nat, NEW n \in Nat, NEW k \in Nat, n + k <= cap,
         NEW c \in [0 .. cap - 1 -> Cell], Known(c, n),
         NEW s, \A i \in 0 .. k - 1 : s[i] \in Cell, Known(s, k)
  PROVE  memcpy(c, n, s, k) \in [0 .. cap - 1 -> Cell] /\ Known(memcpy(c, n, s, k), n + k)
<1> DEFINE d == memcpy(c, n, s, k)
<1>1. \A i \in 0 .. cap - 1 : n <= i /\ i < n + k => i - n \in 0 .. k - 1
  OBVIOUS
<1>2. d \in [0 .. cap - 1 -> Cell]
  BY <1>1 DEF memcpy
<1>3. ASSUME NEW i \in 0 .. (n + k) - 1 PROVE d[i] # Uninit
  BY <1>1, <1>3 DEF Known, memcpy
<1> QED
  BY <1>2, <1>3 DEF Known

LEMMA ZerosFacts ==
  ASSUME NEW n \in Nat
  PROVE  Zeros(n) \in [0 .. n - 1 -> Cell] /\ Known(Zeros(n), n)
BY CellAssumption DEF Zeros, Known, Cell

LEMMA FailsInv == ASSUME IndInv, Fails PROVE IndInv'
BY SameInv DEF Fails

LEMMA ElemsFacts ==
  ASSUME IndInv, NEW g \in alive
  PROVE  /\ Elems(cells(g), vec[g].len) \in [0 .. vec[g].len - 1 -> Cell]
         /\ \A i \in 0 .. vec[g].len - 1 : Elems(cells(g), vec[g].len)[i] # Uninit
<1>1. /\ cells(g) \in [0 .. vec[g].cap - 1 -> Cell] /\ \A i \in Index(g) : cells(g)[i] # Uninit
      /\ vec[g].len \in 0 .. vec[g].cap /\ vec[g].cap \in Nat
  BY CellsFacts DEF Struct
<1> QED
  BY <1>1 DEF Elems, Index

LEMMA NewInv ==
  ASSUME IndInv, NEW h \in Vec \ alive, NEW al \in Al,
         \/ \E len, cap \in Lens : new_p(h, len, cap, al)
         \/ \E g \in alive : from_data(h, g, al) \/ copy_a(h, g, al)
  PROVE  IndInv'
<1>1. ASSUME NEW len \in Lens, NEW cap \in Lens, new_p(h, len, cap, al) PROVE IndInv'
  <2> DEFINE c == Zeros(len)
  <2>1. len \in 0 .. cap /\ cap \in Nat
    BY <1>1, SizeAssumption DEF new_p
  <2>2. c \in [0 .. len - 1 -> Cell] /\ \A i \in 0 .. len - 1 : c[i] # Uninit
    BY <2>1, ZerosFacts DEF Known
  <2>3. Created(h, len, cap, al, c) \/ Fails
    BY <1>1 DEF new_p
  <2> HIDE DEF c
  <2> QED
    BY <2>1, <2>2, <2>3, CreatedInv, FailsInv
<1>2. ASSUME NEW g \in alive, from_data(h, g, al) \/ copy_a(h, g, al) PROVE IndInv'
  <2>1. vec[g].len \in 0 .. vec[g].cap /\ vec[g].cap \in Nat /\ vec[g].len \in 0 .. vec[g].len
    BY CellsFacts DEF Struct
  <2>2. CASE from_data(h, g, al)
    <3>1. Created(h, vec[g].len, vec[g].len, al, Elems(cells(g), vec[g].len)) \/ Fails
      BY <2>2 DEF from_data
    <3>2. vec[g].len \in Nat
      BY <2>1
    <3> QED
      BY <3>1, <3>2, <2>1, ElemsFacts, CreatedInv, FailsInv
  <2>3. CASE copy_a(h, g, al)
    BY <2>1, <2>3, ElemsFacts, CreatedInv, FailsInv DEF copy_a
  <2> QED
    BY <1>2, <2>2, <2>3
<1> QED
  BY <1>1, <1>2

LEMMA DropInv == ASSUME IndInv, NEW h \in alive, drop(h) PROVE IndInv'
<1>1. /\ alive' = alive \ {h} /\ \A g \in alive' : vec'[g] = vec[g]
      /\ vec' = [g \in alive' |-> vec[g]]
  BY DEF drop, Lacks, alive
<1>2. /\ DOMAIN heap' = DOMAIN heap \ {vec[h].data} /\ \A b \in DOMAIN heap' : heap'[b] = heap[b]
      /\ heap' = [b \in DOMAIN heap' |-> heap'[b]]
  <2>1. CASE vec[h].data = Null
    BY <2>1, NullAssumption DEF drop, nx_al_dealloc, IndInv, TypeOK
  <2>2. CASE vec[h].data # Null
    BY <2>2 DEF drop, nx_al_dealloc, Lacks
  <2> QED
    BY <2>1, <2>2
<1>3. \A g \in alive' : vec[g].data # Null => vec[g].data \in DOMAIN heap'
  BY <1>1, <1>2 DEF IndInv, OneOwner
<1>4. TypeOK'
  BY <1>1, <1>2 DEF IndInv, TypeOK, drop
<1>5. OneOwner'
  BY <1>1, <1>2, <1>3 DEF IndInv, OneOwner
<1>6. NoUninit'
  <2> SUFFICES ASSUME NEW g \in alive', NEW i \in 0 .. vec[g].len - 1
               PROVE  CellsIn(heap', vec[g])[i] # Uninit
    BY <1>1 DEF NoUninit, Index, cells
  <2>1. CellsIn(heap', vec[g]) = CellsIn(heap, vec[g])
    BY <1>2, <1>3 DEF CellsIn
  <2> QED
    BY <2>1, <1>1 DEF IndInv, NoUninit, Index, cells
<1> QED
  BY <1>4, <1>5, <1>6 DEF IndInv

LEMMA MoveInv ==
  ASSUME IndInv, NEW h \in Vec \ alive, NEW g \in alive, move(h, g) PROVE IndInv'
<1>1. /\ alive' = (alive \ {g}) \union {h} /\ vec'[h] = vec[g] /\ heap' = heap
      /\ \A e \in alive \ {g} : vec'[e] = vec[e] /\ vec' = [f \in alive' |-> vec'[f]]
  BY DEF move, Has, Lacks, alive
<1>2. \A f \in alive' : vec'[f] = vec[IF f = h THEN g ELSE f] /\ (IF f = h THEN g ELSE f) \in alive
  BY <1>1
<1>3. vec' = [f \in alive' |-> vec'[f]] /\ h # g
  BY DEF move, Has, Lacks, alive
<1>4. TypeOK'
  BY <1>1, <1>2, <1>3 DEF IndInv, TypeOK, move
<1>5. OneOwner'
  <2>1. ASSUME NEW f \in alive', vec'[f].data # Null
        PROVE  /\ vec'[f].data \in DOMAIN heap' /\ heap'[vec'[f].data].al = vec'[f].al
               /\ DOMAIN heap'[vec'[f].data].cells = 0 .. vec'[f].cap - 1
               /\ \A e \in alive' : vec'[e].data = vec'[f].data => e = f
    BY <2>1, <1>1, <1>2 DEF IndInv, OneOwner
  <2>2. ASSUME NEW b \in DOMAIN heap' PROVE \E f \in alive' : vec'[f].data = b
    BY <1>1, <2>2 DEF IndInv, OneOwner
  <2> QED
    BY <2>1, <2>2 DEF OneOwner
<1>6. NoUninit'
  BY <1>1, <1>2 DEF IndInv, NoUninit, Index, cells
<1> QED
  BY <1>4, <1>5, <1>6 DEF IndInv

LEMMA SwapInv ==
  ASSUME IndInv, NEW a \in alive, NEW b \in alive, swap(a, b) PROVE IndInv'
<1> DEFINE other(f) == IF f = a THEN b ELSE IF f = b THEN a ELSE f
<1>1. vec' = [f \in alive |-> vec[other(f)]] /\ heap' = heap /\ ret' \in {"ok", "oom"}
  BY DEF swap, IndInv, TypeOK
<1>2. /\ alive' = alive
      /\ \A f \in alive : vec'[f] = vec[other(f)] /\ other(f) \in alive /\ other(other(f)) = f
  BY <1>1 DEF alive
<1> HIDE DEF other
<1>3. TypeOK'
  BY <1>1, <1>2 DEF IndInv, TypeOK
<1>4. OneOwner'
  <2>1. ASSUME NEW f \in alive', vec'[f].data # Null
        PROVE  /\ vec'[f].data \in DOMAIN heap' /\ heap'[vec'[f].data].al = vec'[f].al
               /\ DOMAIN heap'[vec'[f].data].cells = 0 .. vec'[f].cap - 1
               /\ \A e \in alive' : vec'[e].data = vec'[f].data => e = f
    BY <2>1, <1>1, <1>2 DEF IndInv, OneOwner
  <2>2. ASSUME NEW x \in DOMAIN heap' PROVE \E f \in alive' : vec'[f].data = x
    BY <1>1, <1>2, <2>2 DEF IndInv, OneOwner
  <2> QED
    BY <2>1, <2>2 DEF OneOwner
<1>5. NoUninit'
  BY <1>1, <1>2 DEF IndInv, NoUninit, Index, cells
<1> QED
  BY <1>3, <1>4, <1>5 DEF IndInv

LEMMA MoveAssignInv ==
  ASSUME IndInv, NEW self \in alive, NEW src \in alive, move_assign(self, src) PROVE IndInv'
<1>1. CASE self = src
  BY <1>1, SameInv DEF move_assign
<1>2. CASE self # src
  <2> DEFINE empty == set_fields(Null, 0, 0, vec[src].al)
  <2>1. /\ alive' = alive /\ vec'[self] = vec[src] /\ vec'[src] = empty
        /\ \A g \in alive \ {self, src} : vec'[g] = vec[g]
        /\ vec' = [g \in alive |-> vec'[g]]
        /\ heap' = nx_al_dealloc(heap, vec[self].data) /\ ret' \in {"ok", "oom"}
    BY <1>2 DEF move_assign, IndInv, TypeOK, alive
  <2>2. /\ empty \in Struct /\ empty.data = Null /\ empty.len = 0 /\ empty.cap = 0
    BY DEF set_fields, Struct, IndInv, TypeOK
  <2> HIDE DEF empty
  <2>3. /\ DOMAIN heap' = DOMAIN heap \ {vec[self].data}
        /\ \A b \in DOMAIN heap' : heap'[b] = heap[b]
        /\ heap' = [b \in DOMAIN heap' |-> heap'[b]]
    <3>1. CASE vec[self].data = Null
      BY <3>1, <2>1, NullAssumption DEF nx_al_dealloc, IndInv, TypeOK
    <3>2. CASE vec[self].data # Null
      BY <3>2, <2>1 DEF nx_al_dealloc, Lacks
    <3> QED
      BY <3>1, <3>2
  <2>4. \A g \in alive \ {self} : vec[g].data # Null => vec[g].data \in DOMAIN heap'
    BY <2>3 DEF IndInv, OneOwner
  <2>5. \A g \in alive \ {src} : \E f \in alive \ {self} :
          vec'[g] = vec[f] /\ (f = IF g = self THEN src ELSE g)
    BY <2>1, <1>2
  <2>6. TypeOK'
    BY <2>1, <2>2, <2>3, <2>5 DEF IndInv, TypeOK
  <2>7. OneOwner'
    <3>1. ASSUME NEW g \in alive', vec'[g].data # Null
          PROVE  /\ vec'[g].data \in DOMAIN heap' /\ heap'[vec'[g].data].al = vec'[g].al
                 /\ DOMAIN heap'[vec'[g].data].cells = 0 .. vec'[g].cap - 1
      <4>1. g \in alive \ {src}
        BY <3>1, <2>1, <2>2
      <4> QED
        BY <3>1, <4>1, <2>3, <2>4, <2>5 DEF IndInv, OneOwner
    <3>2. ASSUME NEW g \in alive', vec'[g].data # Null,
                 NEW f \in alive', vec'[f].data = vec'[g].data
          PROVE  f = g
      <4>1. g \in alive \ {src} /\ f \in alive \ {src}
        BY <3>2, <2>1, <2>2
      <4> QED
        BY <3>2, <4>1, <2>5 DEF IndInv, OneOwner
    <3>3. ASSUME NEW b \in DOMAIN heap' PROVE \E g \in alive' : vec'[g].data = b
      <4>1. b \in DOMAIN heap /\ b # vec[self].data
        BY <3>3, <2>3
      <4>2. PICK f \in alive : vec[f].data = b
        BY <4>1 DEF IndInv, OneOwner
      <4> QED
        BY <4>1, <4>2, <2>1
    <3> QED
      BY <3>1, <3>2, <3>3 DEF OneOwner
  <2>8. NoUninit'
    <3> SUFFICES ASSUME NEW g \in alive', NEW i \in 0 .. vec'[g].len - 1
                 PROVE  CellsIn(heap', vec'[g])[i] # Uninit
      BY DEF NoUninit, Index, cells
    <3>1. g \in alive \ {src}
      BY <2>1, <2>2
    <3>2. PICK f \in alive \ {self} : vec'[g] = vec[f]
      BY <3>1, <2>5
    <3>3. CellsIn(heap', vec[f]) = CellsIn(heap, vec[f])
      BY <2>3, <2>4 DEF CellsIn
    <3> QED
      BY <3>2, <3>3 DEF IndInv, NoUninit, Index, cells
  <2> QED
    BY <2>6, <2>7, <2>8 DEF IndInv
<1> QED
  BY <1>1, <1>2

LEMMA CopyAssignInv ==
  ASSUME IndInv, NEW self \in alive, NEW src \in alive, copy_assign(self, src) PROVE IndInv'
<1> DEFINE s == vec[src]
           c == Elems(cells(src), s.len)
           d == memcpy(cells(self), 0, c, s.len)
<1>1. s \in Struct /\ s.len \in 0 .. s.cap
  BY CellsFacts
<1>2. /\ vec[self] \in Struct /\ vec[self].len \in 0 .. vec[self].cap
      /\ cells(self) \in [0 .. vec[self].cap - 1 -> Cell] /\ Fits(vec[self], heap, self)
  BY CellsFacts
<1>3. c \in [0 .. s.len - 1 -> Cell] /\ \A i \in 0 .. s.len - 1 : c[i] # Uninit
  BY ElemsFacts
<1> HIDE DEF c
<1>4. CASE self = src /\ ret' = "ok" /\ UNCHANGED <<vec, heap>>
  BY <1>4, SameInv
<1>5. CASE Shortened(self, 0) /\ ret' = "ok"
  BY <1>5, <1>2, ShortenedInv
<1>6. CASE /\ s.len <= vec[self].cap
           /\ Store(self, [heap |-> heap, v |-> vec[self]], d, s.len)
  <2>1. d \in [0 .. vec[self].cap - 1 -> Cell] /\ Known(d, s.len)
    <3>1. /\ vec[self].cap \in Nat /\ s.len \in Nat /\ 0 + s.len <= vec[self].cap
          /\ 0 + s.len = s.len
      BY <1>1, <1>2, <1>6 DEF Struct
    <3>2. Known(cells(self), 0) /\ Known(c, s.len) /\ \A i \in 0 .. s.len - 1 : c[i] \in Cell
      BY <1>3 DEF Known
    <3> DEFINE k == s.len
    <3>3. d = memcpy(cells(self), 0, c, k)
      OBVIOUS
    <3> HIDE DEF s, k, d
    <3>4. k \in Nat /\ 0 + k = k /\ Known(cells(self), 0) /\ Known(c, k) /\ 0 + k <= vec[self].cap
      BY <3>1, <3>2 DEF k
    <3>5. \A i \in 0 .. k - 1 : c[i] \in Cell
      BY <3>2 DEF k
    <3>6. d \in [0 .. vec[self].cap - 1 -> Cell] /\ Known(d, 0 + k)
      BY <3>1, <3>3, <3>4, <3>5, <1>2, MemcpyFacts
    <3> QED
      BY <3>4, <3>6 DEF k
  <2>2. s.len \in 0 .. vec[self].cap
    BY <1>1, <1>6 DEF Struct
  <2> HIDE DEF s, d
  <2> QED
    BY <2>1, <2>2, <1>2, <1>6, StoreInv DEF Known
<1>7. CASE s.len > vec[self].cap /\ Fails
  BY <1>7, FailsInv
<1>8. CASE /\ s.len > vec[self].cap
           /\ \E o \in nx_al_alloc(heap, vec[self].al, s.cap, c) :
                /\ heap' = nx_al_dealloc(o.heap, vec[self].data) /\ ret' = "ok"
                /\ vec' = [vec EXCEPT ![self] = set_fields(o.data, s.len, s.cap, @.al)]
  <2>1. PICK o \in nx_al_alloc(heap, vec[self].al, s.cap, c) :
          /\ heap' = nx_al_dealloc(o.heap, vec[self].data) /\ ret' = "ok"
          /\ vec' = [vec EXCEPT ![self] = set_fields(o.data, s.len, s.cap, vec[self].al)]
    BY <1>8
  <2> DEFINE v == set_fields(o.data, s.len, s.cap, vec[self].al)
  <2>2. vec[self].al \in Al /\ s.cap \in Nat \ {0} /\ self \in Vec /\ Owned(self) = vec[self].data
    BY <1>1, <1>2, <1>8 DEF Struct, IndInv, TypeOK, Owned
  <2>3. Fits(v, heap', self) /\ Filled(v, heap')
    BY <2>1, <2>2, <1>1, <1>3, ReplacedFits
  <2>4. vec' = Has(vec, self, v)
    BY <2>1, HasExcept
  <2> HIDE DEF v
  <2> QED
    BY <2>1, <2>2, <2>3, <2>4, OneVector
<1> QED
  BY <1>4, <1>5, <1>6, <1>7, <1>8 DEF copy_assign, c

LEMMA SetInv ==
  ASSUME IndInv, NEW h \in alive, NEW idx \in Index(h), NEW x \in Val, set(h, idx, x)
  PROVE  IndInv'
<1> DEFINE r == [heap |-> heap, v |-> vec[h]]
           c == [cells(h) EXCEPT ![idx] = x]
<1>1. /\ cells(h) \in [0 .. vec[h].cap - 1 -> Cell] /\ \A i \in Index(h) : cells(h)[i] # Uninit
      /\ vec[h] \in Struct /\ vec[h].len \in 0 .. vec[h].cap /\ Fits(r.v, r.heap, h)
  BY CellsFacts
<1>2. c \in [0 .. vec[h].cap - 1 -> Cell] /\ \A i \in 0 .. vec[h].len - 1 : c[i] # Uninit
  BY <1>1, CellAssumption DEF Index, Cell, Struct
<1>3. Store(h, r, c, vec[h].len)
  BY DEF set
<1> HIDE DEF c
<1> QED
  BY <1>1, <1>2, <1>3, StoreInv

\* Vector h with room for n + k elements, of which the first n are its own.
LEMMA RoomFacts ==
  ASSUME IndInv, NEW h \in alive, NEW n \in Nat, NEW r,
         r \in ensure_cap(h, n) \/ r \in Reserved(h, n)
  PROVE  /\ Fits(r.v, r.heap, h) /\ r.v.cap \in Nat /\ n <= r.v.cap
         /\ CellsIn(r.heap, r.v) \in [0 .. r.v.cap - 1 -> Cell]
         /\ \A i \in Index(h) : /\ CellsIn(r.heap, r.v)[i] # Uninit
                                /\ CellsIn(r.heap, r.v)[i] = cells(h)[i]
         /\ vec[h].len \in Nat /\ vec[h].len <= r.v.cap
         /\ n <= vec[h].cap => r.v.cap = vec[h].cap
<1>1. /\ Fits(r.v, r.heap, h) /\ Filled(r.v, r.heap) /\ HasThose(r.v, r.heap, cells(h))
      /\ r.v.len = vec[h].len /\ n <= r.v.cap
      /\ n <= vec[h].cap => r.v.cap = vec[h].cap
  <2>1. vec[h].cap \in Nat
    BY CellsFacts DEF Struct
  <2> QED
    BY <2>1, EnsureCapFacts, ReservedFacts
<1> QED
  BY <1>1, FitsCells DEF Filled, HasThose, Index, Fits, Struct

LEMMA PushInv ==
  ASSUME IndInv, NEW h \in alive, NEW x \in Val, push(h, x) PROVE IndInv'
<1> DEFINE n == vec[h].len
<1>1. n \in Nat
  BY CellsFacts DEF Struct
<1>2. ASSUME NEW r \in ensure_cap(h, n + 1),
             Store(h, r, [CellsIn(r.heap, r.v) EXCEPT ![n] = x], n + 1)
      PROVE  IndInv'
  <2> DEFINE c == [CellsIn(r.heap, r.v) EXCEPT ![n] = x]
  <2>1. /\ Fits(r.v, r.heap, h) /\ r.v.cap \in Nat /\ n + 1 <= r.v.cap
        /\ CellsIn(r.heap, r.v) \in [0 .. r.v.cap - 1 -> Cell]
        /\ \A i \in Index(h) : CellsIn(r.heap, r.v)[i] # Uninit
    BY <1>1, RoomFacts
  <2>2. c \in [0 .. r.v.cap - 1 -> Cell] /\ \A i \in 0 .. n : c[i] # Uninit
    BY <1>1, <2>1, CellAssumption DEF Index, Cell
  <2>3. Store(h, r, c, n + 1)
    BY <1>2
  <2> HIDE DEF c, n
  <2> QED
    BY <1>1, <2>1, <2>2, <2>3, StoreInv
<1> QED
  BY <1>2, FailsInv DEF push

\* What insert puts into a buffer with room for it.
LEMMA InsertedFacts ==
  ASSUME NEW cap \in Nat, NEW n \in Nat, n + 1 <= cap, NEW c \in [0 .. cap - 1 -> Cell],
         Known(c, n), NEW idx \in 0 .. n, NEW x \in Val,
         NEW d, d = [shift_right(c, idx, n) EXCEPT ![idx] = x]
  PROVE  d \in [0 .. cap - 1 -> Cell] /\ Known(d, n + 1)
<1> DEFINE k == shift_right(c, idx, n)
<1>1. k = [i \in 0 .. cap - 1 |-> IF idx < i /\ i <= n THEN c[i - 1] ELSE c[i]]
  BY DEF shift_right
<1>2. \A i \in 0 .. cap - 1 : idx < i /\ i <= n => i - 1 \in 0 .. n - 1 /\ i - 1 \in 0 .. cap - 1
  OBVIOUS
<1> HIDE DEF k
<1>3. k \in [0 .. cap - 1 -> Cell]
  BY <1>1, <1>2
<1>4. \A i \in 0 .. n : i # idx => k[i] # Uninit
  BY <1>1, <1>2 DEF Known
<1>5. x \in Cell /\ x # Uninit /\ idx \in 0 .. cap - 1
  BY CellAssumption DEF Cell
<1>6. d = [k EXCEPT ![idx] = x]
  BY DEF k
<1>7. d \in [0 .. cap - 1 -> Cell] /\ d[idx] = x /\ \A i \in 0 .. cap - 1 : i # idx => d[i] = k[i]
  BY <1>3, <1>5, <1>6
<1>8. ASSUME NEW i \in 0 .. (n + 1) - 1 PROVE d[i] # Uninit
  <2>1. i \in 0 .. n /\ i \in 0 .. cap - 1
    OBVIOUS
  <2> QED
    BY <2>1, <1>4, <1>5, <1>7
<1> QED
  BY <1>7, <1>8 DEF Known

LEMMA InsertInv ==
  ASSUME IndInv, NEW h \in alive, NEW idx \in 0 .. vec[h].len, NEW x \in Val, insert(h, idx, x)
  PROVE  IndInv'
<1> DEFINE n == vec[h].len
<1>1. n \in Nat
  BY CellsFacts DEF Struct
<1>2. ASSUME NEW r \in ensure_cap(h, n + 1),
             Store(h, r, [shift_right(CellsIn(r.heap, r.v), idx, n) EXCEPT ![idx] = x], n + 1)
      PROVE  IndInv'
  <2> DEFINE c == CellsIn(r.heap, r.v)
             d == [shift_right(c, idx, n) EXCEPT ![idx] = x]
  <2>1. /\ Fits(r.v, r.heap, h) /\ r.v.cap \in Nat /\ n + 1 <= r.v.cap
        /\ c \in [0 .. r.v.cap - 1 -> Cell] /\ Known(c, n)
    <3>1. n + 1 \in Nat
      BY <1>1
    <3> QED
      BY <3>1, RoomFacts DEF Index, Known
  <2>2. Store(h, r, d, n + 1) /\ n + 1 \in 0 .. r.v.cap
    BY <1>1, <1>2, <2>1
  <2>3. d \in [0 .. r.v.cap - 1 -> Cell] /\ Known(d, n + 1)
    <3>1. idx \in 0 .. n /\ d = [shift_right(c, idx, n) EXCEPT ![idx] = x]
      OBVIOUS
    <3> HIDE DEF c, d, n
    <3> QED
      BY <1>1, <2>1, <3>1, InsertedFacts
  <2> HIDE DEF d
  <2> QED
    BY <2>1, <2>2, <2>3, StoreInv DEF Known
<1> QED
  BY <1>2, FailsInv DEF insert

LEMMA EraseInv ==
  ASSUME IndInv, NEW h \in alive, NEW idx \in Index(h), erase(h, idx) PROVE IndInv'
<1> DEFINE r == [heap |-> heap, v |-> vec[h]]
           c == shift_left(cells(h), idx, vec[h].len)
<1>1. /\ cells(h) \in [0 .. vec[h].cap - 1 -> Cell] /\ \A i \in Index(h) : cells(h)[i] # Uninit
      /\ vec[h] \in Struct /\ vec[h].len \in 0 .. vec[h].cap /\ Fits(r.v, r.heap, h)
  BY CellsFacts
<1>2. c \in [0 .. vec[h].cap - 1 -> Cell] /\ \A i \in 0 .. vec[h].len - 2 : c[i] # Uninit
  BY <1>1 DEF shift_left, Index, Struct
<1>3. Store(h, r, c, vec[h].len - 1) /\ vec[h].len - 1 \in 0 .. vec[h].cap
  BY <1>1 DEF erase, Index, Struct
<1>4. \A i \in 0 .. (vec[h].len - 1) - 1 : c[i] # Uninit
  BY <1>1, <1>2 DEF Struct
<1> HIDE DEF c
<1> QED
  BY <1>1, <1>2, <1>3, <1>4, StoreInv

LEMMA ExtendInv ==
  ASSUME IndInv, NEW h \in alive, NEW g \in alive, extend(h, g) PROVE IndInv'
<1> DEFINE n == vec[h].len
           k == vec[g].len
<1>1. /\ n \in Nat /\ k \in Nat /\ Known(cells(g), k)
      /\ \A i \in 0 .. k - 1 : cells(g)[i] \in Cell
  BY CellsFacts DEF Struct, Index, Known
<1>2. ASSUME NEW r \in ensure_cap(h, n + k),
             Store(h, r, memcpy(CellsIn(r.heap, r.v), n, cells(g), k), n + k)
      PROVE  IndInv'
  <2> DEFINE c == CellsIn(r.heap, r.v)
             d == memcpy(c, n, cells(g), k)
  <2>1. /\ Fits(r.v, r.heap, h) /\ r.v.cap \in Nat /\ n + k <= r.v.cap
        /\ c \in [0 .. r.v.cap - 1 -> Cell] /\ Known(c, n)
    BY <1>1, RoomFacts DEF Index, Known
  <2>2. Store(h, r, d, n + k) /\ n + k \in 0 .. r.v.cap
    BY <1>1, <1>2, <2>1
  <2>3. d \in [0 .. r.v.cap - 1 -> Cell] /\ Known(d, n + k)
    <3> HIDE DEF c, n, k
    <3> QED
      BY <1>1, <2>1, MemcpyFacts
  <2> HIDE DEF d
  <2> QED
    BY <2>1, <2>2, <2>3, StoreInv DEF Known
<1> QED
  BY <1>2, FailsInv, SameInv DEF extend

LEMMA ReserveInv ==
  ASSUME IndInv, NEW h \in alive, NEW new_cap \in Nat, reserve(h, new_cap) PROVE IndInv'
<1>1. ASSUME NEW r \in Reserved(h, new_cap), Store(h, r, CellsIn(r.heap, r.v), vec[h].len)
      PROVE  IndInv'
  <2>1. /\ Fits(r.v, r.heap, h) /\ vec[h].len \in 0 .. r.v.cap
        /\ CellsIn(r.heap, r.v) \in [0 .. r.v.cap - 1 -> Cell]
        /\ \A i \in 0 .. vec[h].len - 1 : CellsIn(r.heap, r.v)[i] # Uninit
    BY RoomFacts DEF Index
  <2> QED
    BY <1>1, <2>1, StoreInv
<1> QED
  BY <1>1, FailsInv DEF reserve

LEMMA ResizeInv ==
  ASSUME IndInv, NEW h \in alive, NEW new_len \in Nat, resize(h, new_len) PROVE IndInv'
<1> DEFINE n == vec[h].len
<1>1. n \in Nat
  BY CellsFacts DEF Struct
<1>2. CASE new_len <= n /\ Shortened(h, new_len) /\ ret' = "ok"
  BY <1>1, <1>2, ShortenedInv
<1>3. ASSUME new_len > n, NEW r \in Reserved(h, new_len),
             Store(h, r, memcpy(CellsIn(r.heap, r.v), n, Zeros(new_len - n), new_len - n), new_len)
      PROVE  IndInv'
  <2> DEFINE c == CellsIn(r.heap, r.v)
             k == new_len - n
             d == memcpy(c, n, Zeros(k), k)
  <2>1. /\ Fits(r.v, r.heap, h) /\ r.v.cap \in Nat /\ new_len \in 0 .. r.v.cap
        /\ c \in [0 .. r.v.cap - 1 -> Cell] /\ Known(c, n)
    BY RoomFacts DEF Index, Known
  <2>2. Store(h, r, d, new_len)
    BY <1>3
  <2>3. k \in Nat /\ n + k = new_len /\ n + k <= r.v.cap
    BY <1>1, <1>3, <2>1
  <2>4. d \in [0 .. r.v.cap - 1 -> Cell] /\ Known(d, n + k)
    <3> HIDE DEF c, n, k
    <3>1. Known(Zeros(k), k) /\ \A i \in 0 .. k - 1 : Zeros(k)[i] \in Cell
      BY <2>3, ZerosFacts
    <3> QED
      BY <1>1, <2>1, <2>3, <3>1, MemcpyFacts
  <2> HIDE DEF d
  <2> QED
    BY <2>1, <2>2, <2>3, <2>4, StoreInv DEF Known
<1> QED
  BY <1>2, <1>3, FailsInv DEF resize

LEMMA ShrinkInv ==
  ASSUME IndInv, NEW h \in alive, shrink_to_fit(h) PROVE IndInv'
<1> DEFINE v == vec[h]
<1>1. /\ v \in Struct /\ v.len \in 0 .. v.cap /\ h \in Vec
      /\ Owned(h) = v.data /\ Fits(v, heap, h)
  BY CellsFacts DEF IndInv, TypeOK, Owned
<1>2. CASE v.len = v.cap /\ ret' = "ok" /\ UNCHANGED <<vec, heap>>
  BY <1>2, SameInv
<1>3. CASE /\ v.len # v.cap /\ v.len = 0 /\ heap' = nx_al_dealloc(heap, v.data)
           /\ vec' = [vec EXCEPT ![h] = set_fields(Null, 0, 0, v.al)] /\ ret' = "ok"
  <2> DEFINE w == set_fields(Null, 0, 0, v.al)
  <2>1. w \in Struct /\ w.data = Null /\ w.len = 0 /\ w.cap = 0
    BY <1>1 DEF set_fields, Struct
  <2>2. v.data # Null /\ v.data \in DOMAIN heap /\ Null \notin DOMAIN heap
    BY <1>1, <1>3 DEF Fits, Struct
  <2>3. /\ DOMAIN heap' = DOMAIN heap \ {v.data} /\ heap' = [b \in DOMAIN heap' |-> heap'[b]]
        /\ \A b \in DOMAIN heap' : heap'[b] = heap[b]
    BY <1>3, <2>2 DEF nx_al_dealloc, Lacks
  <2>4. vec' = Has(vec, h, w)
    BY <1>3, HasExcept
  <2> HIDE DEF w, v
  <2>5. Fits(w, heap', h)
    BY <1>1, <2>1, <2>2, <2>3 DEF Fits
  <2>6. Filled(w, heap')
    BY <2>1 DEF Filled
  <2> QED
    BY <1>1, <1>3, <2>4, <2>5, <2>6, OneVector
<1>4. CASE Fails
  BY <1>4, FailsInv
<1>5. CASE /\ v.len # v.cap /\ v.len > 0
           /\ \E o \in nx_al_realloc(v.al, v.data, v.len) :
                /\ heap' = o.heap /\ ret' = "ok"
                /\ vec' = [vec EXCEPT ![h].data = o.data, ![h].cap = v.len]
  <2>1. PICK o \in nx_al_realloc(v.al, v.data, v.len) :
          /\ heap' = o.heap /\ ret' = "ok"
          /\ vec' = [vec EXCEPT ![h].data = o.data, ![h].cap = v.len]
    BY <1>5
  <2> DEFINE w == set_fields(o.data, v.len, v.len, v.al)
  <2>2. v.len \in Nat \ {0} /\ v.len \in 0 .. v.len /\ v.len <= vec[h].len
    BY <1>1, <1>5 DEF Struct
  <2>3. Fits(w, heap', h) /\ Filled(w, heap')
    BY <2>1, <2>2, ReallocFacts
  <2>4. vec' = [vec EXCEPT ![h] = w]
    <3>1. PICK u : u = [v EXCEPT !.data = o.data, !.cap = v.len]
      OBVIOUS
    <3>2. vec' = [vec EXCEPT ![h] = [v EXCEPT !.data = o.data, !.cap = v.len]]
      BY <2>1 DEF IndInv, TypeOK
    <3>3. u = w
      <4>1. v \in Struct
        BY <1>1
      <4> HIDE DEF v
      <4> QED
        BY <3>1, <4>1 DEF set_fields, Struct
    <3> QED
      BY <3>1, <3>2, <3>3
  <2>5. vec' = Has(vec, h, w)
    BY <2>4, HasExcept
  <2> HIDE DEF w
  <2> QED
    BY <1>1, <2>1, <2>3, <2>5, OneVector
<1> QED
  BY <1>2, <1>3, <1>4, <1>5 DEF shrink_to_fit

-----------------------------------------------------------------------------
(* The theorems.                                                           *)

\* Every call keeps the invariant, whichever allocations fail or move.
LEMMA NextInv == ASSUME IndInv, Next PROVE IndInv'
<1>1. ASSUME NEW h \in Vec \ alive, NEW al \in Al,
             \/ \E len, cap \in Lens : new_p(h, len, cap, al)
             \/ \E g \in alive : from_data(h, g, al) \/ copy_a(h, g, al)
      PROVE  IndInv'
  BY <1>1, NewInv
<1>2. ASSUME NEW h \in Vec \ alive, NEW g \in alive, move(h, g) PROVE IndInv'
  BY <1>2, MoveInv
<1>3. ASSUME NEW h \in alive, drop(h) \/ pop(h) \/ clear(h) \/ shrink_to_fit(h) PROVE IndInv'
  <2>1. vec[h].len \in Nat
    BY CellsFacts DEF Struct
  <2>2. CASE pop(h)
    BY <2>1, <2>2, ShortenedInv DEF pop
  <2>3. CASE clear(h)
    BY <2>1, <2>3, ShortenedInv DEF clear
  <2> QED
    BY <1>3, <2>2, <2>3, DropInv, ShrinkInv
<1>4. ASSUME NEW h \in alive, NEW x \in Val,
             \/ push(h, x) \/ \E idx \in Index(h) : set(h, idx, x)
             \/ \E idx \in 0 .. vec[h].len : insert(h, idx, x)
      PROVE  IndInv'
  BY <1>4, PushInv, SetInv, InsertInv
<1>5. ASSUME NEW h \in alive, NEW idx \in Index(h), erase(h, idx) PROVE IndInv'
  BY <1>5, EraseInv
<1>6. ASSUME NEW h \in alive, NEW n \in Lens, reserve(h, n) \/ resize(h, n) PROVE IndInv'
  BY <1>6, ReserveInv, ResizeInv, SizeAssumption
<1>7. ASSUME NEW h \in alive, NEW g \in alive,
             copy_assign(h, g) \/ move_assign(h, g) \/ swap(h, g) \/ extend(h, g)
      PROVE  IndInv'
  BY <1>7, CopyAssignInv, MoveAssignInv, SwapInv, ExtendInv
<1> QED
  BY <1>1, <1>2, <1>3, <1>4, <1>5, <1>6, <1>7 DEF Next

\* Types, ownership and initialisation together are inductive.
THEOREM IndInvHolds == Spec => []IndInv
<1>1. Init => IndInv
  BY DEF Init, IndInv, TypeOK, OneOwner, NoUninit, alive
<1>2. IndInv /\ [Next]_vars => IndInv'
  <2>1. ASSUME IndInv, Next PROVE IndInv'
    BY <2>1, NextInv
  <2>2. ASSUME IndInv, UNCHANGED vars PROVE IndInv'
    BY <2>2, SameInv DEF vars, IndInv, TypeOK
  <2> QED
    BY <2>1, <2>2
<1> QED
  BY <1>1, <1>2, PTL DEF Spec

\* Every field keeps its type and the assertions of vec_assert_impl never fail.
THEOREM TypeCorrect == Spec => []TypeOK
<1>1. IndInv => TypeOK
  BY DEF IndInv
<1> QED
  BY <1>1, IndInvHolds, PTL

\* No buffer leaks, is shared, or goes back to the wrong allocator or with the
\* wrong size (the calls of nx_al_dealloc and nx_al_realloc in vec.c).
THEOREM OneOwnerHolds == Spec => []OneOwner
<1>1. IndInv => OneOwner
  BY DEF IndInv
<1> QED
  BY <1>1, IndInvHolds, PTL

\* No element read through get, at or a span is indeterminate.
THEOREM NoUninitHolds == Spec => []NoUninit
<1>1. IndInv => NoUninit
  BY DEF IndInv
<1> QED
  BY <1>1, IndInvHolds, PTL

-----------------------------------------------------------------------------
(* What the cells of a buffer are as a sequence.                           *)

LEMMA ListedFacts ==
  ASSUME NEW n \in Nat, NEW c, \A i \in 0 .. n - 1 : c[i] \in Cell
  PROVE  /\ Listed(c, n) \in Seq(Cell) /\ Len(Listed(c, n)) = n
         /\ \A i \in 1 .. n : Listed(c, n)[i] = c[i - 1]
<1>1. \A i \in 1 .. n : c[i - 1] \in Cell
  OBVIOUS
<1>2. Listed(c, n) \in [1 .. n -> Cell]
  BY <1>1 DEF Listed
<1> QED
  BY <1>2 DEF Listed

LEMMA AppendIs ==
  ASSUME NEW S, NEW s \in Seq(S), NEW t \in Seq(S), NEW x \in S, Len(t) = Len(s) + 1,
         \A i \in 1 .. Len(s) : t[i] = s[i], t[Len(s) + 1] = x
  PROVE  t = Append(s, x)
<1>1. \A i \in 1 .. Len(t) : t[i] = Append(s, x)[i]
  BY AppendProperties, LenProperties
<1> QED
  BY <1>1, AppendProperties, SeqEqual

\* The first k elements of s.
LEMMA BeforeIs ==
  ASSUME NEW S, NEW s \in Seq(S), NEW k \in 0 .. Len(s)
  PROVE  /\ Seqs!Before(s, k) \in Seq(S) /\ Len(Seqs!Before(s, k)) = k
         /\ \A i \in 1 .. k : Seqs!Before(s, k)[i] = s[i]
<1>1. Len(s) \in Nat /\ \A i \in 1 .. k : s[i] \in S
  BY LenProperties, ElementOfSeq
<1>2. /\ SubSeq(s, 1, k) \in Seq(S) /\ Len(SubSeq(s, 1, k)) = IF 1 <= k THEN k - 1 + 1 ELSE 0
      /\ \A i \in 1 .. k - 1 + 1 : SubSeq(s, 1, k)[i] = s[1 + i - 1]
  BY <1>1, SubSeqProperties
<1> QED
  BY <1>1, <1>2 DEF Seqs!Before

\* The others.
LEMMA FromIs ==
  ASSUME NEW S, NEW s \in Seq(S), NEW k \in 0 .. Len(s)
  PROVE  /\ Seqs!From(s, k) \in Seq(S) /\ Len(Seqs!From(s, k)) = Len(s) - k
         /\ \A i \in 1 .. Len(s) - k : Seqs!From(s, k)[i] = s[k + i]
<1> DEFINE n == Len(s)
           u == SubSeq(s, k + 1, n)
<1>1. n \in Nat /\ \A i \in k + 1 .. n : s[i] \in S
  BY LenProperties, ElementOfSeq
<1>2. /\ u \in Seq(S) /\ Len(u) = IF k + 1 <= n THEN n - (k + 1) + 1 ELSE 0
      /\ \A i \in 1 .. n - (k + 1) + 1 : u[i] = s[(k + 1) + i - 1]
  <2> HIDE DEF n
  <2> QED
    BY <1>1, SubSeqProperties
<1> HIDE DEF n, u
<1>3. Len(u) = n - k /\ \A i \in 1 .. n - k : u[i] = s[k + i]
  <2>1. k \in Nat /\ k <= n
    BY DEF n
  <2> QED
    BY <1>1, <1>2, <2>1
<1> QED
  BY <1>2, <1>3 DEF u, n, Seqs!From

\* t is s with x after its first k elements.
WithOneAt(t, s, k, x) ==
  \A i \in 1 .. Len(t) :
    t[i] = IF i <= k THEN s[i] ELSE IF i = k + 1 THEN x ELSE s[i - 1]

LEMMA InsertIs ==
  ASSUME NEW S, NEW s \in Seq(S), NEW t \in Seq(S), NEW x \in S, NEW k \in 0 .. Len(s),
         Len(t) = Len(s) + 1, WithOneAt(t, s, k, x)
  PROVE  t = Seqs!Before(s, k) \o <<x>> \o Seqs!From(s, k)
<1> DEFINE a == Seqs!Before(s, k)
           b == Seqs!From(s, k)
           m == a \o <<x>>
<1>1. a \in Seq(S) /\ Len(a) = k /\ \A i \in 1 .. k : a[i] = s[i]
  BY BeforeIs
<1>2. b \in Seq(S) /\ Len(b) = Len(s) - k /\ \A i \in 1 .. Len(s) - k : b[i] = s[k + i]
  BY FromIs
<1>3. <<x>> \in Seq(S) /\ Len(<<x>>) = 1 /\ <<x>>[1] = x
  OBVIOUS
<1>4. Len(s) \in Nat
  BY LenProperties
<1> HIDE DEF a, b
<1>5. /\ m \in Seq(S) /\ Len(m) = k + 1
      /\ \A i \in 1 .. k + 1 : m[i] = IF i <= k THEN a[i] ELSE <<x>>[i - k]
  BY <1>1, <1>3, ConcatProperties
<1>6. \A i \in 1 .. k + 1 : m[i] = IF i <= k THEN s[i] ELSE x
  <2> SUFFICES ASSUME NEW i \in 1 .. k + 1 PROVE m[i] = IF i <= k THEN s[i] ELSE x
    OBVIOUS
  <2>1. ~(i <= k) => i - k = 1
    OBVIOUS
  <2> QED
    BY <2>1, <1>1, <1>3, <1>5
<1> HIDE DEF m
<1>7. /\ m \o b \in Seq(S) /\ Len(m \o b) = Len(s) + 1
      /\ \A i \in 1 .. Len(s) + 1 : (m \o b)[i] = IF i <= k + 1 THEN m[i] ELSE b[i - (k + 1)]
  <2>1. /\ m \o b \in Seq(S) /\ Len(m \o b) = Len(m) + Len(b)
        /\ \A i \in 1 .. Len(m) + Len(b) :
             (m \o b)[i] = IF i <= Len(m) THEN m[i] ELSE b[i - Len(m)]
    BY <1>2, <1>5, ConcatProperties
  <2>2. Len(m) = k + 1 /\ Len(m) + Len(b) = Len(s) + 1
    BY <1>2, <1>4, <1>5
  <2> QED
    BY <2>1, <2>2
<1>8. ASSUME NEW i \in 1 .. Len(t) PROVE t[i] = (m \o b)[i]
  <2>0. /\ i \in 1 .. Len(s) + 1 /\ k \in Nat
        /\ t[i] = IF i <= k THEN s[i] ELSE IF i = k + 1 THEN x ELSE s[i - 1]
        /\ (m \o b)[i] = IF i <= k + 1 THEN m[i] ELSE b[i - (k + 1)]
    BY <1>7 DEF WithOneAt
  <2>1. CASE i <= k + 1
    <3>1. m[i] = IF i <= k THEN s[i] ELSE x
      BY <2>0, <2>1, <1>6
    <3>2. ~(i <= k) => i = k + 1
      BY <2>0, <2>1
    <3> QED
      BY <3>1, <3>2, <2>0, <2>1
  <2>2. CASE ~(i <= k + 1)
    <3>0. i \in Nat /\ k \in Nat /\ Len(s) \in Nat /\ k + 1 < i /\ i <= Len(s) + 1
      BY <2>0, <2>2, <1>4
    <3>1. i - (k + 1) \in 1 .. Len(s) - k /\ k + (i - (k + 1)) = i - 1
      BY <3>0
    <3>2. b[i - (k + 1)] = s[i - 1]
      BY <3>1, <1>2
    <3>3. ~(i <= k) /\ i # k + 1
      BY <2>0, <2>2
    <3> QED
      BY <3>2, <3>3, <2>0, <2>2
  <2> QED
    BY <2>1, <2>2
<1>9. t = m \o b
  BY <1>7, <1>8, SeqEqual
<1> QED
  BY <1>9 DEF m, a, b

LEMMA EraseIs ==
  ASSUME NEW S, NEW s \in Seq(S), NEW t \in Seq(S), NEW k \in 1 .. Len(s),
         Len(t) = Len(s) - 1,
         \A i \in 1 .. Len(t) : t[i] = IF i < k THEN s[i] ELSE s[i + 1]
  PROVE  t = Seqs!Before(s, k - 1) \o Seqs!From(s, k)
<1> DEFINE a == Seqs!Before(s, k - 1)
           b == Seqs!From(s, k)
<1>1. Len(s) \in Nat /\ k - 1 \in 0 .. Len(s) /\ k \in 0 .. Len(s)
  BY LenProperties
<1>2. a \in Seq(S) /\ Len(a) = k - 1 /\ \A i \in 1 .. k - 1 : a[i] = s[i]
  BY <1>1, BeforeIs
<1>3. b \in Seq(S) /\ Len(b) = Len(s) - k /\ \A i \in 1 .. Len(s) - k : b[i] = s[k + i]
  BY <1>1, FromIs
<1> HIDE DEF a, b
<1>4. /\ a \o b \in Seq(S) /\ Len(a \o b) = Len(s) - 1
      /\ \A i \in 1 .. Len(s) - 1 : (a \o b)[i] = IF i <= k - 1 THEN a[i] ELSE b[i - (k - 1)]
  <2>1. (k - 1) + (Len(s) - k) = Len(s) - 1
    BY <1>1
  <2> QED
    BY <1>2, <1>3, <2>1, ConcatProperties
<1>5. ASSUME NEW i \in 1 .. Len(t) PROVE t[i] = (a \o b)[i]
  <2>1. CASE i < k
    BY <2>1, <1>1, <1>2, <1>4
  <2>2. CASE ~(i < k)
    <3>1. i - (k - 1) \in 1 .. Len(s) - k /\ k + (i - (k - 1)) = i + 1
      BY <2>2, <1>1
    <3>2. b[i - (k - 1)] = s[i + 1]
      BY <3>1, <1>3
    <3>3. i \in 1 .. Len(s) - 1 /\ ~(i <= k - 1)
      BY <2>2, <1>1
    <3> QED
      BY <3>2, <3>3, <2>2, <1>4
  <2> QED
    BY <2>1, <2>2
<1>6. t = a \o b
  BY <1>4, <1>5, SeqEqual
<1> QED
  BY <1>6 DEF a, b

LEMMA ConcatIs ==
  ASSUME NEW S, NEW s \in Seq(S), NEW u \in Seq(S), NEW t \in Seq(S),
         Len(t) = Len(s) + Len(u),
         \A i \in 1 .. Len(t) : t[i] = IF i <= Len(s) THEN s[i] ELSE u[i - Len(s)]
  PROVE  t = s \o u
BY ConcatProperties, SeqEqual

LEMMA BeforeIsIt ==
  ASSUME NEW S, NEW s \in Seq(S), NEW t \in Seq(S), Len(t) <= Len(s),
         \A i \in 1 .. Len(t) : t[i] = s[i]
  PROVE  t = Seqs!Before(s, Len(t))
<1>1. Len(t) \in 0 .. Len(s)
  BY LenProperties
<1> QED
  BY <1>1, BeforeIs, SeqEqual

-----------------------------------------------------------------------------
(* The vectors implement NxSeqs.                                           *)

LEMMA SeqsFacts ==
  ASSUME IndInv
  PROVE  /\ Seqs!alive = alive /\ DOMAIN seqs = alive /\ DOMAIN room = alive
         /\ seqs = [g \in alive |-> seqs[g]] /\ room = [g \in alive |-> room[g]]
         /\ alive \subseteq Vec
         /\ \A h \in alive :
              /\ seqs[h] = Listed(cells(h), vec[h].len) /\ room[h] = vec[h].cap
              /\ seqs[h] \in Seq(Cell) /\ Len(seqs[h]) = vec[h].len
              /\ \A i \in 1 .. vec[h].len : seqs[h][i] = cells(h)[i - 1]
              /\ vec[h].len \in Nat /\ vec[h].cap \in Nat /\ vec[h].len <= vec[h].cap
<1>1. /\ DOMAIN seqs = alive /\ DOMAIN room = alive /\ Seqs!alive = alive
      /\ seqs = [g \in alive |-> seqs[g]] /\ room = [g \in alive |-> room[g]]
      /\ \A h \in alive : seqs[h] = Listed(cells(h), vec[h].len) /\ room[h] = vec[h].cap
  BY DEF seqs, room, Seqs!alive
<1>2. ASSUME NEW h \in alive
      PROVE  /\ seqs[h] \in Seq(Cell) /\ Len(seqs[h]) = vec[h].len
             /\ \A i \in 1 .. vec[h].len : seqs[h][i] = cells(h)[i - 1]
             /\ vec[h].len \in Nat /\ vec[h].cap \in Nat /\ vec[h].len <= vec[h].cap
  <2>1. /\ cells(h) \in [0 .. vec[h].cap - 1 -> Cell] /\ vec[h] \in Struct
        /\ vec[h].len \in 0 .. vec[h].cap
    BY CellsFacts
  <2>2. vec[h].len \in Nat /\ vec[h].cap \in Nat /\ vec[h].len <= vec[h].cap
    BY <2>1 DEF Struct
  <2>3. \A i \in 0 .. vec[h].len - 1 : cells(h)[i] \in Cell
    BY <2>1, <2>2
  <2> QED
    BY <1>1, <2>2, <2>3, ListedFacts
<1> QED
  BY <1>1, <1>2 DEF IndInv, TypeOK

\* Vector h becomes w, or appears as w, with the elements c.
LEMMA Becomes ==
  ASSUME IndInv, NEW h \in Vec, NEW w, NEW c, vec' = Has(vec, h, w), Fits(w, heap', h),
         HasThose(w, heap', c), ret' = "ok"
  PROVE  /\ DOMAIN room' = DOMAIN room \union {h}
         /\ h \in alive => Seqs!Only(h)
         /\ h \notin alive => /\ Seqs!Lacks(room', h) = room /\ Seqs!Lacks(seqs', h) = seqs
         /\ seqs'[h] = Listed(c, w.len) /\ room'[h] = w.cap
<1>1. alive' = alive \union {h} /\ vec'[h] = w /\ \A g \in alive \ {h} : vec'[g] = vec[g]
  BY DEF alive, Has
<1>2. \A g \in alive \ {h} : cells(g)' = cells(g)
  <2> SUFFICES ASSUME NEW g \in alive \ {h} PROVE cells(g)' = cells(g)
    OBVIOUS
  <2>1. CASE vec[g].data = Null
    BY <2>1, <1>1 DEF cells, CellsIn
  <2>2. CASE vec[g].data # Null
    <3>1. vec[g].data \in DOMAIN heap \ {Owned(h)}
      BY <2>2 DEF IndInv, OneOwner, Owned
    <3>2. heap'[vec[g].data] = heap[vec[g].data]
      BY <3>1, NullAssumption DEF Fits, IndInv, TypeOK
    <3> QED
      BY <3>2, <2>2, <1>1 DEF cells, CellsIn
  <2> QED
    BY <2>1, <2>2
<1>3. cells(h)' = CellsIn(heap', w)
  BY <1>1 DEF cells
<1>4. Listed(CellsIn(heap', w), w.len) = Listed(c, w.len)
  <2>1. w.len \in Nat
    BY DEF Fits, Struct
  <2>2. \A i \in 1 .. w.len : CellsIn(heap', w)[i - 1] = c[i - 1]
    BY <2>1 DEF HasThose
  <2> QED
    BY <2>2 DEF Listed
<1>5. /\ DOMAIN room' = alive \union {h} /\ DOMAIN seqs' = alive \union {h}
      /\ \A g \in alive \ {h} : room'[g] = room[g] /\ seqs'[g] = seqs[g]
      /\ room'[h] = w.cap /\ seqs'[h] = Listed(c, w.len)
  BY <1>1, <1>2, <1>3, <1>4 DEF room, seqs
<1>6. /\ DOMAIN room = alive /\ DOMAIN seqs = alive
      /\ seqs = [g \in alive |-> seqs[g]] /\ room = [g \in alive |-> room[g]]
  BY SeqsFacts
<1> HIDE DEF room, seqs
<1> QED
  BY <1>5, <1>6 DEF Seqs!Only, Seqs!Lacks

\* A call that leaves every vector as it is, and succeeds.
LEMMA SameSeqs ==
  ASSUME IndInv, NEW h \in alive, UNCHANGED <<vec, heap>>, ret' = "ok"
  PROVE  Seqs!Only(h) /\ seqs' = seqs /\ room' = room
BY DEF Seqs!Only, seqs, room, alive, cells

LEMMA StoreIs ==
  ASSUME IndInv, NEW h \in alive, NEW r, Fits(r.v, r.heap, h),
         NEW n \in 0 .. r.v.cap, NEW c \in [0 .. r.v.cap - 1 -> Cell],
         Store(h, r, c, n)
  PROVE  Seqs!Only(h) /\ seqs'[h] = Listed(c, n) /\ room'[h] = r.v.cap
<1>1. PICK w : /\ vec' = Has(vec, h, w) /\ Fits(w, heap', h) /\ HasThose(w, heap', c)
               /\ w.len = n /\ w.cap = r.v.cap
  BY StoreFits
<1>2. h \in Vec /\ ret' = "ok"
  BY DEF Store, IndInv, TypeOK
<1> QED
  BY <1>1, <1>2, Becomes

LEMMA ShortenedIs ==
  ASSUME IndInv, NEW h \in alive, NEW n \in 0 .. vec[h].len, Shortened(h, n), ret' = "ok"
  PROVE  Seqs!Only(h) /\ seqs'[h] = Seqs!Before(seqs[h], n) /\ Len(seqs'[h]) = n
         /\ room'[h] = room[h]
<1>1. PICK w : /\ vec' = Has(vec, h, w) /\ Fits(w, heap', h) /\ HasThose(w, heap', cells(h))
               /\ w.len = n /\ w.cap = vec[h].cap
  BY ShortenedFits
<1>2. h \in Vec
  BY DEF IndInv, TypeOK
<1>3. Seqs!Only(h) /\ seqs'[h] = Listed(cells(h), n) /\ room'[h] = vec[h].cap
  BY <1>1, <1>2, Becomes
<1>4. /\ seqs[h] \in Seq(Cell) /\ Len(seqs[h]) = vec[h].len /\ room[h] = vec[h].cap
      /\ \A i \in 1 .. vec[h].len : seqs[h][i] = cells(h)[i - 1]
      /\ vec[h].len \in Nat /\ vec[h].cap \in Nat /\ vec[h].len <= vec[h].cap
  BY SeqsFacts
<1>5. /\ Listed(cells(h), n) \in Seq(Cell) /\ Len(Listed(cells(h), n)) = n
      /\ \A i \in 1 .. n : Listed(cells(h), n)[i] = cells(h)[i - 1]
  <2>0. cells(h) \in [0 .. vec[h].cap - 1 -> Cell] /\ n \in Nat /\ n <= vec[h].cap
    BY <1>4, CellsFacts
  <2>1. \A i \in 0 .. n - 1 : cells(h)[i] \in Cell
    BY <1>4, <2>0
  <2> QED
    BY <2>0, <2>1, ListedFacts
<1> DEFINE t == Listed(cells(h), n)
           s == seqs[h]
<1>6. t = Seqs!Before(s, n)
  <2>1. /\ s \in Seq(Cell) /\ t \in Seq(Cell) /\ Len(t) <= Len(s) /\ Len(t) = n
        /\ \A i \in 1 .. Len(t) : t[i] = s[i]
    <3>1. n <= vec[h].len /\ 1 .. n \subseteq 1 .. vec[h].len
      BY <1>4
    <3> QED
      BY <3>1, <1>4, <1>5
  <2> HIDE DEF s, t
  <2> QED
    BY <2>1, BeforeIsIt
<1> QED
  BY <1>3, <1>4, <1>5, <1>6

\* The steps of NxSeqs, from what a call makes of the sequence of h.
LEMMA OthersStep ==
  ASSUME IndInv, NEW h \in alive, Seqs!Only(h), seqs'[h] \in Seqs!Others(seqs[h]),
         Len(seqs'[h]) <= room'[h], room'[h] # room[h] => Len(seqs'[h]) > room[h]
  PROVE  Seqs!Next
<1>1. h \in Seqs!alive
  BY SeqsFacts
<1> QED
  BY <1>1 DEF Seqs!Next, Seqs!Edit

LEMMA MoreStep ==
  ASSUME IndInv, NEW h \in alive, Seqs!Only(h),
         seqs'[h] \in Seqs!Push(seqs[h]) \/ seqs'[h] \in Seqs!Insert(seqs[h]),
         Len(seqs'[h]) <= room'[h],
         room'[h] # room[h] => Len(seqs'[h]) > room[h] /\ room'[h] >= 2 * room[h]
  PROVE  Seqs!Next
<1>1. h \in Seqs!alive
  BY SeqsFacts
<1> QED
  BY <1>1 DEF Seqs!Next, Seqs!Edit

LEMMA FailsStep ==
  ASSUME IndInv, Fails,
         \/ \E h \in alive :
              \/ \E t \in Seqs!Others(seqs[h]) \union Seqs!OneMore(seqs[h]) : Len(t) > room[h]
              \/ \E n \in Lens : n > room[h]
              \/ Len(seqs[h]) \notin {0, room[h]}
         \/ alive # Vec
  PROVE  Seqs!Next
<1>1. ret' = "oom" /\ seqs' = seqs /\ room' = room
  BY DEF Fails, seqs, room, alive, cells
<1>2. Seqs!alive = alive
  BY SeqsFacts
<1> QED
  BY <1>1, <1>2 DEF Seqs!Next, Seqs!Fails

\* A call that succeeds and changes nothing.
LEMMA SameStep ==
  ASSUME IndInv, NEW h \in alive, UNCHANGED <<vec, heap>>, ret' = "ok"
  PROVE  Seqs!Next
<1>1. Seqs!Only(h) /\ seqs' = seqs /\ room' = room
  BY SameSeqs
<1>2. Seqs!alive = alive /\ Len(seqs[h]) <= room[h]
  BY SeqsFacts
<1>3. seqs'[h] \in Seqs!Others(seqs[h])
  BY <1>1, <1>2 DEF Seqs!Others, Seqs!CopyAssign
<1> QED
  BY <1>1, <1>2, <1>3, OthersStep

LEMMA PopStep == ASSUME IndInv, NEW h \in alive, pop(h) PROVE Seqs!Next
<1>1. /\ Len(seqs[h]) = vec[h].len /\ vec[h].len \in Nat /\ room[h] = vec[h].cap
      /\ vec[h].cap \in Nat /\ vec[h].len <= vec[h].cap
  BY SeqsFacts
<1>2. vec[h].len > 0 /\ Shortened(h, vec[h].len - 1) /\ ret' = "ok"
  BY DEF pop
<1>3. vec[h].len - 1 \in 0 .. vec[h].len
  BY <1>1, <1>2
<1>4. /\ Seqs!Only(h) /\ seqs'[h] = Seqs!Before(seqs[h], vec[h].len - 1)
      /\ Len(seqs'[h]) = vec[h].len - 1 /\ room'[h] = room[h]
  BY <1>2, <1>3, ShortenedIs
<1>5. seqs[h] # <<>>
  BY <1>1, <1>2
<1>6. seqs'[h] \in Seqs!Others(seqs[h])
  BY <1>1, <1>4, <1>5 DEF Seqs!Others, Seqs!Pop
<1> QED
  BY <1>1, <1>4, <1>6, OthersStep

LEMMA ClearIs ==
  ASSUME IndInv, NEW h \in alive, Shortened(h, 0), ret' = "ok" PROVE Seqs!Next
<1>1. vec[h].len \in Nat /\ vec[h].cap \in Nat /\ room[h] = vec[h].cap
  BY SeqsFacts
<1>2. /\ Seqs!Only(h) /\ seqs'[h] = Seqs!Before(seqs[h], 0)
      /\ Len(seqs'[h]) = 0 /\ room'[h] = room[h]
  BY <1>1, ShortenedIs
<1>3. Seqs!Before(seqs[h], 0) = <<>>
  BY SubSeqEmpty DEF Seqs!Before
<1>4. seqs'[h] \in Seqs!Others(seqs[h])
  BY <1>2, <1>3 DEF Seqs!Others, Seqs!Clear
<1> QED
  BY <1>1, <1>2, <1>4, OthersStep

\* What a buffer with room for it holds after a store, as a sequence.
LEMMA StoredIs ==
  ASSUME IndInv, NEW h \in alive, NEW r, Fits(r.v, r.heap, h),
         NEW n \in Nat, n <= r.v.cap, NEW c \in [0 .. r.v.cap - 1 -> Cell],
         Store(h, r, c, n)
  PROVE  /\ Seqs!Only(h) /\ seqs'[h] = Listed(c, n) /\ room'[h] = r.v.cap
         /\ Listed(c, n) \in Seq(Cell) /\ Len(Listed(c, n)) = n
         /\ \A i \in 1 .. n : Listed(c, n)[i] = c[i - 1]
<1>1. r.v.cap \in Nat
  BY DEF Fits, Struct
<1>2. n \in 0 .. r.v.cap
  BY <1>1
<1>3. \A i \in 0 .. n - 1 : c[i] \in Cell
  BY <1>1
<1> QED
  BY <1>2, <1>3, StoreIs, ListedFacts

LEMMA SetIs ==
  ASSUME NEW s, NEW t, \E i \in 1 .. Len(s), x \in Val : t = [s EXCEPT ![i] = x]
  PROVE  t \in Seqs!Set(s)
<1> DEFINE F(i, x) == [s EXCEPT ![i] = x]
<1>1. Seqs!Set(s) = { F(i, x) : i \in 1 .. Len(s), x \in Val }
  BY DEF Seqs!Set
<1>2. PICK i \in 1 .. Len(s), x \in Val : t = F(i, x)
  OBVIOUS
<1> HIDE DEF F
<1> QED
  BY <1>1, <1>2

LEMMA SetStep ==
  ASSUME IndInv, NEW h \in alive, NEW idx \in Index(h), NEW x \in Val, set(h, idx, x)
  PROVE  Seqs!Next
<1>1. PICK n \in Nat, s \in Seq(Cell) : n = vec[h].len /\ s = seqs[h]
  BY SeqsFacts
<1>2. /\ s \in Seq(Cell) /\ Len(s) = n /\ room[h] = vec[h].cap
      /\ \A i \in 1 .. n : s[i] = cells(h)[i - 1]
      /\ n \in Nat /\ vec[h].cap \in Nat /\ n <= vec[h].cap
  BY <1>1, SeqsFacts
<1>3. PICK r : r = [heap |-> heap, v |-> vec[h]]
  OBVIOUS
<1>4. /\ cells(h) \in [0 .. r.v.cap - 1 -> Cell] /\ Fits(r.v, r.heap, h)
      /\ r.v.cap = vec[h].cap /\ r.v.cap \in Nat
  BY <1>2, <1>3, CellsFacts
<1>5. x \in Cell /\ idx \in 0 .. n - 1
  BY <1>1 DEF Cell, Index
<1>6. PICK c : c = [cells(h) EXCEPT ![idx] = x]
  OBVIOUS
<1>7. /\ c \in [0 .. r.v.cap - 1 -> Cell]
      /\ \A i \in 0 .. r.v.cap - 1 : c[i] = IF i = idx THEN x ELSE cells(h)[i]
  BY <1>4, <1>5, <1>6
<1>8. Store(h, r, c, n)
  BY <1>1, <1>3, <1>6 DEF set
<1>9. PICK t : t = Listed(c, n)
  OBVIOUS
<1>10. /\ Seqs!Only(h) /\ seqs'[h] = t /\ room'[h] = room[h]
       /\ t \in Seq(Cell) /\ Len(t) = n /\ \A i \in 1 .. n : t[i] = c[i - 1]
  <2>1. n <= r.v.cap
    BY <1>2, <1>4
  <2>2. Seqs!Only(h) /\ seqs'[h] = Listed(c, n) /\ room'[h] = r.v.cap
    BY <1>4, <1>7, <1>8, <2>1, StoredIs
  <2>3. \A i \in 0 .. n - 1 : c[i] \in Cell
    BY <2>1, <1>4, <1>7
  <2>4. /\ Listed(c, n) \in Seq(Cell) /\ Len(Listed(c, n)) = n
        /\ \A i \in 1 .. n : Listed(c, n)[i] = c[i - 1]
    BY <2>3, ListedFacts
  <2> QED
    BY <1>2, <1>4, <1>9, <2>2, <2>4
<1>11. idx + 1 \in 1 .. Len(s)
  BY <1>2, <1>5
<1>12. t = [s EXCEPT ![idx + 1] = x]
  <2>1. /\ [s EXCEPT ![idx + 1] = x] \in Seq(Cell) /\ Len([s EXCEPT ![idx + 1] = x]) = n
        /\ \A i \in 1 .. n : [s EXCEPT ![idx + 1] = x][i] = IF i = idx + 1 THEN x ELSE s[i]
    BY <1>2, <1>5, <1>11, ExceptSeq
  <2>2. ASSUME NEW i \in 1 .. n PROVE t[i] = IF i = idx + 1 THEN x ELSE s[i]
    <3>1. t[i] = c[i - 1] /\ s[i] = cells(h)[i - 1]
      BY <1>2, <1>10
    <3>2. c[i - 1] = IF i - 1 = idx THEN x ELSE cells(h)[i - 1]
      BY <1>2, <1>4, <1>7
    <3>3. i - 1 = idx <=> i = idx + 1
      BY <1>5
    <3> QED
      BY <3>1, <3>2, <3>3
  <2> QED
    BY <1>2, <1>10, <2>1, <2>2, SeqEqual
<1>13. t \in Seqs!Set(s)
  <2>1. \E i \in 1 .. Len(s), y \in Val : t = [s EXCEPT ![i] = y]
    BY <1>11, <1>12
  <2> QED
    BY <2>1, SetIs
<1>14. t \in Seqs!Others(s)
  BY <1>13 DEF Seqs!Others
<1> QED
  BY <1>1, <1>2, <1>10, <1>14, OthersStep

-----------------------------------------------------------------------------
(* Calls that may need room.                                               *)

\* No capacity an allocator can provide is more than half the range, so that
\* doubling it does not wrap.
NoWrap == 2 * ALLOC_MAX <= USIZE

\* More room for one more element is at least twice the room there was.
LEMMA Doubles ==
  ASSUME NoWrap, IndInv, NEW h \in alive, NEW r \in ensure_cap(h, vec[h].len + 1)
  PROVE  r.v.cap # vec[h].cap => r.v.cap >= 2 * vec[h].cap
<1>1. PICK cap \in Nat, n \in Nat : cap = vec[h].cap /\ n = vec[h].len + 1 /\ n <= cap + 1
  <2>1. vec[h].cap \in Nat /\ vec[h].len + 1 \in Nat /\ vec[h].len + 1 <= vec[h].cap + 1
    BY SeqsFacts
  <2> QED
    BY <2>1
<1>2. CASE n <= cap
  BY <1>1, <1>2, EnsureCapFacts
<1>3. CASE n > cap
  <2>1. PICK c \in NewCaps(cap, n) : r \in Reserved(h, c)
    BY <1>1, <1>3 DEF ensure_cap
  <2>2. c \in Nat /\ cap < c
    BY <2>1, <1>1, <1>3, SizeAssumption DEF NewCaps
  <2>3. PICK o \in nx_al_realloc(vec[h].al, vec[h].data, c) :
          r = [heap |-> o.heap, v |-> [vec[h] EXCEPT !.data = o.data, !.cap = c]]
    <3>1. ~(c <= vec[h].cap)
      BY <2>2, <1>1
    <3> QED
      BY <2>1, <3>1 DEF Reserved
  <2>4. r.v.cap = c
    BY <2>3, CellsFacts DEF Struct
  <2>5. c <= ALLOC_MAX
    <3>1. ~(c > ALLOC_MAX)
      BY <2>3 DEF nx_al_realloc, nx_al_alloc
    <3> QED
      BY <3>1, <2>2, SizeAssumption
  <2>6. CASE cap = 0
    BY <2>2, <2>4, <2>6, <1>1
  <2>7. CASE cap # 0
    <3> DEFINE D == { d \in n .. USIZE - 1 : \E p \in 1 .. d : d = cap * p /\ PowerOfTwo(p) }
    <3>1. PowerOfTwo(2)
      BY DEF PowerOfTwo
    <3>2. 2 * cap \in n .. USIZE - 1 /\ 2 \in 1 .. 2 * cap /\ 2 * cap = cap * 2
      BY <2>2, <2>5, <2>7, <1>1, SizeAssumption DEF NoWrap
    <3>3. 2 * cap \in D
      BY <3>1, <3>2
    <3>4. c \in D
      <4>1. NewCaps(cap, n) = IF D = {} THEN {n} ELSE { d \in D : \A e \in D : d <= e }
        BY <2>7 DEF NewCaps
      <4> HIDE DEF D
      <4> QED
        BY <4>1, <3>3, <2>1
    <3>5. PICK p \in 1 .. c : c = cap * p
      BY <3>4
    <3>6. p # 1
      BY <3>5, <2>2
    <3>7. cap * p >= cap * 2
      <4>1. PICK q \in Nat : p = 2 + q
        <5>1. p - 2 \in Nat /\ p = 2 + (p - 2)
          BY <3>6
        <5> QED
          BY <5>1
      <4>2. cap * p = cap * 2 + cap * q /\ cap * q >= 0
        BY <4>1
      <4> QED
        BY <4>2
    <3> QED
      BY <3>5, <3>7, <3>2, <2>4, <1>1
  <2> QED
    BY <2>6, <2>7
<1> QED
  BY <1>1, <1>2, <1>3

\* A store into a buffer with room for m elements.
LEMMA RoomStored ==
  ASSUME IndInv, NEW h \in alive, NEW m \in Nat, NEW r,
         r \in ensure_cap(h, m) \/ r \in Reserved(h, m),
         NEW c \in [0 .. r.v.cap - 1 -> Cell], Store(h, r, c, m)
  PROVE  /\ Seqs!Only(h) /\ seqs'[h] = Listed(c, m) /\ room'[h] = r.v.cap
         /\ Len(seqs'[h]) <= room'[h]
         /\ room'[h] # room[h] => Len(seqs'[h]) > room[h]
<1>1. /\ Fits(r.v, r.heap, h) /\ r.v.cap \in Nat /\ m <= r.v.cap
      /\ m <= vec[h].cap => r.v.cap = vec[h].cap
  BY RoomFacts
<1>2. Seqs!Only(h) /\ seqs'[h] = Listed(c, m) /\ room'[h] = r.v.cap
  BY <1>1, StoredIs
<1>3. \A i \in 0 .. m - 1 : c[i] \in Cell
  BY <1>1
<1>4. /\ Listed(c, m) \in Seq(Cell) /\ Len(Listed(c, m)) = m
      /\ \A i \in 1 .. m : Listed(c, m)[i] = c[i - 1]
  BY <1>3, ListedFacts
<1>5. room[h] = vec[h].cap /\ vec[h].cap \in Nat
  BY SeqsFacts
<1> QED
  BY <1>1, <1>2, <1>4, <1>5

LEMMA PushStep ==
  ASSUME NoWrap, IndInv, NEW h \in alive, NEW x \in Val, push(h, x) PROVE Seqs!Next
<1>1. PICK n \in Nat, s \in Seq(Cell) : n = vec[h].len /\ s = seqs[h]
  BY SeqsFacts
<1>2. /\ Len(s) = n /\ room[h] = vec[h].cap /\ \A i \in 1 .. n : s[i] = cells(h)[i - 1]
      /\ vec[h].cap \in Nat /\ n <= vec[h].cap
  BY <1>1, SeqsFacts
<1>3. x \in Cell /\ n + 1 \in Nat
  BY DEF Cell
<1>4. ASSUME NEW r \in ensure_cap(h, n + 1),
             Store(h, r, [CellsIn(r.heap, r.v) EXCEPT ![n] = x], n + 1)
      PROVE  Seqs!Next
  <2>1. PICK k, c : k = CellsIn(r.heap, r.v) /\ c = [k EXCEPT ![n] = x]
    OBVIOUS
  <2>2. /\ k \in [0 .. r.v.cap - 1 -> Cell] /\ r.v.cap \in Nat /\ n + 1 <= r.v.cap
        /\ \A i \in Index(h) : k[i] = cells(h)[i]
    BY <1>3, <2>1, RoomFacts
  <2>3. /\ c \in [0 .. r.v.cap - 1 -> Cell] /\ c[n] = x
        /\ \A i \in 0 .. n - 1 : c[i] = k[i]
    BY <1>3, <2>1, <2>2
  <2>4. Store(h, r, c, n + 1)
    BY <1>4, <2>1
  <2>5. PICK t : t = Listed(c, n + 1)
    OBVIOUS
  <2>11. t \in Seq(Cell) /\ Len(t) = n + 1 /\ \A i \in 1 .. n + 1 : t[i] = c[i - 1]
    <3>1. \A i \in 0 .. (n + 1) - 1 : c[i] \in Cell
      BY <2>2, <2>3
    <3> QED
      BY <3>1, <1>3, <2>5, ListedFacts
  <2>6. /\ Seqs!Only(h) /\ seqs'[h] = t /\ room'[h] = r.v.cap /\ Len(seqs'[h]) <= room'[h]
        /\ room'[h] # room[h] => Len(seqs'[h]) > room[h]
    BY <1>3, <2>3, <2>4, <2>5, RoomStored
  <2>7. t = Append(s, x)
    <3>1. ASSUME NEW i \in 1 .. n PROVE t[i] = s[i]
      <4>1. i - 1 \in 0 .. n - 1 /\ i - 1 \in Index(h) /\ i \in 1 .. n + 1
        BY <1>1 DEF Index
      <4> QED
        BY <4>1, <1>2, <2>2, <2>3, <2>11
    <3>2. t[n + 1] = x
      BY <2>3, <2>11
    <3> QED
      BY <3>1, <3>2, <1>2, <1>3, <2>11, AppendIs
  <2>8. seqs'[h] \in Seqs!Push(seqs[h])
    BY <1>1, <2>6, <2>7 DEF Seqs!Push
  <2>9. room'[h] # room[h] => room'[h] >= 2 * room[h]
    BY <1>1, <1>2, <1>4, <2>6, Doubles
  <2> QED
    BY <2>6, <2>8, <2>9, MoreStep
<1>5. CASE n + 1 > vec[h].cap /\ Fails
  <2>1. Append(s, x) \in Seqs!Push(s) /\ Len(Append(s, x)) = n + 1
    BY <1>2, <1>3, AppendProperties DEF Seqs!Push
  <2>2. Append(s, x) \in Seqs!OneMore(s)
    BY <2>1 DEF Seqs!OneMore
  <2> QED
    BY <2>1, <2>2, <1>1, <1>2, <1>5, FailsStep
<1> QED
  BY <1>1, <1>4, <1>5 DEF push

\* What insert makes of the cells, one at a time.
Inserted(c, idx, n, x) == [shift_right(c, idx, n) EXCEPT ![idx] = x]

InsertedAt(c, k, idx, n, x) ==
  \A i \in 0 .. n : c[i] = IF i < idx THEN k[i] ELSE IF i = idx THEN x ELSE k[i - 1]

LEMMA ShiftedRight ==
  ASSUME NEW cap \in Nat, NEW n \in Nat, n + 1 <= cap, NEW k \in [0 .. cap - 1 -> Cell],
         NEW idx \in 0 .. n, NEW x \in Cell
  PROVE  \E c \in [0 .. cap - 1 -> Cell] :
         c = Inserted(k, idx, n, x) /\ InsertedAt(c, k, idx, n, x)
<1>0. PICK d : d = shift_right(k, idx, n)
  OBVIOUS
<1>1. PICK c : c = [d EXCEPT ![idx] = x]
  OBVIOUS
<1>2. d = [i \in 0 .. cap - 1 |-> IF idx < i /\ i <= n THEN k[i - 1] ELSE k[i]]
  BY <1>0 DEF shift_right
<1>3. \A i \in 0 .. cap - 1 : idx < i /\ i <= n => i - 1 \in 0 .. cap - 1
  OBVIOUS
<1>4. d \in [0 .. cap - 1 -> Cell]
  BY <1>2, <1>3
<1>5. c = [d EXCEPT ![idx] = x] /\ idx \in 0 .. cap - 1
  BY <1>1
<1>6. /\ c \in [0 .. cap - 1 -> Cell] /\ c[idx] = x
      /\ \A i \in 0 .. cap - 1 : i # idx => c[i] = d[i]
  BY <1>4, <1>5
<1>7. ASSUME NEW i \in 0 .. n
      PROVE  c[i] = IF i < idx THEN k[i] ELSE IF i = idx THEN x ELSE k[i - 1]
  <2>1. i \in 0 .. cap - 1
    OBVIOUS
  <2>2. d[i] = IF idx < i THEN k[i - 1] ELSE k[i]
    BY <2>1, <1>2
  <2> QED
    BY <2>1, <2>2, <1>6
<1>8. c = Inserted(k, idx, n, x)
  BY <1>0, <1>1 DEF Inserted
<1> QED
  BY <1>6, <1>7, <1>8 DEF InsertedAt

LEMMA InsertOf ==
  ASSUME NEW s, NEW i \in 0 .. Len(s), NEW x \in Val
  PROVE  Seqs!Before(s, i) \o <<x>> \o Seqs!From(s, i) \in Seqs!Insert(s)
<1> DEFINE F(j, y) == Seqs!Before(s, j) \o <<y>> \o Seqs!From(s, j)
<1>1. Seqs!Insert(s) = { F(j, y) : j \in 0 .. Len(s), y \in Val }
  BY DEF Seqs!Insert
<1>2. F(i, x) = Seqs!Before(s, i) \o <<x>> \o Seqs!From(s, i)
  OBVIOUS
<1> HIDE DEF F
<1> QED
  BY <1>1, <1>2

LEMMA InsertStep ==
  ASSUME NoWrap, IndInv, NEW h \in alive, NEW idx \in Nat, idx <= vec[h].len, NEW x \in Val,
         insert(h, idx, x)
  PROVE  Seqs!Next
<1>1. PICK n \in Nat, s \in Seq(Cell) : n = vec[h].len /\ s = seqs[h]
  BY SeqsFacts
<1>2. /\ Len(s) = n /\ room[h] = vec[h].cap /\ \A i \in 1 .. n : s[i] = cells(h)[i - 1]
      /\ vec[h].cap \in Nat /\ n <= vec[h].cap
  BY <1>1, SeqsFacts
<1>3. x \in Cell /\ n + 1 \in Nat /\ idx \in 0 .. n
  BY <1>1 DEF Cell
<1>4. ASSUME NEW r \in ensure_cap(h, n + 1),
             Store(h, r, [shift_right(CellsIn(r.heap, r.v), idx, n) EXCEPT ![idx] = x], n + 1)
      PROVE  Seqs!Next
  <2>1. PICK cap \in Nat : cap = r.v.cap /\ n + 1 <= cap
    BY <1>3, RoomFacts
  <2>2. PICK k \in [0 .. cap - 1 -> Cell] :
          k = CellsIn(r.heap, r.v) /\ \A i \in Index(h) : k[i] = cells(h)[i]
    BY <1>3, <2>1, RoomFacts
  <2>3. PICK c \in [0 .. cap - 1 -> Cell] :
          c = Inserted(k, idx, n, x) /\ InsertedAt(c, k, idx, n, x)
    BY <1>3, <2>1, ShiftedRight
  <2>4. Store(h, r, c, n + 1)
    BY <1>4, <2>2, <2>3 DEF Inserted
  <2>5. PICK t : t = Listed(c, n + 1)
    OBVIOUS
  <2>11. t \in Seq(Cell) /\ Len(t) = n + 1 /\ \A i \in 1 .. n + 1 : t[i] = c[i - 1]
    <3>1. \A i \in 0 .. (n + 1) - 1 : c[i] \in Cell
      BY <2>1
    <3> QED
      BY <3>1, <1>3, <2>5, ListedFacts
  <2>6. /\ Seqs!Only(h) /\ seqs'[h] = t /\ room'[h] = r.v.cap /\ Len(seqs'[h]) <= room'[h]
        /\ room'[h] # room[h] => Len(seqs'[h]) > room[h]
    BY <1>3, <2>1, <2>4, <2>5, RoomStored
  <2>7. ASSUME NEW i \in 1 .. n + 1
        PROVE  t[i] = IF i <= idx THEN s[i] ELSE IF i = idx + 1 THEN x ELSE s[i - 1]
    <3>1. i - 1 \in 0 .. n /\ t[i] = c[i - 1]
      BY <2>11
    <3>2. c[i - 1] = IF i - 1 < idx THEN k[i - 1] ELSE IF i - 1 = idx THEN x ELSE k[(i - 1) - 1]
      BY <3>1, <2>3 DEF InsertedAt
    <3>3. CASE i <= idx
      <4>1. i - 1 \in Index(h) /\ i \in 1 .. n /\ i - 1 < idx
        BY <3>3, <1>1, <1>3 DEF Index
      <4> QED
        BY <4>1, <3>1, <3>2, <3>3, <1>2, <2>2
    <3>4. CASE i = idx + 1
      <4>1. i - 1 = idx /\ ~(i <= idx)
        BY <3>4, <1>3
      <4> QED
        BY <4>1, <3>1, <3>2, <3>4
    <3>5. CASE i > idx + 1
      <4>1. /\ (i - 1) - 1 \in Index(h) /\ i - 1 \in 1 .. n
            /\ ~(i - 1 < idx) /\ i - 1 # idx /\ ~(i <= idx)
        BY <3>5, <1>1, <1>3 DEF Index
      <4>2. s[i - 1] = cells(h)[(i - 1) - 1]
        BY <4>1, <1>2
      <4>3. k[(i - 1) - 1] = cells(h)[(i - 1) - 1]
        BY <4>1, <2>2
      <4> QED
        BY <4>1, <4>2, <4>3, <3>1, <3>2, <3>5
    <3> QED
      BY <3>3, <3>4, <3>5, <1>3
  <2>8. t = Seqs!Before(s, idx) \o <<x>> \o Seqs!From(s, idx)
    <3>1. t \in Seq(Cell) /\ idx \in 0 .. Len(s) /\ Len(t) = Len(s) + 1
      BY <1>2, <1>3, <2>11
    <3>2. ASSUME NEW i \in 1 .. Len(t)
          PROVE  t[i] = IF i <= idx THEN s[i] ELSE IF i = idx + 1 THEN x ELSE s[i - 1]
      BY <2>11, <2>7
    <3>3. WithOneAt(t, s, idx, x)
      BY <3>2 DEF WithOneAt
    <3> QED
      BY <1>3, <3>1, <3>3, InsertIs
  <2>9. seqs'[h] \in Seqs!Insert(seqs[h])
    <3>1. idx \in 0 .. Len(s)
      BY <1>2, <1>3
    <3>2. t \in Seqs!Insert(s)
      BY <2>8, <3>1, InsertOf
    <3> QED
      BY <1>1, <2>6, <3>2
  <2>10. room'[h] # room[h] => room'[h] >= 2 * room[h]
    BY <1>1, <1>2, <1>4, <2>6, Doubles
  <2> QED
    BY <2>6, <2>9, <2>10, MoreStep
<1>5. CASE n + 1 > vec[h].cap /\ Fails
  <2>1. Append(s, x) \in Seqs!Push(s) /\ Len(Append(s, x)) = n + 1
    BY <1>2, <1>3, AppendProperties DEF Seqs!Push
  <2>2. Append(s, x) \in Seqs!OneMore(s)
    BY <2>1 DEF Seqs!OneMore
  <2> QED
    BY <2>1, <2>2, <1>1, <1>2, <1>5, FailsStep
<1> QED
  BY <1>1, <1>4, <1>5 DEF insert

LEMMA EraseStep ==
  ASSUME IndInv, NEW h \in alive, NEW idx \in Index(h), erase(h, idx) PROVE Seqs!Next
<1>1. PICK n \in Nat, s \in Seq(Cell) : n = vec[h].len /\ s = seqs[h]
  BY SeqsFacts
<1>2. /\ Len(s) = n /\ room[h] = vec[h].cap /\ \A i \in 1 .. n : s[i] = cells(h)[i - 1]
      /\ vec[h].cap \in Nat /\ n <= vec[h].cap
  BY <1>1, SeqsFacts
<1>3. PICK r : r = [heap |-> heap, v |-> vec[h]]
  OBVIOUS
<1>4. /\ cells(h) \in [0 .. r.v.cap - 1 -> Cell] /\ Fits(r.v, r.heap, h)
      /\ r.v.cap = vec[h].cap /\ r.v.cap \in Nat /\ n <= r.v.cap
  BY <1>2, <1>3, CellsFacts
<1>5. idx \in 0 .. n - 1 /\ n - 1 \in Nat /\ n - 1 <= r.v.cap
  BY <1>1, <1>4 DEF Index
<1>6. PICK c : c = shift_left(cells(h), idx, n)
  OBVIOUS
<1>7. c = [i \in 0 .. r.v.cap - 1 |->
             IF idx <= i /\ i < n - 1 THEN cells(h)[i + 1] ELSE cells(h)[i]]
  BY <1>4, <1>6 DEF shift_left
<1>8. \A i \in 0 .. r.v.cap - 1 : idx <= i /\ i < n - 1 => i + 1 \in 0 .. r.v.cap - 1
  BY <1>4
<1>9. c \in [0 .. r.v.cap - 1 -> Cell]
  BY <1>4, <1>7, <1>8
<1>10. Store(h, r, c, n - 1)
  BY <1>1, <1>3, <1>6 DEF erase
<1>11. PICK t : t = Listed(c, n - 1)
  OBVIOUS
<1>12. /\ Seqs!Only(h) /\ seqs'[h] = t /\ room'[h] = room[h]
       /\ t \in Seq(Cell) /\ Len(t) = n - 1 /\ \A i \in 1 .. n - 1 : t[i] = c[i - 1]
  <2>1. Seqs!Only(h) /\ seqs'[h] = Listed(c, n - 1) /\ room'[h] = r.v.cap
    BY <1>4, <1>5, <1>9, <1>10, StoredIs
  <2>2. \A i \in 0 .. (n - 1) - 1 : c[i] \in Cell
    BY <1>4, <1>9
  <2>3. /\ Listed(c, n - 1) \in Seq(Cell) /\ Len(Listed(c, n - 1)) = n - 1
        /\ \A i \in 1 .. n - 1 : Listed(c, n - 1)[i] = c[i - 1]
    BY <2>2, <1>5, ListedFacts
  <2> QED
    BY <2>1, <2>3, <1>2, <1>4, <1>11
<1>13. ASSUME NEW i \in 1 .. n - 1 PROVE t[i] = IF i < idx + 1 THEN s[i] ELSE s[i + 1]
  <2>1. i - 1 \in 0 .. r.v.cap - 1 /\ (i - 1) + 1 = i /\ (i + 1) - 1 = i /\ i \in 1 .. n
        /\ i + 1 \in 1 .. n
    BY <1>4
  <2>2. t[i] = IF idx <= i - 1 /\ i - 1 < n - 1 THEN cells(h)[i] ELSE cells(h)[i - 1]
    BY <2>1, <1>7, <1>12
  <2>3. s[i] = cells(h)[i - 1] /\ s[i + 1] = cells(h)[i]
    BY <2>1, <1>2
  <2> QED
    BY <2>2, <2>3, <1>5
<1>14. idx + 1 \in 1 .. Len(s) /\ Len(t) = Len(s) - 1
  BY <1>2, <1>5, <1>12
<1>15. t = Seqs!Before(s, (idx + 1) - 1) \o Seqs!From(s, idx + 1)
  <2>1. ASSUME NEW i \in 1 .. Len(t) PROVE t[i] = IF i < idx + 1 THEN s[i] ELSE s[i + 1]
    BY <1>12, <1>13
  <2>2. t \in Seq(Cell)
    BY <1>12
  <2> QED
    BY <2>1, <2>2, <1>14, EraseIs
<1>16. t \in Seqs!Erase(s)
  BY <1>14, <1>15 DEF Seqs!Erase
<1>17. t \in Seqs!Others(s)
  BY <1>16 DEF Seqs!Others
<1>18. /\ Seqs!Only(h) /\ seqs'[h] \in Seqs!Others(seqs[h])
       /\ Len(seqs'[h]) <= room'[h] /\ room'[h] = room[h]
  <2>1. n - 1 <= vec[h].cap
    BY <1>2
  <2> QED
    BY <2>1, <1>1, <1>2, <1>12, <1>17
<1> QED
  BY <1>18, OthersStep

\* t is s with the sequence u behind it.
WithMore(t, s, u) ==
  \A i \in 1 .. Len(t) : t[i] = IF i <= Len(s) THEN s[i] ELSE u[i - Len(s)]

LEMMA WithMoreIs ==
  ASSUME NEW S, NEW s \in Seq(S), NEW u \in Seq(S), NEW t \in Seq(S),
         Len(t) = Len(s) + Len(u), WithMore(t, s, u)
  PROVE  t = s \o u
BY ConcatIs DEF WithMore

LEMMA BehindFacts ==
  ASSUME NEW n \in Nat, NEW k \in Nat, NEW j \in Nat, n < j, j <= n + k
  PROVE  n <= j - 1 /\ j - 1 < n + k /\ j - n \in 1 .. k /\ (j - 1) - n = (j - n) - 1
OBVIOUS

\* k cells copied behind the n elements of h, into a buffer with room for them.
LEMMA CopiedBehind ==
  ASSUME IndInv, NEW h \in alive, NEW k \in Nat, NEW src, \A i \in 0 .. k - 1 : src[i] \in Cell,
         NEW n \in Nat, n = vec[h].len, NEW m \in Nat, m = n + k,
         NEW r, r \in ensure_cap(h, m) \/ r \in Reserved(h, m),
         Store(h, r, memcpy(CellsIn(r.heap, r.v), n, src, k), m)
  PROVE  /\ Seqs!Only(h) /\ seqs'[h] = seqs[h] \o Listed(src, k) /\ Len(seqs'[h]) = m
         /\ Len(seqs'[h]) <= room'[h]
         /\ room'[h] # room[h] => Len(seqs'[h]) > room[h]
<1>1. PICK s \in Seq(Cell) : s = seqs[h]
  BY SeqsFacts
<1>2. Len(s) = n /\ \A i \in 1 .. n : s[i] = cells(h)[i - 1]
  BY <1>1, SeqsFacts
<1>0. PICK cap \in Nat : cap = r.v.cap /\ m <= cap
  BY RoomFacts
<1>3. m <= cap
  BY <1>0
<1>18. 0 .. m - 1 \subseteq 0 .. cap - 1
  BY <1>3
<1>4. PICK b \in [0 .. cap - 1 -> Cell] :
        b = CellsIn(r.heap, r.v) /\ \A i \in Index(h) : b[i] = cells(h)[i]
  BY <1>0, RoomFacts
<1>5. PICK c : c = memcpy(b, n, src, k)
  OBVIOUS
<1>6. c = [i \in 0 .. cap - 1 |-> IF n <= i /\ i < n + k THEN src[i - n] ELSE b[i]]
  BY <1>4, <1>5 DEF memcpy
<1>7. \A i \in 0 .. cap - 1 : n <= i /\ i < n + k => i - n \in 0 .. k - 1
  OBVIOUS
<1>8. c \in [0 .. cap - 1 -> Cell]
  BY <1>6, <1>7
<1>9. Store(h, r, c, m)
  BY <1>4, <1>5
<1>10. PICK t : t = Listed(c, m)
  OBVIOUS
<1>11. /\ Seqs!Only(h) /\ seqs'[h] = t /\ Len(seqs'[h]) <= room'[h]
       /\ room'[h] # room[h] => Len(seqs'[h]) > room[h]
  BY <1>0, <1>8, <1>9, <1>10, RoomStored
<1>12. t \in Seq(Cell) /\ Len(t) = m /\ \A i \in 1 .. m : t[i] = c[i - 1]
  <2>1. ASSUME NEW i \in 0 .. m - 1 PROVE c[i] \in Cell
    <3>1. i \in 0 .. cap - 1
      BY <1>18
    <3> QED
      BY <3>1, <1>8
  <2> QED
    BY <2>1, <1>10, ListedFacts
<1>13. PICK u : u = Listed(src, k)
  OBVIOUS
<1>14. u \in Seq(Cell) /\ Len(u) = k /\ \A i \in 1 .. k : u[i] = src[i - 1]
  BY <1>13, ListedFacts
<1>15. ASSUME NEW i \in 1 .. m PROVE t[i] = IF i <= n THEN s[i] ELSE u[i - n]
  <2>0. t[i] = c[i - 1]
    BY <1>12
  <2>1. i - 1 \in 0 .. cap - 1
    BY <1>3
  <2>2. c[i - 1] = IF n <= i - 1 /\ i - 1 < n + k THEN src[(i - 1) - n] ELSE b[i - 1]
    BY <2>1, <1>6
  <2>3. CASE i <= n
    <3>1. ~(n <= i - 1) /\ i \in 1 .. n /\ i - 1 \in Index(h)
      BY <2>3 DEF Index
    <3> QED
      BY <3>1, <2>0, <2>2, <2>3, <1>2, <1>4
  <2>4. CASE ~(i <= n)
    <3>0. PICK j \in Nat : j = i
      OBVIOUS
    <3>1. n <= j - 1 /\ j - 1 < n + k /\ j - n \in 1 .. k /\ (j - 1) - n = (j - n) - 1
      <4>1. n < j /\ j <= n + k
        BY <3>0, <2>4
      <4> QED
        BY <4>1, BehindFacts
    <3>2. u[i - n] = src[(i - n) - 1]
      BY <3>0, <3>1, <1>14
    <3> QED
      BY <3>0, <3>1, <3>2, <2>0, <2>2, <2>4
  <2> QED
    BY <2>3, <2>4
<1>16. WithMore(t, s, u)
  BY <1>2, <1>12, <1>15 DEF WithMore
<1>17. t = s \o u
  BY <1>2, <1>12, <1>14, <1>16, WithMoreIs
<1> QED
  BY <1>1, <1>11, <1>12, <1>13, <1>17

LEMMA ExtendStep ==
  ASSUME IndInv, NEW h \in alive, NEW g \in alive, extend(h, g) PROVE Seqs!Next
<1>1. PICK n \in Nat, k \in Nat, m \in Nat : n = vec[h].len /\ k = vec[g].len /\ m = n + k
  BY SeqsFacts
<1>2. /\ room[h] = vec[h].cap /\ vec[h].cap \in Nat /\ Seqs!alive = alive
      /\ seqs[h] \in Seq(Cell) /\ Len(seqs[h]) = n
      /\ seqs[g] = Listed(cells(g), k) /\ seqs[g] \in Seq(Cell) /\ Len(seqs[g]) = k
  BY <1>1, SeqsFacts
<1>3. \A i \in 0 .. k - 1 : cells(g)[i] \in Cell
  <2>1. PICK cap \in Nat : cap = vec[g].cap /\ k <= cap
    BY <1>1, SeqsFacts
  <2>2. cells(g) \in [0 .. cap - 1 -> Cell]
    BY <2>1, CellsFacts
  <2> QED
    BY <2>1, <2>2
<1>4. seqs[h] \o seqs[g] \in Seqs!Others(seqs[h])
  BY <1>2 DEF Seqs!Others, Seqs!Extend
<1>5. CASE k = 0 /\ ret' = "ok" /\ UNCHANGED <<vec, heap>>
  BY <1>5, SameStep
<1>6. ASSUME NEW r \in ensure_cap(h, m),
             Store(h, r, memcpy(CellsIn(r.heap, r.v), n, cells(g), k), m)
      PROVE  Seqs!Next
  <2>1. /\ Seqs!Only(h) /\ seqs'[h] = seqs[h] \o Listed(cells(g), k)
        /\ Len(seqs'[h]) <= room'[h]
        /\ room'[h] # room[h] => Len(seqs'[h]) > room[h]
    BY <1>1, <1>3, <1>6, CopiedBehind
  <2>2. seqs'[h] \in Seqs!Others(seqs[h])
    BY <2>1, <1>2, <1>4
  <2> QED
    BY <2>1, <2>2, OthersStep
<1>7. CASE m > vec[h].cap /\ Fails
  <2>1. Len(seqs[h] \o seqs[g]) = m
    <3>1. Len(seqs[h] \o seqs[g]) = Len(seqs[h]) + Len(seqs[g])
      BY <1>2, ConcatProperties
    <3> QED
      BY <3>1, <1>1, <1>2
  <2> QED
    BY <2>1, <1>2, <1>4, <1>7, FailsStep
<1> QED
  BY <1>1, <1>5, <1>6, <1>7 DEF extend

LEMMA ResizeStep ==
  ASSUME IndInv, NEW h \in alive, NEW new_len \in Lens, resize(h, new_len) PROVE Seqs!Next
<1>1. PICK n \in Nat, m \in Nat : n = vec[h].len /\ m = new_len
  BY SeqsFacts, SizeAssumption
<1>2. /\ room[h] = vec[h].cap /\ vec[h].cap \in Nat /\ n <= vec[h].cap
      /\ seqs[h] \in Seq(Cell) /\ Len(seqs[h]) = n
  BY <1>1, SeqsFacts
<1>3. (IF m <= n THEN Seqs!Before(seqs[h], m) ELSE seqs[h] \o Seqs!Zeros(m - n))
        \in Seqs!Others(seqs[h])
  BY <1>1, <1>2 DEF Seqs!Others, Seqs!Resize
<1>4. CASE m <= n /\ Shortened(h, m) /\ ret' = "ok"
  <2>1. /\ Seqs!Only(h) /\ seqs'[h] = Seqs!Before(seqs[h], m) /\ Len(seqs'[h]) = m
        /\ room'[h] = room[h]
    BY <1>1, <1>4, ShortenedIs
  <2> QED
    BY <2>1, <1>2, <1>3, <1>4, OthersStep
<1>5. ASSUME m > n, NEW r \in Reserved(h, m),
             Store(h, r, memcpy(CellsIn(r.heap, r.v), n, Zeros(m - n), m - n), m)
      PROVE  Seqs!Next
  <2>1. PICK k \in Nat : k = m - n /\ m = n + k
    BY <1>5
  <2>2. \A i \in 0 .. k - 1 : Zeros(k)[i] \in Cell
    BY ZerosFacts
  <2>3. /\ Seqs!Only(h) /\ seqs'[h] = seqs[h] \o Listed(Zeros(k), k)
        /\ Len(seqs'[h]) <= room'[h]
        /\ room'[h] # room[h] => Len(seqs'[h]) > room[h]
    BY <1>1, <1>5, <2>1, <2>2, CopiedBehind
  <2>4. Listed(Zeros(k), k) = Seqs!Zeros(k)
    BY DEF Listed, Zeros, Seqs!Zeros
  <2>5. seqs'[h] \in Seqs!Others(seqs[h])
    <3>1. ~(m <= n)
      BY <1>5
    <3>2. seqs[h] \o Seqs!Zeros(k) \in Seqs!Others(seqs[h])
      BY <3>1, <2>1, <1>3
    <3> QED
      BY <3>2, <2>3, <2>4
  <2> QED
    BY <2>3, <2>5, OthersStep
<1>6. CASE new_len > vec[h].cap /\ Fails
  BY <1>2, <1>6, FailsStep
<1> QED
  BY <1>1, <1>4, <1>5, <1>6 DEF resize

LEMMA ReserveStep ==
  ASSUME IndInv, NEW h \in alive, NEW new_cap \in Lens, reserve(h, new_cap) PROVE Seqs!Next
<1>1. PICK n \in Nat, m \in Nat : n = vec[h].len /\ m = new_cap
  BY SeqsFacts, SizeAssumption
<1>2. /\ room[h] = vec[h].cap /\ vec[h].cap \in Nat /\ n <= vec[h].cap /\ Seqs!alive = alive
      /\ seqs[h] \in Seq(Cell) /\ Len(seqs[h]) = n
      /\ \A i \in 1 .. n : seqs[h][i] = cells(h)[i - 1]
      /\ DOMAIN room = alive /\ room = [g \in alive |-> room[g]]
  BY <1>1, SeqsFacts
<1>3. ASSUME NEW r \in Reserved(h, m), Store(h, r, CellsIn(r.heap, r.v), n) PROVE Seqs!Next
  <2>1. PICK cap \in Nat : cap = r.v.cap /\ n <= cap /\ m <= cap
    BY <1>1, RoomFacts
  <2>2. PICK c \in [0 .. cap - 1 -> Cell] :
          c = CellsIn(r.heap, r.v) /\ \A i \in Index(h) : c[i] = cells(h)[i]
    BY <2>1, RoomFacts
  <2>3. cap = IF m <= vec[h].cap THEN vec[h].cap ELSE m
    BY <2>1, ReservedFacts
  <2>4. Fits(r.v, r.heap, h) /\ n <= r.v.cap
    BY <2>1, RoomFacts
  <2>5. Seqs!Only(h) /\ seqs'[h] = Listed(c, n) /\ room'[h] = cap
    BY <1>3, <2>1, <2>2, <2>4, StoredIs
  <2>6. Listed(c, n) = Listed(cells(h), n)
    <3>1. \A i \in 1 .. n : c[i - 1] = cells(h)[i - 1]
      BY <1>1, <2>2 DEF Index
    <3> QED
      BY <3>1 DEF Listed
  <2>7. seqs'[h] = seqs[h]
    BY <1>1, <2>5, <2>6, SeqsFacts
  <2>8. room'[h] >= room[h] /\ m <= room'[h]
    BY <1>2, <2>1, <2>3, <2>5
  <2>9. m <= room[h] => room' = room
    <3> SUFFICES ASSUME m <= room[h] PROVE room' = room
      OBVIOUS
    <3>1. room'[h] = room[h]
      BY <1>2, <2>3, <2>5
    <3>2. DOMAIN room' = DOMAIN room /\ Seqs!Lacks(room', h) = Seqs!Lacks(room, h)
      BY <2>5 DEF Seqs!Only
    <3>3. \A g \in alive \ {h} : room'[g] = room[g]
      BY <3>2, <1>2 DEF Seqs!Lacks
    <3>4. room' = [g \in DOMAIN room' |-> room'[g]]
      BY DEF room
    <3> QED
      BY <3>1, <3>2, <3>3, <3>4, <1>2
  <2>10. Seqs!Reserve(h)
    BY <1>1, <2>7, <2>8, <2>9 DEF Seqs!Reserve
  <2> QED
    BY <1>2, <2>5, <2>10 DEF Seqs!Next
<1>4. CASE m > vec[h].cap /\ Fails
  BY <1>1, <1>2, <1>4, FailsStep
<1> QED
  BY <1>1, <1>3, <1>4 DEF reserve

LEMMA NewFields ==
  ASSUME NEW v, v \in Struct, NEW d, NEW n, NEW u, u = [v EXCEPT !.data = d, !.cap = n]
  PROVE  u = set_fields(d, v.len, n, v.al)
BY DEF set_fields, Struct

LEMMA ShrinkStep ==
  ASSUME IndInv, NEW h \in alive, shrink_to_fit(h) PROVE Seqs!Next
<1>1. PICK v : v = vec[h]
  OBVIOUS
<1>2. /\ v \in Struct /\ v.len \in 0 .. v.cap /\ h \in Vec
      /\ Owned(h) = v.data /\ Fits(v, heap, h) /\ v.len \in Nat /\ v.cap \in Nat
  BY <1>1, CellsFacts DEF IndInv, TypeOK, Owned, Struct
<1>3. /\ room[h] = v.cap /\ Seqs!alive = alive
      /\ seqs[h] = Listed(cells(h), v.len) /\ Len(seqs[h]) = v.len
  BY <1>1, SeqsFacts
<1>4. CASE v.len = v.cap /\ ret' = "ok" /\ UNCHANGED <<vec, heap>>
  BY <1>4, SameStep
<1>5. CASE /\ v.len # v.cap /\ v.len = 0 /\ heap' = nx_al_dealloc(heap, v.data)
           /\ vec' = [vec EXCEPT ![h] = set_fields(Null, 0, 0, v.al)] /\ ret' = "ok"
  <2>1. PICK w : w = set_fields(Null, 0, 0, v.al)
    OBVIOUS
  <2>2. w \in Struct /\ w.data = Null /\ w.len = 0 /\ w.cap = 0
    BY <1>2, <2>1 DEF set_fields, Struct
  <2>3. v.data # Null /\ v.data \in DOMAIN heap /\ Null \notin DOMAIN heap
    BY <1>2, <1>5 DEF Fits, Struct
  <2>4. /\ DOMAIN heap' = DOMAIN heap \ {v.data} /\ heap' = [b \in DOMAIN heap' |-> heap'[b]]
        /\ \A b \in DOMAIN heap' : heap'[b] = heap[b]
    BY <1>5, <2>3 DEF nx_al_dealloc, Lacks
  <2>5. vec' = Has(vec, h, w)
    BY <1>5, <2>1, HasExcept
  <2>6. Fits(w, heap', h)
    BY <1>2, <2>2, <2>3, <2>4 DEF Fits
  <2>7. HasThose(w, heap', cells(h))
    BY <2>2 DEF HasThose
  <2>8. Seqs!Only(h) /\ seqs'[h] = Listed(cells(h), 0) /\ room'[h] = 0
    <3>1. h \in Vec /\ ret' = "ok" /\ w.len = 0 /\ w.cap = 0
      BY <1>2, <1>5, <2>2
    <3>2. Seqs!Only(h) /\ seqs'[h] = Listed(cells(h), w.len) /\ room'[h] = w.cap
      BY <3>1, <2>5, <2>6, <2>7, Becomes
    <3> QED
      BY <3>1, <3>2
  <2>9. Seqs!Shrink(h)
    BY <1>3, <1>5, <2>8 DEF Seqs!Shrink
  <2> QED
    BY <1>3, <2>8, <2>9 DEF Seqs!Next
<1>6. CASE v.len # v.cap /\ v.len > 0 /\ Fails
  <2>1. Len(seqs[h]) \notin {0, room[h]}
    BY <1>2, <1>3, <1>6
  <2> QED
    BY <2>1, <1>6, FailsStep
<1>7. CASE /\ v.len # v.cap /\ v.len > 0
           /\ \E o \in nx_al_realloc(v.al, v.data, v.len) :
                /\ heap' = o.heap /\ ret' = "ok"
                /\ vec' = [vec EXCEPT ![h].data = o.data, ![h].cap = v.len]
  <2>1. PICK o \in nx_al_realloc(v.al, v.data, v.len) :
          /\ heap' = o.heap /\ ret' = "ok"
          /\ vec' = [vec EXCEPT ![h].data = o.data, ![h].cap = v.len]
    BY <1>7
  <2>2. PICK w : w = set_fields(o.data, v.len, v.len, v.al)
    OBVIOUS
  <2>3. v.len \in Nat \ {0} /\ v.len \in 0 .. v.len /\ v.len <= vec[h].len
    BY <1>1, <1>2, <1>7
  <2>4. Fits(w, heap', h) /\ HasThose(w, heap', cells(h))
    BY <1>1, <2>1, <2>2, <2>3, ReallocFacts
  <2>5. vec' = Has(vec, h, w)
    <3>1. vec' = [vec EXCEPT ![h] = [v EXCEPT !.data = o.data, !.cap = v.len]]
      BY <1>1, <2>1 DEF IndInv, TypeOK
    <3>2. w = [v EXCEPT !.data = o.data, !.cap = v.len]
      <4>1. v \in Struct
        BY <1>2
      <4> QED
        BY <4>1, <1>2, <2>2, NewFields
    <3> QED
      BY <3>1, <3>2, HasExcept
  <2>6. w.len = v.len /\ w.cap = v.len
    BY <2>2 DEF set_fields
  <2>7. Seqs!Only(h) /\ seqs'[h] = Listed(cells(h), v.len) /\ room'[h] = v.len
    <3>1. h \in Vec /\ ret' = "ok"
      BY <1>2, <2>1
    <3>2. Seqs!Only(h) /\ seqs'[h] = Listed(cells(h), w.len) /\ room'[h] = w.cap
      BY <3>1, <2>4, <2>5, Becomes
    <3> QED
      BY <2>6, <3>2
  <2>8. Seqs!Shrink(h)
    BY <1>3, <2>7 DEF Seqs!Shrink
  <2> QED
    BY <1>3, <2>7, <2>8 DEF Seqs!Next
<1> QED
  BY <1>1, <1>4, <1>5, <1>6, <1>7 DEF shrink_to_fit

\* A copy of the elements of g is the sequence of g.
LEMMA CopyIs ==
  ASSUME IndInv, NEW g \in alive, NEW d,
         \A i \in 0 .. vec[g].len - 1 : d[i] = cells(g)[i]
  PROVE  Listed(d, vec[g].len) = seqs[g] /\ seqs[g] \in Seqs!CopyAssign
<1>1. /\ vec[g].len \in Nat /\ seqs[g] = Listed(cells(g), vec[g].len) /\ Seqs!alive = alive
  BY SeqsFacts
<1>2. \A i \in 1 .. vec[g].len : d[i - 1] = cells(g)[i - 1]
  BY <1>1
<1>3. Listed(d, vec[g].len) = Listed(cells(g), vec[g].len)
  BY <1>2 DEF Listed
<1> QED
  BY <1>1, <1>3 DEF Seqs!CopyAssign

\* Vector h, or a new vector, gets a buffer of its own with the elements of g.
GetsCopy(h, g, al, cap) ==
  /\ vec[g].len <= cap /\ ret' = "ok"
  /\ \E o \in nx_al_alloc(heap, al, cap, Elems(cells(g), vec[g].len)) :
       /\ heap' = nx_al_dealloc(o.heap, Owned(h))
       /\ vec' = Has(vec, h, set_fields(o.data, vec[g].len, cap, al))

LEMMA GetsCopyIs ==
  ASSUME IndInv, NEW h \in Vec, NEW g \in alive, NEW al \in Al, NEW cap \in Nat \ {0},
         GetsCopy(h, g, al, cap)
  PROVE  /\ DOMAIN room' = DOMAIN room \union {h}
         /\ h \in alive => Seqs!Only(h)
         /\ h \notin alive => /\ Seqs!Lacks(room', h) = room /\ Seqs!Lacks(seqs', h) = seqs
         /\ seqs'[h] = seqs[g] /\ room'[h] = cap
<1>1. PICK n \in Nat : n = vec[g].len /\ n \in 0 .. cap
  BY SeqsFacts DEF GetsCopy
<1>0. PICK o \in nx_al_alloc(heap, al, cap, Elems(cells(g), n)) :
        /\ heap' = nx_al_dealloc(o.heap, Owned(h))
        /\ vec' = Has(vec, h, set_fields(o.data, n, cap, al))
  BY <1>1 DEF GetsCopy
<1>2. PICK c : c = Elems(cells(g), n)
  OBVIOUS
<1>3. c \in [0 .. n - 1 -> Cell] /\ \A i \in 0 .. n - 1 : c[i] # Uninit
  BY <1>1, <1>2, ElemsFacts
<1>4. PICK w : w = set_fields(o.data, n, cap, al)
  OBVIOUS
<1>5. Fits(w, heap', h) /\ HasThose(w, heap', c)
  <2>1. o \in nx_al_alloc(heap, al, cap, c)
    BY <1>0, <1>2
  <2> QED
    BY <2>1, <1>0, <1>1, <1>3, <1>4, ReplacedFits
<1>6. w.len = n /\ w.cap = cap
  BY <1>4 DEF set_fields
<1>7. vec' = Has(vec, h, w) /\ ret' = "ok"
  BY <1>0, <1>4 DEF GetsCopy
<1>8. Listed(c, n) = seqs[g]
  <2>1. \A i \in 0 .. n - 1 : c[i] = cells(g)[i]
    BY <1>2 DEF Elems
  <2> QED
    BY <2>1, <1>1, CopyIs
<1>9. Listed(c, w.len) = seqs[g]
  BY <1>6, <1>8
<1> QED
  BY <1>5, <1>6, <1>7, <1>9, Becomes

LEMMA CopyAssignStep ==
  ASSUME IndInv, NEW self \in alive, NEW src \in alive, copy_assign(self, src)
  PROVE  Seqs!Next
<1>1. PICK n \in Nat, cap \in Nat : n = vec[src].len /\ cap = vec[self].cap
  BY SeqsFacts
<1>2. /\ room[self] = cap /\ Len(seqs[src]) = n /\ self \in Vec
      /\ n <= vec[src].cap /\ vec[src].cap \in Nat
      /\ seqs[src] \in Seqs!Others(seqs[self])
  <2>1. seqs[src] \in Seqs!CopyAssign
    BY CopyIs
  <2> QED
    BY <1>1, <2>1, SeqsFacts DEF Seqs!Others
<1>3. PICK c : c = Elems(cells(src), n)
  OBVIOUS
<1>4. CASE ret' = "ok" /\ UNCHANGED <<vec, heap>>
  BY <1>4, SameStep
<1>5. CASE Shortened(self, 0) /\ ret' = "ok"
  BY <1>5, ClearIs
<1>6. CASE /\ n <= cap
           /\ Store(self, [heap |-> heap, v |-> vec[self]], memcpy(cells(self), 0, c, n), n)
  <2>1. PICK r : r = [heap |-> heap, v |-> vec[self]]
    OBVIOUS
  <2>2. /\ cells(self) \in [0 .. r.v.cap - 1 -> Cell] /\ Fits(r.v, r.heap, self)
        /\ r.v.cap = cap
    BY <1>1, <2>1, CellsFacts
  <2>3. PICK d : d = memcpy(cells(self), 0, c, n)
    OBVIOUS
  <2>4. c \in [0 .. n - 1 -> Cell]
    BY <1>1, <1>3, ElemsFacts
  <2>5. d = [i \in 0 .. cap - 1 |-> IF 0 <= i /\ i < 0 + n THEN c[i - 0] ELSE cells(self)[i]]
    BY <2>2, <2>3 DEF memcpy
  <2>6. \A i \in 0 .. cap - 1 : i - 0 = i /\ (0 <= i /\ i < 0 + n => i \in 0 .. n - 1)
    OBVIOUS
  <2>7. d \in [0 .. cap - 1 -> Cell]
    BY <2>2, <2>4, <2>5, <2>6
  <2>8. \A i \in 0 .. n - 1 : d[i] = cells(src)[i]
    <3>1. \A i \in 0 .. n - 1 : c[i] = cells(src)[i]
      BY <1>3 DEF Elems
    <3>2. \A i \in 0 .. n - 1 : i \in 0 .. cap - 1 /\ 0 <= i /\ i < 0 + n /\ i - 0 = i
      BY <1>6
    <3> QED
      BY <3>1, <3>2, <2>5
  <2>9. Seqs!Only(self) /\ seqs'[self] = Listed(d, n) /\ room'[self] = cap
    <3>1. Store(self, r, d, n)
      BY <1>6, <2>1, <2>3
    <3> QED
      BY <3>1, <1>6, <2>2, <2>7, StoredIs
  <2>10. seqs'[self] = seqs[src]
    BY <1>1, <2>8, <2>9, CopyIs
  <2> QED
    BY <1>2, <1>6, <2>9, <2>10, OthersStep
<1>7. CASE n > cap /\ Fails
  BY <1>2, <1>7, FailsStep
<1>8. ASSUME n > cap, NEW o \in nx_al_alloc(heap, vec[self].al, vec[src].cap, c),
             heap' = nx_al_dealloc(o.heap, vec[self].data), ret' = "ok",
             vec' = [vec EXCEPT ![self] = set_fields(o.data, n, vec[src].cap, @.al)]
      PROVE  Seqs!Next
  <2>1. PICK al \in Al, m \in Nat \ {0} : al = vec[self].al /\ m = vec[src].cap
    <3>1. vec[self].al \in Al /\ vec[src].cap \in Nat \ {0}
      BY <1>1, <1>2, <1>8, CellsFacts DEF Struct
    <3> QED
      BY <3>1
  <2>2. GetsCopy(self, src, al, m)
    <3>1. o \in nx_al_alloc(heap, al, m, Elems(cells(src), vec[src].len))
      BY <1>1, <1>3, <1>8, <2>1
    <3>2. vec' = Has(vec, self, set_fields(o.data, vec[src].len, m, al))
      BY <1>1, <1>8, <2>1, HasExcept
    <3>3. vec[src].len <= m /\ heap' = nx_al_dealloc(o.heap, Owned(self)) /\ ret' = "ok"
      BY <1>1, <1>2, <1>8, <2>1 DEF Owned
    <3> QED
      BY <3>1, <3>2, <3>3 DEF GetsCopy
  <2>3. Seqs!Only(self) /\ seqs'[self] = seqs[src] /\ room'[self] = vec[src].cap
    BY <1>2, <2>1, <2>2, GetsCopyIs
  <2> QED
    BY <1>2, <1>8, <2>3, OthersStep
<1> QED
  BY <1>1, <1>3, <1>4, <1>5, <1>6, <1>7, <1>8 DEF copy_assign

-----------------------------------------------------------------------------
(* Calls that make, end or exchange vectors.                               *)

\* The vector h appears, with the elements c.
AppearsAs(h, len, cap, c) ==
  /\ DOMAIN room' = DOMAIN room \union {h}
  /\ Seqs!Lacks(room', h) = room /\ Seqs!Lacks(seqs', h) = seqs
  /\ seqs'[h] = Listed(c, len) /\ room'[h] = cap /\ ret' = "ok"

LEMMA CreatedIs ==
  ASSUME IndInv, NEW h \in Vec \ alive, NEW al \in Al, NEW cap \in Nat, NEW len \in 0 .. cap,
         NEW c \in [0 .. len - 1 -> Cell], \A i \in 0 .. len - 1 : c[i] # Uninit,
         Created(h, len, cap, al, c)
  PROVE  AppearsAs(h, len, cap, c)
<1>1. Owned(h) = Null /\ Null \notin DOMAIN heap /\ heap = [b \in DOMAIN heap |-> heap[b]]
  BY NullAssumption DEF Owned, IndInv, TypeOK
<1>2. CASE cap = 0
  <2>1. PICK w : w = set_fields(Null, 0, 0, al)
    OBVIOUS
  <2>2. w \in Struct /\ w.data = Null /\ w.len = len /\ w.cap = cap
    BY <1>2, <2>1 DEF set_fields, Struct
  <2>3. vec' = Has(vec, h, w) /\ heap' = heap /\ ret' = "ok"
    BY <1>2, <2>1 DEF Created
  <2>4. Fits(w, heap', h)
    <3>1. DOMAIN heap = ((DOMAIN heap \ {Null}) \union {Null}) \ {Null}
      BY <1>1
    <3> QED
      BY <2>2, <2>3, <1>1, <1>2, <3>1 DEF Fits
  <2>5. HasThose(w, heap', c)
    BY <1>2, <2>2 DEF HasThose
  <2> QED
    BY <2>2, <2>3, <2>4, <2>5, Becomes DEF AppearsAs
<1>3. CASE cap # 0
  <2>1. PICK o \in nx_al_alloc(heap, al, cap, c) :
          /\ heap' = o.heap /\ ret' = "ok"
          /\ vec' = Has(vec, h, set_fields(o.data, len, cap, al))
    BY <1>3 DEF Created
  <2>2. heap' = nx_al_dealloc(o.heap, Owned(h))
    BY <1>1, <2>1 DEF nx_al_dealloc
  <2>3. PICK w : w = set_fields(o.data, len, cap, al)
    OBVIOUS
  <2>4. Fits(w, heap', h) /\ HasThose(w, heap', c)
    BY <2>2, <2>3, <1>3, ReplacedFits
  <2>5. w.len = len /\ w.cap = cap /\ vec' = Has(vec, h, w) /\ ret' = "ok"
    BY <2>1, <2>3 DEF set_fields
  <2> QED
    BY <2>4, <2>5, Becomes DEF AppearsAs
<1> QED
  BY <1>2, <1>3

\* A call that cannot make a vector.
LEMMA FailsToMake == ASSUME IndInv, Fails, alive # Vec PROVE Seqs!Next
BY FailsStep

LEMMA NewStep ==
  ASSUME IndInv, NEW h \in Vec \ alive, NEW al \in Al,
         NEW len \in Lens, NEW cap \in Lens, new_p(h, len, cap, al)
  PROVE  Seqs!Next
<1>1. PICK c : c = Zeros(len)
  OBVIOUS
<1>2. len \in 0 .. cap /\ cap \in Nat /\ len \in Nat /\ len <= cap
  BY SizeAssumption DEF new_p
<1>3. c \in [0 .. len - 1 -> Cell] /\ \A i \in 0 .. len - 1 : c[i] # Uninit
  BY <1>1, <1>2, ZerosFacts DEF Known
<1>4. CASE Created(h, len, cap, al, c)
  <2>1. AppearsAs(h, len, cap, c)
    BY <1>2, <1>3, <1>4, CreatedIs
  <2>2. Listed(c, len) = Seqs!Zeros(len)
    BY <1>1, <1>2 DEF Listed, Zeros, Seqs!Zeros
  <2>3. seqs'[h] = Seqs!Zeros(len) /\ room'[h] = cap /\ Seqs!alive = alive
    BY <2>1, <2>2, SeqsFacts DEF AppearsAs
  <2>4. Seqs!Appears(h)
    BY <2>1, <2>3, <1>2 DEF Seqs!Appears, AppearsAs
  <2> QED
    BY <2>3, <2>4 DEF Seqs!Next
<1>5. CASE Fails
  BY <1>5, FailsToMake
<1> QED
  BY <1>1, <1>4, <1>5 DEF new_p

\* from_data and copy_a: a vector with the elements of g, and room for them.
LEMMA CopyMade ==
  ASSUME IndInv, NEW h \in Vec \ alive, NEW al \in Al, NEW g \in alive,
         NEW cap \in Nat, vec[g].len <= cap,
         Created(h, vec[g].len, cap, al, Elems(cells(g), vec[g].len)) \/ Fails
  PROVE  Seqs!Next
<1>1. PICK n \in Nat : n = vec[g].len /\ n \in 0 .. cap
  BY SeqsFacts
<1>2. PICK c : c = Elems(cells(g), n)
  OBVIOUS
<1>3. c \in [0 .. n - 1 -> Cell] /\ \A i \in 0 .. n - 1 : c[i] # Uninit /\ c[i] = cells(g)[i]
  BY <1>1, <1>2, ElemsFacts DEF Elems
<1>4. CASE Created(h, n, cap, al, c)
  <2>1. AppearsAs(h, n, cap, c)
    BY <1>1, <1>3, <1>4, CreatedIs
  <2>2. Listed(c, n) = seqs[g] /\ seqs[g] \in Seqs!CopyAssign /\ Len(seqs[g]) = n
    BY <1>1, <1>3, CopyIs, SeqsFacts
  <2>3. seqs'[h] \in Seqs!CopyAssign /\ Len(seqs'[h]) <= room'[h]
    BY <2>1, <2>2, <1>1 DEF AppearsAs
  <2>4. Seqs!Appears(h)
    BY <2>1, <2>3 DEF Seqs!Appears, AppearsAs
  <2>5. h \in Vec \ Seqs!alive
    BY SeqsFacts
  <2> QED
    BY <2>4, <2>5 DEF Seqs!Next
<1>5. CASE Fails
  BY <1>5, FailsToMake
<1> QED
  BY <1>1, <1>2, <1>4, <1>5

LEMMA DropStep == ASSUME IndInv, NEW h \in alive, drop(h) PROVE Seqs!Next
<1>1. /\ alive' = alive \ {h} /\ \A g \in alive' : vec'[g] = vec[g]
  BY DEF drop, Lacks, alive
<1>2. \A g \in alive' : cells(g)' = cells(g)
  <2> SUFFICES ASSUME NEW g \in alive' PROVE CellsIn(heap', vec[g]) = CellsIn(heap, vec[g])
    BY <1>1 DEF cells
  <2>1. vec[g].data # Null => vec[g].data \in DOMAIN heap /\ vec[g].data # vec[h].data
    BY <1>1 DEF IndInv, OneOwner
  <2>2. CASE vec[h].data = Null
    BY <2>2 DEF drop, nx_al_dealloc
  <2>3. CASE vec[h].data # Null
    BY <2>1, <2>3 DEF drop, nx_al_dealloc, Lacks, CellsIn
  <2> QED
    BY <2>2, <2>3
<1>3. /\ seqs' = [g \in alive \ {h} |-> seqs[g]] /\ room' = [g \in alive \ {h} |-> room[g]]
  BY <1>1, <1>2 DEF seqs, room
<1>4. Seqs!Drop(h) /\ h \in Seqs!alive
  BY <1>3, SeqsFacts DEF Seqs!Drop, Seqs!Lacks, drop
<1> QED
  BY <1>4 DEF Seqs!Next

LEMMA MoveStep ==
  ASSUME IndInv, NEW h \in Vec \ alive, NEW g \in alive, move(h, g) PROVE Seqs!Next
<1>1. /\ alive' = (alive \ {g}) \union {h} /\ vec'[h] = vec[g] /\ heap' = heap
      /\ \A e \in alive \ {g} : vec'[e] = vec[e]
  BY DEF move, Has, Lacks, alive
<1>2. cells(h)' = cells(g) /\ \A e \in alive \ {g} : cells(e)' = cells(e)
  BY <1>1 DEF cells
<1>3. /\ DOMAIN seqs' = (alive \ {g}) \union {h} /\ DOMAIN room' = (alive \ {g}) \union {h}
      /\ seqs'[h] = seqs[g] /\ room'[h] = room[g]
      /\ \A e \in alive \ {g} : seqs'[e] = seqs[e] /\ room'[e] = room[e]
      /\ seqs' = [e \in DOMAIN seqs' |-> seqs'[e]] /\ room' = [e \in DOMAIN room' |-> room'[e]]
  BY <1>1, <1>2 DEF seqs, room
<1>4. /\ DOMAIN seqs = alive /\ DOMAIN room = alive /\ Seqs!alive = alive /\ ret' = "ok"
  BY SeqsFacts DEF move
<1> HIDE DEF seqs, room
<1>5. Seqs!Move(h, g)
  BY <1>3, <1>4 DEF Seqs!Move, Seqs!Has, Seqs!Lacks
<1> QED
  BY <1>4, <1>5 DEF Seqs!Next

LEMMA SwapStep ==
  ASSUME IndInv, NEW a \in alive, NEW b \in alive, swap(a, b) PROVE Seqs!Next
<1>1. CASE a = b
  <2>1. UNCHANGED <<vec, heap>> /\ ret' = "ok"
    BY <1>1 DEF swap, IndInv, TypeOK
  <2> QED
    BY <2>1, SameStep
<1>2. CASE a # b
  <2>1. /\ alive' = alive /\ vec'[a] = vec[b] /\ vec'[b] = vec[a] /\ heap' = heap
        /\ \A e \in alive \ {a, b} : vec'[e] = vec[e]
    BY <1>2 DEF swap, IndInv, TypeOK, alive
  <2>2. /\ cells(a)' = cells(b) /\ cells(b)' = cells(a)
        /\ \A e \in alive \ {a, b} : cells(e)' = cells(e)
    BY <2>1 DEF cells
  <2>3. /\ DOMAIN seqs' = alive /\ DOMAIN room' = alive
        /\ seqs'[a] = seqs[b] /\ room'[a] = room[b] /\ seqs'[b] = seqs[a] /\ room'[b] = room[a]
        /\ \A e \in alive \ {a, b} : seqs'[e] = seqs[e] /\ room'[e] = room[e]
        /\ seqs' = [e \in DOMAIN seqs' |-> seqs'[e]] /\ room' = [e \in DOMAIN room' |-> room'[e]]
    BY <2>1, <2>2 DEF seqs, room
  <2>4. /\ DOMAIN seqs = alive /\ DOMAIN room = alive /\ Seqs!alive = alive /\ ret' = "ok"
        /\ seqs = [g \in alive |-> seqs[g]] /\ room = [g \in alive |-> room[g]]
    BY SeqsFacts DEF swap
  <2> HIDE DEF seqs, room
  <2>5. Seqs!Swap(a, b)
    BY <2>3, <2>4, <1>2 DEF Seqs!Swap
  <2> QED
    BY <2>4, <2>5, <1>2 DEF Seqs!Next
<1> QED
  BY <1>1, <1>2

LEMMA MoveAssignStep ==
  ASSUME IndInv, NEW self \in alive, NEW src \in alive, move_assign(self, src)
  PROVE  Seqs!Next
<1>1. CASE self = src
  BY <1>1, SameStep DEF move_assign
<1>2. CASE self # src
  <2>1. /\ alive' = alive /\ vec'[self] = vec[src]
        /\ vec'[src] = set_fields(Null, 0, 0, vec[src].al)
        /\ \A g \in alive \ {self, src} : vec'[g] = vec[g]
        /\ heap' = nx_al_dealloc(heap, vec[self].data)
    BY <1>2 DEF move_assign, IndInv, TypeOK, alive
  <2>2. \A g \in alive \ {self} : CellsIn(heap', vec[g]) = CellsIn(heap, vec[g])
    <3> SUFFICES ASSUME NEW g \in alive \ {self}
                 PROVE  CellsIn(heap', vec[g]) = CellsIn(heap, vec[g])
      OBVIOUS
    <3>1. vec[g].data # Null => vec[g].data \in DOMAIN heap /\ vec[g].data # vec[self].data
      BY DEF IndInv, OneOwner
    <3>2. CASE vec[self].data = Null
      BY <3>2, <2>1 DEF nx_al_dealloc
    <3>3. CASE vec[self].data # Null
      BY <3>1, <3>3, <2>1 DEF nx_al_dealloc, Lacks, CellsIn
    <3> QED
      BY <3>2, <3>3
  <2>3. /\ cells(self)' = cells(src) /\ \A g \in alive \ {self, src} : cells(g)' = cells(g)
    BY <1>2, <2>1, <2>2 DEF cells
  <2>4. vec'[src].len = 0 /\ vec'[src].cap = 0 /\ Listed(cells(src)', 0) = <<>>
    BY <2>1 DEF set_fields, Listed
  <2>5. /\ DOMAIN seqs' = alive /\ DOMAIN room' = alive
        /\ seqs'[self] = seqs[src] /\ room'[self] = room[src]
        /\ seqs'[src] = <<>> /\ room'[src] = 0
        /\ \A e \in alive \ {self, src} : seqs'[e] = seqs[e] /\ room'[e] = room[e]
        /\ seqs' = [e \in DOMAIN seqs' |-> seqs'[e]] /\ room' = [e \in DOMAIN room' |-> room'[e]]
    BY <1>2, <2>1, <2>3, <2>4 DEF seqs, room
  <2>6. /\ DOMAIN seqs = alive /\ DOMAIN room = alive /\ Seqs!alive = alive /\ ret' = "ok"
        /\ seqs = [g \in alive |-> seqs[g]] /\ room = [g \in alive |-> room[g]]
    BY SeqsFacts DEF move_assign
  <2> HIDE DEF seqs, room
  <2>7. Seqs!MoveAssign(self, src)
    BY <2>5, <2>6, <1>2 DEF Seqs!MoveAssign
  <2> QED
    BY <2>6, <2>7, <1>2 DEF Seqs!Next
<1> QED
  BY <1>1, <1>2

-----------------------------------------------------------------------------
(* The refinement.                                                         *)

LEMMA NextStep == ASSUME NoWrap, IndInv, Next PROVE Seqs!Next
<1>1. ASSUME NEW h \in Vec \ alive, NEW al \in Al, NEW len \in Lens, NEW cap \in Lens,
             new_p(h, len, cap, al)
      PROVE  Seqs!Next
  BY <1>1, NewStep
<1>2. ASSUME NEW h \in Vec \ alive, NEW al \in Al, NEW g \in alive,
             from_data(h, g, al) \/ copy_a(h, g, al)
      PROVE  Seqs!Next
  <2>1. PICK n \in Nat, m \in Nat : n = vec[g].len /\ m = vec[g].cap /\ n <= m
    BY SeqsFacts
  <2>2. CASE from_data(h, g, al)
    BY <2>1, <2>2, CopyMade DEF from_data
  <2>3. CASE copy_a(h, g, al)
    BY <2>1, <2>3, CopyMade DEF copy_a
  <2> QED
    BY <1>2, <2>2, <2>3
<1>3. ASSUME NEW h \in Vec \ alive, NEW g \in alive, move(h, g) PROVE Seqs!Next
  BY <1>3, MoveStep
<1>4. ASSUME NEW h \in alive, drop(h) \/ pop(h) \/ clear(h) \/ shrink_to_fit(h)
      PROVE  Seqs!Next
  BY <1>4, DropStep, PopStep, ClearIs, ShrinkStep DEF clear
<1>5. ASSUME NEW h \in alive, NEW x \in Val,
             \/ push(h, x) \/ \E idx \in Index(h) : set(h, idx, x)
             \/ \E idx \in 0 .. vec[h].len : insert(h, idx, x)
      PROVE  Seqs!Next
  <2>1. ASSUME NEW idx \in 0 .. vec[h].len, insert(h, idx, x) PROVE Seqs!Next
    <3>1. idx \in Nat /\ idx <= vec[h].len
      BY SeqsFacts
    <3> QED
      BY <2>1, <3>1, InsertStep
  <2> QED
    BY <1>5, <2>1, PushStep, SetStep
<1>6. ASSUME NEW h \in alive, NEW idx \in Index(h), erase(h, idx) PROVE Seqs!Next
  BY <1>6, EraseStep
<1>7. ASSUME NEW h \in alive, NEW n \in Lens, reserve(h, n) \/ resize(h, n) PROVE Seqs!Next
  BY <1>7, ReserveStep, ResizeStep
<1>8. ASSUME NEW h \in alive, NEW g \in alive,
             copy_assign(h, g) \/ move_assign(h, g) \/ swap(h, g) \/ extend(h, g)
      PROVE  Seqs!Next
  BY <1>8, CopyAssignStep, MoveAssignStep, SwapStep, ExtendStep
<1> QED
  BY <1>1, <1>2, <1>3, <1>4, <1>5, <1>6, <1>7, <1>8 DEF Next

\* Vectors are the sequences of NxSeqs: no call changes another vector, a call
\* fails only for want of room and then changes nothing, and room for one more
\* element at least doubles, unless a vector may fill more than half the range.
THEOREM ImplementsSeqsHolds == ASSUME NoWrap PROVE Spec => ImplementsSeqs
<1>1. Init => Seqs!Init
  BY DEF Init, Seqs!Init, seqs, room, alive
<1>2. IndInv /\ [Next]_vars => [Seqs!Next]_Seqs!seqVars
  <2>1. ASSUME IndInv, Next PROVE Seqs!Next
    BY <2>1, NextStep
  <2>2. ASSUME UNCHANGED vars PROVE UNCHANGED Seqs!seqVars
    BY <2>2 DEF vars, Seqs!seqVars, seqs, room, alive, cells
  <2> QED
    BY <2>1, <2>2
<1> QED
  BY <1>1, <1>2, IndInvHolds, PTL DEF Spec, ImplementsSeqs, Seqs!Spec
=============================================================================
