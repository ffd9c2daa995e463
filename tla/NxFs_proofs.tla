----------------------------- MODULE NxFs_proofs -----------------------------
(***************************************************************************)
(* Proofs about NxFs, over the strings of NxStr, for any numbers of        *)
(* strings, allocators and buffers, buffers of any size, any file and any  *)
(* contents other processes put into it.                                   *)
(*                                                                         *)
(* 1. The strings: every buffer has one owner, and every string its        *)
(* terminator, with no indeterminate character before it.  Nearly every    *)
(* call replaces one string, and perhaps its buffer.  Fits says when a     *)
(* string v and a heap K may take the place of string h and of the heap;   *)
(* OneString that the invariant then holds again.                          *)
(*                                                                         *)
(* 2. The files: that invariant survives a call of fs.c cut at every step, *)
(* each call closes what it opened, a read that succeeds delivers what the *)
(* file has held, and a write leaves a beginning of its text.  FsIndInv    *)
(* adds to IndInv what holds of the call under way at each step.           *)
(*                                                                         *)
(* 3. Both implement NxFiles: strings are sequences of characters, each    *)
(* call does to them what str.h says of it, and a read makes its string of *)
(* what the file has held since it began.                                  *)
(***************************************************************************)
EXTENDS NxFs, SequenceTheorems, WellFoundedInduction, TLAPS

Owned(h) == IF h \in alive THEN str[h].data ELSE Null

\* The positions of the cells of v.
Room(v) == IF v.data = Null THEN {} ELSE 0 .. v.cap

Fits(v, K, h) ==
  /\ v \in Struct /\ v.len <= v.cap /\ (v.cap = 0 <=> v.data = Null)
  /\ K = [b \in DOMAIN K |-> K[b]]
  /\ DOMAIN K = ((DOMAIN heap \ {Owned(h)}) \union {v.data}) \ {Null}
  /\ v.data \notin DOMAIN heap \ {Owned(h)}
  /\ \A b \in DOMAIN K : b # v.data => K[b] = heap[b]
  /\ v.data # Null => K[v.data] \in Buffer(0 .. v.cap) /\ K[v.data].al = v.al

\* The first n cells of c are not indeterminate.
Known(c, n) == \A i \in 0 .. n - 1 : c[i] # Uninit

\* String v, in the heap K, has its terminator and no indeterminate character.
Ended(v, K) ==
  v.data # Null => CellsIn(K, v)[v.len] = Zero /\ Known(CellsIn(K, v), v.len)

\* Its characters are those of c.
Holds(v, K, c) == \A i \in 0 .. v.len - 1 : CellsIn(K, v)[i] = c[i]

\* A string that keeps to the invariant.
LEMMA CellsFacts ==
  ASSUME IndInv, NEW h \in alive
  PROVE  /\ cells(h) \in [Room(str[h]) -> Cell]
         /\ str[h] \in Struct /\ str[h].len \in 0 .. str[h].cap
         /\ str[h].data = Null => str[h].cap = 0 /\ str[h].len = 0
         /\ Fits(str[h], heap, h) /\ Ended(str[h], heap) /\ Known(cells(h), str[h].len)
<1>1. /\ str[h] \in Struct /\ str[h].len <= str[h].cap
      /\ str[h].cap = 0 <=> str[h].data = Null
  BY DEF IndInv, TypeOK, alive
<1>2. str[h].len \in 0 .. str[h].cap /\ str[h].cap \in Nat
  BY <1>1 DEF Struct
<1>3. str[h].data # Null => /\ str[h].data \in DOMAIN heap
                            /\ heap[str[h].data] \in Buffer(0 .. str[h].cap)
                            /\ heap[str[h].data].al = str[h].al
  BY DEF IndInv, TypeOK, OneOwner
<1>4. cells(h) \in [Room(str[h]) -> Cell]
  <2>1. CASE str[h].data = Null
    BY <2>1 DEF cells, CellsIn, Room
  <2>2. CASE str[h].data # Null
    BY <2>2, <1>3 DEF cells, CellsIn, Buffer, Room
  <2> QED
    BY <2>1, <2>2
<1>5. Null \notin DOMAIN heap /\ heap = [b \in DOMAIN heap |-> heap[b]]
  BY NullAssumption DEF IndInv, TypeOK
<1>6. str[h].data \notin DOMAIN heap \ {Owned(h)}
  BY <1>3 DEF Owned
<1>7. DOMAIN heap = ((DOMAIN heap \ {Owned(h)}) \union {str[h].data}) \ {Null}
  BY <1>3, <1>5 DEF Owned
<1>8. Fits(str[h], heap, h)
  BY <1>1, <1>3, <1>5, <1>6, <1>7 DEF Fits
<1>9. Ended(str[h], heap)
  BY DEF IndInv, Terminated, Ended, Known, cells
<1>10. Known(cells(h), str[h].len)
  <2>1. CASE str[h].data = Null
    BY <2>1, <1>1, <1>2 DEF Known
  <2>2. CASE str[h].data # Null
    BY <2>2, <1>9 DEF Ended, cells
  <2> QED
    BY <2>1, <2>2
<1> QED
  BY <1>1, <1>2, <1>4, <1>8, <1>9, <1>10

-----------------------------------------------------------------------------
(* One string is replaced.                                                 *)

LEMMA OneString ==
  ASSUME IndInv, NEW h \in Str, NEW v, NEW K, Fits(v, K, h), Ended(v, K),
         str' = Has(str, h, v), heap' = K, ret' \in {"ok", "oom", "io"}
  PROVE  IndInv'
<1>1. alive' = alive \union {h} /\ str'[h] = v /\ \A g \in alive \ {h} : str'[g] = str[g]
  BY DEF alive, Has
<1>2. \A g \in alive \ {h} : str[g].data # Null =>
        /\ str[g].data \in DOMAIN heap \ {Owned(h)} /\ str[g].data # v.data
        /\ heap'[str[g].data] = heap[str[g].data] /\ str[g].data \in DOMAIN heap'
  <2> SUFFICES ASSUME NEW g \in alive \ {h}, str[g].data # Null
               PROVE  /\ str[g].data \in DOMAIN heap \ {Owned(h)} /\ str[g].data # v.data
                      /\ heap'[str[g].data] = heap[str[g].data] /\ str[g].data \in DOMAIN heap'
    OBVIOUS
  <2>1. str[g].data \in DOMAIN heap
    BY DEF IndInv, OneOwner
  <2>2. str[g].data # Owned(h)
    BY DEF IndInv, OneOwner, Owned
  <2> QED
    BY <2>1, <2>2 DEF Fits
<1>3. TypeOK'
  <2>1. alive' \subseteq Str
    BY <1>1 DEF IndInv, TypeOK
  <2>2. str' \in [alive' -> Struct]
    BY <1>1 DEF IndInv, TypeOK, Fits, Has, alive
  <2>3. \A g \in alive' : str'[g].len <= str'[g].cap /\ (str'[g].cap = 0 <=> str'[g].data = Null)
    BY <1>1 DEF IndInv, TypeOK, Fits
  <2>4. DOMAIN heap' \subseteq Buf /\ heap' = [b \in DOMAIN heap' |-> heap'[b]]
    BY DEF IndInv, TypeOK, Fits, Struct
  <2>5. ASSUME NEW b \in DOMAIN heap' PROVE heap'[b] \in Buffer(DOMAIN heap'[b].cells)
    <3>1. CASE b = v.data
      <4>1. heap'[b] \in Buffer(0 .. v.cap)
        BY <3>1, <2>5 DEF Fits
      <4> QED
        BY <4>1 DEF Buffer
    <3>2. CASE b # v.data
      BY <3>2 DEF IndInv, TypeOK, Fits
    <3> QED
      BY <3>1, <3>2
  <2> QED
    BY <2>1, <2>2, <2>3, <2>4, <2>5 DEF TypeOK
<1>4. OneOwner'
  <2>1. ASSUME NEW g \in alive', str'[g].data # Null
        PROVE  /\ str'[g].data \in DOMAIN heap' /\ heap'[str'[g].data].al = str'[g].al
               /\ DOMAIN heap'[str'[g].data].cells = 0 .. str'[g].cap
    <3>1. CASE g = h
      BY <3>1, <2>1, <1>1 DEF Fits, Buffer
    <3>2. CASE g # h
      BY <3>2, <2>1, <1>1, <1>2 DEF IndInv, OneOwner
    <3> QED
      BY <3>1, <3>2
  <2>2. ASSUME NEW g \in alive', str'[g].data # Null,
               NEW f \in alive', str'[f].data = str'[g].data
        PROVE  f = g
    BY <2>2, <1>1, <1>2 DEF IndInv, OneOwner
  <2>3. ASSUME NEW b \in DOMAIN heap' PROVE \E g \in alive' : str'[g].data = b
    <3>1. CASE b = v.data
      BY <3>1, <1>1
    <3>2. CASE b # v.data
      <4>1. b \in DOMAIN heap /\ b # Owned(h)
        BY <3>2, <2>3 DEF Fits
      <4>2. PICK g \in alive : str[g].data = b
        BY <4>1 DEF IndInv, OneOwner
      <4> QED
        BY <4>1, <4>2, <1>1 DEF Owned
    <3> QED
      BY <3>1, <3>2
  <2> QED
    BY <2>1, <2>2, <2>3 DEF OneOwner
<1>5. Terminated'
  <2> SUFFICES ASSUME NEW g \in alive' PROVE Ended(str'[g], heap')
    BY DEF Terminated, Ended, Known, cells
  <2>1. CASE g = h
    BY <2>1, <1>1
  <2>2. CASE g # h
    <3>1. g \in alive \ {h} /\ str'[g] = str[g]
      BY <2>2, <1>1
    <3>2. CellsIn(heap', str'[g]) = CellsIn(heap, str[g])
      BY <3>1, <1>2 DEF CellsIn
    <3> QED
      BY <3>1, <3>2, CellsFacts DEF Ended
  <2> QED
    BY <2>1, <2>2
<1> QED
  BY <1>3, <1>4, <1>5 DEF IndInv

\* The calls that keep the struct write str with EXCEPT.
LEMMA HasExcept ==
  ASSUME IndInv, NEW h \in alive, NEW v
  PROVE  [str EXCEPT ![h] = v] = Has(str, h, v)
BY DEF IndInv, TypeOK, alive, Has

-----------------------------------------------------------------------------
(* What the allocator and the capacity operators return.                   *)

\* o is a new buffer beside those of H: n cells, of which the first are those
\* of c.
NewBuffer(o, H, al, n, c) ==
  /\ o.data \in Buf \ DOMAIN H /\ o.data # Null
  /\ o.heap = [b \in DOMAIN o.heap |-> o.heap[b]]
  /\ DOMAIN o.heap = DOMAIN H \union {o.data}
  /\ \A b \in DOMAIN H : o.heap[b] = H[b]
  /\ o.heap[o.data] \in Buffer(0 .. n - 1) /\ o.heap[o.data].al = al
  /\ \A i \in DOMAIN c \cap (0 .. n - 1) : o.heap[o.data].cells[i] = c[i]

LEMMA AllocFacts ==
  ASSUME NEW H, NEW al \in Al, NEW n \in Nat \ {0}, NEW c,
         \A i \in DOMAIN c : c[i] \in Cell,
         NEW o \in nx_al_alloc(H, al, n, c)
  PROVE  NewBuffer(o, H, al, n, c)
<1> DEFINE k == [i \in 0 .. n - 1 |-> IF i \in DOMAIN c THEN c[i] ELSE Uninit]
<1>1. PICK b \in Buf \ DOMAIN H : o = [heap |-> Has(H, b, [al |-> al, cells |-> k]), data |-> b]
  BY DEF nx_al_alloc
<1>2. o.data = b /\ o.heap = Has(H, b, [al |-> al, cells |-> k])
  BY <1>1
<1>3. k \in [0 .. n - 1 -> Cell]
  BY DEF Cell
<1>4. o.heap[b] = [al |-> al, cells |-> k]
  BY <1>2 DEF Has
<1>5. /\ DOMAIN o.heap = DOMAIN H \union {b} /\ \A x \in DOMAIN H : o.heap[x] = H[x]
      /\ o.heap = [x \in DOMAIN o.heap |-> o.heap[x]]
  BY <1>2 DEF Has
<1>6. o.heap[b] \in Buffer(0 .. n - 1) /\ o.heap[b].al = al /\ o.heap[b].cells = k
  BY <1>3, <1>4 DEF Buffer
<1> HIDE DEF k
<1>7. \A i \in DOMAIN c \cap (0 .. n - 1) : k[i] = c[i]
  BY DEF k
<1> QED
  BY <1>2, <1>5, <1>6, <1>7, NullAssumption DEF NewBuffer

\* The buffer of h made one with n cells, moved or not; the first are kept.
LEMMA ReallocFacts ==
  ASSUME IndInv, NEW h \in alive, str[h].data # Null, NEW n \in Nat, str[h].cap < n,
         NEW o \in nx_al_realloc(str[h].al, str[h].data, n + 1),
         NEW v, v = set_fields(o.data, str[h].len, n, str[h].al)
  PROVE  Fits(v, o.heap, h) /\ Ended(v, o.heap) /\ Holds(v, o.heap, cells(h))
<1> DEFINE old == heap[str[h].data].cells
<1>1. /\ cells(h) \in [Room(str[h]) -> Cell] /\ Known(cells(h), str[h].len)
      /\ str[h] \in Struct /\ str[h].len \in 0 .. str[h].cap
      /\ Fits(str[h], heap, h) /\ Ended(str[h], heap)
  BY CellsFacts
<1>2. old = cells(h) /\ str[h].al \in Al /\ Owned(h) = str[h].data
  BY <1>1 DEF cells, CellsIn, Struct, Owned
<1>3. /\ old \in [0 .. str[h].cap -> Cell] /\ \A i \in DOMAIN old : old[i] \in Cell
      /\ old[str[h].len] = Zero /\ Known(old, str[h].len)
  BY <1>1, <1>2 DEF Room, Ended, CellsIn
<1> HIDE DEF old
<1>4. n + 1 \in Nat \ {0} /\ str[h].cap \in Nat /\ (n + 1) - 1 = n
  BY <1>1 DEF Struct
<1>5. /\ o.data \in Buf /\ o.data \notin DOMAIN heap \ {Owned(h)} /\ o.data # Null
      /\ o.heap = [b \in DOMAIN o.heap |-> o.heap[b]]
      /\ DOMAIN o.heap = (DOMAIN heap \ {Owned(h)}) \union {o.data}
      /\ \A b \in DOMAIN o.heap : b # o.data => o.heap[b] = heap[b]
      /\ o.heap[o.data] \in Buffer(0 .. n) /\ o.heap[o.data].al = str[h].al
      /\ \A i \in DOMAIN old \cap (0 .. n) : o.heap[o.data].cells[i] = old[i]
  <2>1. CASE o \in nx_al_alloc(Lacks(heap, str[h].data), str[h].al, n + 1, old)
    <3>1. NewBuffer(o, Lacks(heap, str[h].data), str[h].al, n + 1, old)
      BY <2>1, <1>2, <1>3, <1>4, AllocFacts
    <3>2. /\ DOMAIN Lacks(heap, str[h].data) = DOMAIN heap \ {str[h].data}
          /\ \A b \in DOMAIN heap \ {str[h].data} : Lacks(heap, str[h].data)[b] = heap[b]
      BY DEF Lacks
    <3> QED
      BY <3>1, <3>2, <1>2, <1>4 DEF NewBuffer
  <2>2. CASE \E q \in nx_al_alloc(heap, str[h].al, n + 1, old) :
               o = [heap |-> nx_al_dealloc(q.heap, str[h].data), data |-> q.data]
    <3>1. PICK q \in nx_al_alloc(heap, str[h].al, n + 1, old) :
                 o = [heap |-> nx_al_dealloc(q.heap, str[h].data), data |-> q.data]
      BY <2>2
    <3>2. NewBuffer(q, heap, str[h].al, n + 1, old)
      BY <1>2, <1>3, <1>4, AllocFacts
    <3>3. o.data = q.data /\ o.heap = Lacks(q.heap, str[h].data)
      BY <3>1 DEF nx_al_dealloc
    <3>4. str[h].data \in DOMAIN heap /\ str[h].data # q.data
      BY <3>2, <1>1 DEF Fits, NewBuffer
    <3>5. /\ DOMAIN o.heap = DOMAIN q.heap \ {str[h].data}
          /\ \A b \in DOMAIN o.heap : o.heap[b] = q.heap[b]
          /\ o.heap = [b \in DOMAIN o.heap |-> o.heap[b]]
      BY <3>3 DEF Lacks
    <3> QED
      BY <3>2, <3>3, <3>4, <3>5, <1>2, <1>4 DEF NewBuffer
  <2> QED
    BY <2>1, <2>2 DEF nx_al_realloc, old
<1>6. v \in Struct /\ v.data = o.data /\ v.len = str[h].len /\ v.cap = n /\ v.al = str[h].al
  BY <1>1, <1>2, <1>5 DEF set_fields, Struct
<1>7. Fits(v, o.heap, h)
  <2>1. Null \notin DOMAIN heap
    BY <1>1 DEF Fits
  <2>2. v.len <= v.cap /\ v.cap # 0
    BY <1>1, <1>4, <1>6
  <2> QED
    BY <1>5, <1>6, <2>1, <2>2 DEF Fits
<1>8. Ended(v, o.heap) /\ Holds(v, o.heap, cells(h))
  <2>1. \A i \in 0 .. str[h].len : i \in DOMAIN old \cap (0 .. n)
    BY <1>1, <1>3, <1>4
  <2>2. \A i \in 0 .. str[h].len : o.heap[o.data].cells[i] = old[i]
    BY <2>1, <1>5
  <2>3. str[h].len \in 0 .. str[h].len /\ \A i \in 0 .. str[h].len - 1 : i \in 0 .. str[h].len
    BY <1>1, <1>4
  <2> QED
    BY <1>2, <1>3, <1>5, <1>6, <2>2, <2>3 DEF Ended, CellsIn, Known, Holds
<1> QED
  BY <1>7, <1>8

\* A new buffer for a string that had none: only '\0', at the front.
LEMMA FirstBufferFacts ==
  ASSUME IndInv, NEW h \in alive, str[h].data = Null, NEW n \in Nat \ {0},
         NEW o \in nx_al_alloc(heap, str[h].al, n + 1, Zeros(1)),
         NEW v, v = set_fields(o.data, str[h].len, n, str[h].al)
  PROVE  Fits(v, o.heap, h) /\ Ended(v, o.heap) /\ Holds(v, o.heap, cells(h))
<1>1. /\ str[h] \in Struct /\ str[h].len = 0 /\ Owned(h) = Null /\ str[h].al \in Al
  BY CellsFacts DEF Owned, Struct
<1>2. n + 1 \in Nat \ {0} /\ (n + 1) - 1 = n /\ 0 \in DOMAIN Zeros(1) \cap (0 .. n)
  BY DEF Zeros
<1>3. Zeros(1)[0] = Zero /\ \A i \in DOMAIN Zeros(1) : Zeros(1)[i] \in Cell
  BY DEF Zeros, Cell
<1>4. NewBuffer(o, heap, str[h].al, n + 1, Zeros(1))
  BY <1>1, <1>2, <1>3, AllocFacts
<1>5. v \in Struct /\ v.data = o.data /\ v.len = 0 /\ v.cap = n /\ v.al = str[h].al
  BY <1>1, <1>4 DEF set_fields, Struct, NewBuffer
<1>6. Null \notin DOMAIN heap
  BY NullAssumption DEF IndInv, TypeOK
<1>7. Fits(v, o.heap, h)
  BY <1>1, <1>2, <1>4, <1>5, <1>6 DEF Fits, NewBuffer
<1>8. o.heap[o.data].cells[0] = Zero
  BY <1>2, <1>3, <1>4 DEF NewBuffer
<1>9. Ended(v, o.heap) /\ Holds(v, o.heap, cells(h))
  BY <1>4, <1>5, <1>8 DEF Ended, CellsIn, Known, NewBuffer, Holds
<1> QED
  BY <1>7, <1>9

LEMMA FitsCells ==
  ASSUME NEW v, NEW K, NEW h, Fits(v, K, h), Ended(v, K)
  PROVE  CellsIn(K, v) \in [Room(v) -> Cell] /\ Known(CellsIn(K, v), v.len)
<1>1. CASE v.data = Null
  <2>1. v.len = 0
    BY <1>1 DEF Fits, Struct
  <2> QED
    BY <1>1, <2>1 DEF CellsIn, Room, Known
<1>2. CASE v.data # Null
  BY <1>2 DEF Fits, Ended, CellsIn, Buffer, Room
<1> QED
  BY <1>1, <1>2

\* r is string h as it was, or with a larger buffer, and has room for n.
HasRoom(r, h, n) ==
  /\ Fits(r.v, r.heap, h) /\ Ended(r.v, r.heap) /\ r.v.len = str[h].len /\ n <= r.v.cap
  /\ CellsIn(r.heap, r.v) \in [Room(r.v) -> Cell] /\ Known(CellsIn(r.heap, r.v), str[h].len)
  /\ Holds(r.v, r.heap, cells(h)) /\ (n <= str[h].cap => r.v.cap = str[h].cap)

LEMMA ReservedFacts ==
  ASSUME IndInv, NEW h \in alive, NEW n \in Nat, NEW r \in Reserved(h, n)
  PROVE  HasRoom(r, h, n) /\ (n > str[h].cap => r.v.cap = n)
<1>1. /\ str[h] \in Struct /\ str[h].len \in 0 .. str[h].cap /\ Fits(str[h], heap, h)
      /\ Ended(str[h], heap)
  BY CellsFacts
<1>2. CASE n <= str[h].cap
  <2>1. r.v = str[h] /\ r.heap = heap
    BY <1>2 DEF Reserved
  <2>2. ~(n > str[h].cap) /\ Holds(r.v, r.heap, cells(h))
    BY <1>1, <1>2, <2>1 DEF Holds, cells, Struct
  <2> QED
    BY <1>1, <1>2, <2>1, <2>2, FitsCells DEF HasRoom
<1>3. CASE ~(n <= str[h].cap)
  <2>1. n \in Nat \ {0} /\ str[h].cap < n
    BY <1>1, <1>3 DEF Struct
  <2>2. ASSUME NEW o, r = [heap |-> o.heap, v |-> [str[h] EXCEPT !.data = o.data, !.cap = n]]
        PROVE  r.heap = o.heap /\ r.v = set_fields(o.data, str[h].len, n, str[h].al)
    BY <2>2, <1>1 DEF set_fields, Struct
  <2>3. ASSUME NEW o, r.heap = o.heap, r.v = set_fields(o.data, str[h].len, n, str[h].al),
               Fits(r.v, o.heap, h), Ended(r.v, o.heap), Holds(r.v, o.heap, cells(h))
        PROVE  HasRoom(r, h, n) /\ r.v.cap = n
    <3>1. r.v.len = str[h].len /\ r.v.cap = n /\ n <= r.v.cap
      BY <2>3, <2>1 DEF set_fields
    <3> QED
      BY <1>3, <2>3, <3>1, FitsCells DEF HasRoom
  <2>4. CASE str[h].data = Null
    <3>1. PICK o \in nx_al_alloc(heap, str[h].al, n + 1, Zeros(1)) :
            r = [heap |-> o.heap, v |-> [str[h] EXCEPT !.data = o.data, !.cap = n]]
      BY <1>3, <2>4 DEF Reserved
    <3> QED
      BY <3>1, <2>1, <2>2, <2>3, <2>4, FirstBufferFacts
  <2>5. CASE str[h].data # Null
    <3>1. PICK o \in nx_al_realloc(str[h].al, str[h].data, n + 1) :
            r = [heap |-> o.heap, v |-> [str[h] EXCEPT !.data = o.data, !.cap = n]]
      BY <1>3, <2>5 DEF Reserved
    <3> QED
      BY <3>1, <2>1, <2>2, <2>3, <2>5, ReallocFacts
  <2> QED
    BY <2>4, <2>5
<1> QED
  BY <1>2, <1>3

LEMMA EnsureCapFacts ==
  ASSUME IndInv, NEW h \in alive, NEW n \in Nat, NEW r \in ensure_cap(h, n)
  PROVE  HasRoom(r, h, n)
<1>1. str[h].cap \in Nat
  BY CellsFacts DEF Struct
<1>2. CASE n <= str[h].cap
  BY <1>2, ReservedFacts DEF ensure_cap, Reserved
<1>3. CASE ~(n <= str[h].cap)
  <2>1. PICK c \in NewCaps(str[h].cap, n) : r \in Reserved(h, c)
    BY <1>3 DEF ensure_cap
  <2>2. c \in Nat /\ n <= c
    BY <2>1, StrSizeAssumption DEF NewCaps
  <2>3. HasRoom(r, h, c) /\ r.v.cap \in Nat
    BY <2>1, <2>2, ReservedFacts DEF HasRoom, Fits, Struct
  <2> QED
    BY <1>3, <2>2, <2>3 DEF HasRoom
<1> QED
  BY <1>2, <1>3

-----------------------------------------------------------------------------
(* The ways a call ends.                                                   *)

LEMMA SameInv ==
  ASSUME IndInv, UNCHANGED <<str, heap>>, ret' \in {"ok", "oom", "io"}
  PROVE  IndInv'
BY DEF IndInv, TypeOK, OneOwner, Terminated, alive, cells

LEMMA FailsInv == ASSUME IndInv, Fails PROVE IndInv'
BY SameInv DEF Fails

\* The characters c up to n are known; behind them the terminator is written.
LEMMA StoreFits ==
  ASSUME IndInv, NEW h \in alive, NEW r, Fits(r.v, r.heap, h),
         NEW n \in 0 .. r.v.cap, NEW c \in [Room(r.v) -> Cell], Known(c, n),
         Store(h, r, c, n)
  PROVE  \E w : /\ str' = Has(str, h, w) /\ Fits(w, heap', h) /\ Ended(w, heap') /\ Holds(w, heap', c)
                /\ w.len = n /\ w.cap = r.v.cap
<1> DEFINE v == [r.v EXCEPT !.len = n]
           d == [c EXCEPT ![n] = Zero]
           K == IF r.v.data = Null THEN r.heap ELSE [r.heap EXCEPT ![r.v.data].cells = d]
<1>1. /\ v \in Struct /\ v.data = r.v.data /\ v.len = n /\ v.cap = r.v.cap /\ v.al = r.v.al
      /\ n <= v.cap /\ n \in Nat
  BY DEF Fits, Struct
<1>2. str' = Has(str, h, v) /\ heap' = K /\ ret' \in {"ok", "oom", "io"} /\ h \in Str
  BY HasExcept DEF Store, IndInv, TypeOK
<1>3. Fits(v, K, h) /\ Ended(v, K) /\ Holds(v, K, c)
  <2>1. CASE r.v.data = Null
    BY <2>1, <1>1, 0 .. 0 - 1 = {} DEF Fits, Ended, Holds
  <2>2. CASE r.v.data # Null
    <3>1. /\ r.v.data \in DOMAIN r.heap
          /\ r.heap[r.v.data] \in Buffer(0 .. r.v.cap) /\ r.heap[r.v.data].al = r.v.al
      BY <2>2 DEF Fits
    <3>2. /\ d \in [0 .. r.v.cap -> Cell] /\ d[n] = Zero
          /\ \A i \in 0 .. n - 1 : d[i] = c[i]
      BY <2>2 DEF Room, Cell
    <3> HIDE DEF d
    <3>3. /\ DOMAIN K = DOMAIN r.heap /\ K = [b \in DOMAIN K |-> K[b]]
          /\ K[r.v.data] = [r.heap[r.v.data] EXCEPT !.cells = d]
          /\ \A b \in DOMAIN K : b # r.v.data => K[b] = r.heap[b]
      BY <2>2, <3>1 DEF Fits
    <3>4. /\ K[r.v.data] \in Buffer(0 .. r.v.cap) /\ K[r.v.data].al = r.v.al
          /\ K[r.v.data].cells = d
      BY <3>1, <3>2, <3>3 DEF Buffer
    <3> HIDE DEF K, v
    <3>5. Fits(v, K, h)
      BY <1>1, <3>3, <3>4, <2>2 DEF Fits
    <3>6. Ended(v, K) /\ Holds(v, K, c)
      BY <1>1, <3>2, <3>4, <2>2 DEF Ended, CellsIn, Known, Holds
    <3> QED
      BY <3>5, <3>6
  <2> QED
    BY <2>1, <2>2
<1> HIDE DEF v, K
<1> QED
  BY <1>1, <1>2, <1>3

LEMMA StoreInv ==
  ASSUME IndInv, NEW h \in alive, NEW r, Fits(r.v, r.heap, h),
         NEW n \in 0 .. r.v.cap, NEW c \in [Room(r.v) -> Cell], Known(c, n),
         Store(h, r, c, n)
  PROVE  IndInv'
<1>1. PICK w : str' = Has(str, h, w) /\ Fits(w, heap', h) /\ Ended(w, heap')
  BY StoreFits
<1>2. h \in Str /\ ret' \in {"ok", "oom", "io"}
  BY DEF Store, IndInv, TypeOK
<1> QED
  BY <1>1, <1>2, OneString

LEMMA ShortenedInv ==
  ASSUME IndInv, NEW h \in alive, NEW n \in 0 .. str[h].len, Shortened(h, n)
  PROVE  IndInv'
<1> DEFINE r == Here(h)
<1>1. r.v = str[h] /\ r.heap = heap
  BY DEF Here
<1>2. /\ cells(h) \in [Room(str[h]) -> Cell] /\ Fits(str[h], heap, h)
      /\ n \in 0 .. str[h].cap /\ Known(cells(h), n)
  <2>1. /\ cells(h) \in [Room(str[h]) -> Cell] /\ Fits(str[h], heap, h)
        /\ str[h].len \in 0 .. str[h].cap /\ Known(cells(h), str[h].len)
    BY CellsFacts
  <2>2. str[h].cap \in Nat
    BY <2>1 DEF Fits, Struct
  <2> QED
    BY <2>1, <2>2 DEF Known
<1>3. Store(h, r, cells(h), n)
  BY DEF Shortened
<1> HIDE DEF r
<1> QED
  BY <1>1, <1>2, <1>3, StoreInv

\* A buffer obtained for h in place of the one it had, if any, holding the
\* characters and the terminator of c.
LEMMA ReplacedFits ==
  ASSUME IndInv, NEW h \in Str, NEW al \in Al, NEW cap \in Nat \ {0}, NEW len \in 0 .. cap,
         NEW c, \A i \in DOMAIN c : c[i] \in Cell,
         0 .. len \subseteq DOMAIN c, c[len] = Zero, Known(c, len),
         NEW o \in nx_al_alloc(heap, al, cap + 1, c),
         NEW v, v = set_fields(o.data, len, cap, al),
         NEW K, K = nx_al_dealloc(o.heap, Owned(h))
  PROVE  Fits(v, K, h) /\ Ended(v, K) /\ Holds(v, K, c)
<1>1. cap + 1 \in Nat \ {0} /\ (cap + 1) - 1 = cap
  OBVIOUS
<1>2. NewBuffer(o, heap, al, cap + 1, c)
  BY <1>1, AllocFacts
<1>3. v \in Struct /\ v.data = o.data /\ v.len = len /\ v.cap = cap /\ v.al = al
  BY <1>2 DEF set_fields, Struct, NewBuffer
<1>4. Owned(h) # Null => Owned(h) \in DOMAIN heap
  BY DEF Owned, IndInv, OneOwner
<1>5. Null \notin DOMAIN heap
  BY NullAssumption DEF IndInv, TypeOK
<1>6. /\ DOMAIN K = DOMAIN o.heap \ {Owned(h)} /\ K = [b \in DOMAIN K |-> K[b]]
      /\ \A b \in DOMAIN K : K[b] = o.heap[b]
  <2>1. CASE Owned(h) = Null
    BY <2>1, <1>2, <1>5 DEF nx_al_dealloc, NewBuffer
  <2>2. CASE Owned(h) # Null
    <3>1. K = Lacks(o.heap, Owned(h))
      BY <2>2 DEF nx_al_dealloc
    <3> QED
      BY <3>1 DEF Lacks
  <2> QED
    BY <2>1, <2>2
<1>7. v.data \in DOMAIN K /\ K[v.data] = o.heap[o.data]
  BY <1>2, <1>3, <1>4, <1>6 DEF NewBuffer
<1>8. Fits(v, K, h)
  BY <1>1, <1>2, <1>3, <1>4, <1>5, <1>6, <1>7 DEF Fits, NewBuffer
<1>9. Ended(v, K) /\ Holds(v, K, c)
  <2>1. \A i \in 0 .. len : i \in DOMAIN c \cap (0 .. (cap + 1) - 1)
    BY <1>1
  <2>2. \A i \in 0 .. len : o.heap[o.data].cells[i] = c[i]
    BY <2>1, <1>2 DEF NewBuffer
  <2>3. len \in 0 .. len /\ \A i \in 0 .. len - 1 : i \in 0 .. len
    OBVIOUS
  <2> QED
    BY <1>2, <1>3, <1>7, <2>2, <2>3 DEF Ended, CellsIn, Known, NewBuffer, Holds
<1> QED
  BY <1>8, <1>9

\* How the string h appears.
AppearsAs(h, len, cap, c) ==
  \E w : /\ str' = Has(str, h, w) /\ Fits(w, heap', h) /\ Ended(w, heap') /\ Holds(w, heap', c)
         /\ w.len = len /\ w.cap = cap

LEMMA CreatedFits ==
  ASSUME IndInv, NEW h \in Str \ alive, NEW al \in Al, NEW cap \in Nat, NEW len \in 0 .. cap,
         NEW c, \A i \in DOMAIN c : c[i] \in Cell,
         0 .. len \subseteq DOMAIN c, c[len] = Zero, Known(c, len),
         Created(h, len, cap, al, c)
  PROVE  AppearsAs(h, len, cap, c) /\ ret' = "ok"
<1>1. Owned(h) = Null /\ Null \notin DOMAIN heap /\ heap = [b \in DOMAIN heap |-> heap[b]]
  BY NullAssumption DEF Owned, IndInv, TypeOK
<1>2. CASE cap = 0
  <2> DEFINE v == set_fields(Null, 0, 0, al)
  <2>1. v \in Struct /\ v.data = Null /\ v.len = 0 /\ v.cap = 0
    BY DEF set_fields, Struct
  <2>2. str' = Has(str, h, v) /\ heap' = heap /\ ret' \in {"ok", "oom", "io"}
    BY <1>2 DEF Created
  <2> HIDE DEF v
  <2>3. Fits(v, heap, h)
    <3>1. DOMAIN heap = ((DOMAIN heap \ {Null}) \union {Null}) \ {Null}
      BY <1>1
    <3> QED
      BY <2>1, <1>1, <3>1 DEF Fits
  <2>4. Ended(v, heap) /\ Holds(v, heap, c)
    BY <2>1, 0 .. 0 - 1 = {} DEF Ended, Holds
  <2>5. v.len = len /\ v.cap = cap
    BY <1>2, <2>1
  <2>6. ret' = "ok"
    BY <1>2 DEF Created
  <2> QED
    BY <2>2, <2>3, <2>4, <2>5, <2>6 DEF AppearsAs
<1>3. CASE cap # 0
  <2>1. PICK o \in nx_al_alloc(heap, al, cap + 1, c) :
          /\ heap' = o.heap /\ ret' = "ok"
          /\ str' = Has(str, h, set_fields(o.data, len, cap, al))
    BY <1>3 DEF Created
  <2>2. o.heap = nx_al_dealloc(o.heap, Owned(h)) /\ cap \in Nat \ {0}
    BY <1>1, <1>3 DEF nx_al_dealloc
  <2>3. PICK w : w = set_fields(o.data, len, cap, al)
    OBVIOUS
  <2>4. Fits(w, o.heap, h) /\ Ended(w, o.heap) /\ Holds(w, o.heap, c)
    BY <2>2, <2>3, ReplacedFits
  <2>5. w.len = len /\ w.cap = cap
    BY <2>3 DEF set_fields
  <2> QED
    BY <2>1, <2>3, <2>4, <2>5 DEF AppearsAs
<1> QED
  BY <1>2, <1>3

LEMMA CreatedInv ==
  ASSUME IndInv, NEW h \in Str \ alive, NEW al \in Al, NEW cap \in Nat, NEW len \in 0 .. cap,
         NEW c, \A i \in DOMAIN c : c[i] \in Cell,
         0 .. len \subseteq DOMAIN c, c[len] = Zero, Known(c, len),
         Created(h, len, cap, al, c)
  PROVE  IndInv'
<1>1. AppearsAs(h, len, cap, c) /\ ret' = "ok"
  BY CreatedFits
<1> QED
  BY <1>1, OneString DEF AppearsAs

-----------------------------------------------------------------------------
(* What the calls write.                                                   *)

LEMMA MemcpyFacts ==
  ASSUME NEW I, NEW n \in Nat, NEW k \in Nat, NEW c \in [I -> Cell], I \subseteq Int, Known(c, n),
         NEW s, \A i \in 0 .. k - 1 : s[i] \in Cell, Known(s, k), 0 .. (n + k) - 1 \subseteq I
  PROVE  memcpy(c, n, s, k) \in [I -> Cell] /\ Known(memcpy(c, n, s, k), n + k)
<1> DEFINE d == memcpy(c, n, s, k)
<1>1. ASSUME NEW i \in I, n <= i, i < n + k PROVE i - n \in 0 .. k - 1
  <2>1. i \in Int
    OBVIOUS
  <2> QED
    BY <1>1, <2>1
<1>2. d \in [I -> Cell]
  BY <1>1 DEF memcpy
<1>3. ASSUME NEW i \in 0 .. (n + k) - 1 PROVE d[i] # Uninit
  <2>1. i \in I /\ d[i] = IF n <= i THEN s[i - n] ELSE c[i]
    BY DEF memcpy
  <2>2. n <= i => i - n \in 0 .. k - 1
    OBVIOUS
  <2>3. ~(n <= i) => i \in 0 .. n - 1
    OBVIOUS
  <2> QED
    BY <2>1, <2>2, <2>3 DEF Known
<1> QED
  BY <1>2, <1>3 DEF Known

LEMMA ZerosFacts ==
  ASSUME NEW n \in Nat
  PROVE  /\ DOMAIN Zeros(n) = 0 .. n - 1 /\ \A i \in 0 .. n - 1 : Zeros(n)[i] = Zero
         /\ \A i \in DOMAIN Zeros(n) : Zeros(n)[i] \in Cell
         /\ \A k \in 0 .. n : Known(Zeros(n), k)
BY CharAssumption DEF Zeros, Known, Cell

LEMMA TextFacts ==
  ASSUME NEW n \in Nat, NEW s, \A i \in 0 .. n - 1 : s[i] \in Cell, Known(s, n)
  PROVE  /\ \A i \in DOMAIN Text(s, n) : Text(s, n)[i] \in Cell
         /\ 0 .. n \subseteq DOMAIN Text(s, n) /\ Text(s, n)[n] = Zero /\ Known(Text(s, n), n)
<1>1. /\ DOMAIN Text(s, n) = 0 .. n
      /\ \A i \in 0 .. n : Text(s, n)[i] = IF i < n THEN s[i] ELSE Zero
  BY DEF Text
<1>2. \A i \in 0 .. n : Text(s, n)[i] \in Cell
  BY <1>1 DEF Cell
<1> QED
  BY <1>1, <1>2 DEF Known

LEMMA CharsFacts ==
  ASSUME NEW t \in Seq(Char)
  PROVE  /\ \A i \in 0 .. Len(t) - 1 : chars(t)[i] \in Cell
         /\ Known(chars(t), Len(t)) /\ Len(t) \in Nat
<1>1. Len(t) \in Nat /\ \A i \in 0 .. Len(t) - 1 : chars(t)[i] = t[i + 1] /\ i + 1 \in 1 .. Len(t)
  BY DEF chars
<1>2. \A i \in 0 .. Len(t) - 1 : chars(t)[i] \in Char
  BY <1>1
<1> QED
  BY <1>1, <1>2, CharAssumption DEF Cell, Known

\* The characters of a string.
LEMMA HeldFacts ==
  ASSUME IndInv, NEW g \in alive
  PROVE  /\ \A i \in 0 .. str[g].len - 1 : cells(g)[i] \in Cell /\ cells(g)[i] # Uninit
         /\ Known(cells(g), str[g].len) /\ str[g].len \in Nat /\ str[g].cap \in Nat
         /\ str[g].len <= str[g].cap /\ str[g].al \in Al
<1>1. /\ cells(g) \in [Room(str[g]) -> Cell] /\ Known(cells(g), str[g].len)
      /\ str[g].len \in 0 .. str[g].cap /\ str[g].cap \in Nat /\ str[g].al \in Al
      /\ str[g].data = Null => str[g].cap = 0
  BY CellsFacts DEF Struct
<1>2. 0 .. str[g].len - 1 \subseteq Room(str[g])
  BY <1>1 DEF Room
<1> QED
  BY <1>1, <1>2 DEF Known

-----------------------------------------------------------------------------
(* The calls that make, end, move or assign a string.                      *)

LEMMA NewInv ==
  ASSUME IndInv, NEW h \in Str \ alive, NEW al \in Al,
         NEW len \in Nat, NEW cap \in Nat, new_p(h, len, cap, al)
  PROVE  IndInv'
<1> DEFINE c == Zeros(cap + 1)
<1>1. len \in 0 .. cap /\ cap + 1 \in Nat /\ len \in 0 .. cap + 1 /\ (cap + 1) - 1 = cap
  BY DEF new_p
<1>2. /\ \A i \in DOMAIN c : c[i] \in Cell
      /\ 0 .. len \subseteq DOMAIN c /\ c[len] = Zero /\ Known(c, len)
  BY <1>1, ZerosFacts
<1>3. Created(h, len, cap, al, c) \/ Fails
  BY DEF new_p
<1> HIDE DEF c
<1> QED
  BY <1>1, <1>2, <1>3, CreatedInv, FailsInv

LEMMA FromCstrInv ==
  ASSUME IndInv, NEW h \in Str \ alive, NEW al \in Al, NEW t \in Literals, from_cstr(h, t, al)
  PROVE  IndInv'
<1> DEFINE n == Len(t)
           c == Text(chars(t), n)
<1>1. t \in Seq(Char)
  BY StrSizeAssumption
<1>2. n \in Nat /\ (\A i \in 0 .. n - 1 : chars(t)[i] \in Cell) /\ Known(chars(t), n)
  BY <1>1, CharsFacts
<1>3. Created(h, n, n, al, c) \/ Fails
  BY DEF from_cstr
<1> HIDE DEF n
<1>4. /\ \A i \in DOMAIN c : c[i] \in Cell
      /\ 0 .. n \subseteq DOMAIN c /\ c[n] = Zero /\ Known(c, n)
  BY <1>2, TextFacts
<1> HIDE DEF c
<1>5. n \in 0 .. n
  BY <1>2
<1> QED
  BY <1>2, <1>3, <1>4, <1>5, CreatedInv, FailsInv

\* What a copy of string g holds.
LEMMA CopyFacts ==
  ASSUME IndInv, NEW g \in alive, NEW c, c = Text(cells(g), str[g].len)
  PROVE  /\ \A i \in DOMAIN c : c[i] \in Cell
         /\ 0 .. str[g].len \subseteq DOMAIN c /\ c[str[g].len] = Zero /\ Known(c, str[g].len)
<1> DEFINE n == str[g].len
           s == cells(g)
<1>1. n \in Nat /\ (\A i \in 0 .. n - 1 : s[i] \in Cell) /\ Known(s, n) /\ c = Text(s, n)
  BY HeldFacts
<1> HIDE DEF n, s
<1>2. /\ \A i \in DOMAIN c : c[i] \in Cell
      /\ 0 .. n \subseteq DOMAIN c /\ c[n] = Zero /\ Known(c, n)
  BY <1>1, TextFacts
<1> QED
  BY <1>2 DEF n

LEMMA CopyInv ==
  ASSUME IndInv, NEW h \in Str \ alive, NEW al \in Al, NEW g \in alive, copy_a(h, g, al)
  PROVE  IndInv'
<1> DEFINE c == Text(cells(g), str[g].len)
<1>1. /\ \A i \in DOMAIN c : c[i] \in Cell
      /\ 0 .. str[g].len \subseteq DOMAIN c /\ c[str[g].len] = Zero /\ Known(c, str[g].len)
  BY CopyFacts
<1>2. Created(h, str[g].len, str[g].cap, al, c) \/ Fails
  BY DEF copy_a
<1>3. str[g].len \in 0 .. str[g].cap /\ str[g].cap \in Nat
  BY CellsFacts, HeldFacts
<1> HIDE DEF c
<1> QED
  BY <1>1, <1>2, <1>3, CreatedInv, FailsInv

LEMMA DropInv ==
  ASSUME IndInv, NEW h \in alive, heap' = nx_al_dealloc(heap, str[h].data),
         str' = Lacks(str, h), ret' \in {"ok", "oom", "io"}
  PROVE  IndInv'
<1>1. /\ alive' = alive \ {h} /\ \A g \in alive' : str'[g] = str[g]
      /\ str' = [g \in alive' |-> str[g]]
  BY DEF Lacks, alive
<1>2. /\ DOMAIN heap' = DOMAIN heap \ {str[h].data} /\ \A b \in DOMAIN heap' : heap'[b] = heap[b]
      /\ heap' = [b \in DOMAIN heap' |-> heap'[b]]
  <2>1. CASE str[h].data = Null
    BY <2>1, NullAssumption DEF nx_al_dealloc, IndInv, TypeOK
  <2>2. CASE str[h].data # Null
    BY <2>2 DEF nx_al_dealloc, Lacks
  <2> QED
    BY <2>1, <2>2
<1>3. \A g \in alive' : str[g].data # Null => str[g].data \in DOMAIN heap'
  BY <1>1, <1>2 DEF IndInv, OneOwner
<1>4. TypeOK'
  BY <1>1, <1>2 DEF IndInv, TypeOK
<1>5. OneOwner'
  BY <1>1, <1>2, <1>3 DEF IndInv, OneOwner
<1>6. Terminated'
  <2> SUFFICES ASSUME NEW g \in alive', str[g].data # Null
               PROVE  /\ CellsIn(heap', str[g])[str[g].len] = Zero
                      /\ \A i \in 0 .. str[g].len - 1 : CellsIn(heap', str[g])[i] # Uninit
    BY <1>1 DEF Terminated, cells
  <2>1. CellsIn(heap', str[g]) = CellsIn(heap, str[g])
    BY <1>2, <1>3 DEF CellsIn
  <2> QED
    BY <2>1, <1>1 DEF IndInv, Terminated, cells
<1> QED
  BY <1>4, <1>5, <1>6 DEF IndInv

LEMMA MoveInv ==
  ASSUME IndInv, NEW h \in Str \ alive, NEW g \in alive, move(h, g) PROVE IndInv'
<1>1. /\ alive' = (alive \ {g}) \union {h} /\ str'[h] = str[g] /\ heap' = heap
      /\ \A e \in alive \ {g} : str'[e] = str[e] /\ str' = [f \in alive' |-> str'[f]]
  BY DEF move, Has, Lacks, alive
<1>2. \A f \in alive' : str'[f] = str[IF f = h THEN g ELSE f] /\ (IF f = h THEN g ELSE f) \in alive
  BY <1>1
<1>3. str' = [f \in alive' |-> str'[f]] /\ h # g
  BY DEF move, Has, Lacks, alive
<1>4. TypeOK'
  BY <1>1, <1>2, <1>3 DEF IndInv, TypeOK, move
<1>5. OneOwner'
  <2>1. ASSUME NEW f \in alive', str'[f].data # Null
        PROVE  /\ str'[f].data \in DOMAIN heap' /\ heap'[str'[f].data].al = str'[f].al
               /\ DOMAIN heap'[str'[f].data].cells = 0 .. str'[f].cap
               /\ \A e \in alive' : str'[e].data = str'[f].data => e = f
    BY <2>1, <1>1, <1>2 DEF IndInv, OneOwner
  <2>2. ASSUME NEW b \in DOMAIN heap' PROVE \E f \in alive' : str'[f].data = b
    BY <1>1, <2>2 DEF IndInv, OneOwner
  <2> QED
    BY <2>1, <2>2 DEF OneOwner
<1>6. Terminated'
  BY <1>1, <1>2 DEF IndInv, Terminated, cells
<1> QED
  BY <1>4, <1>5, <1>6 DEF IndInv

LEMMA MoveAssignInv ==
  ASSUME IndInv, NEW self \in alive, NEW src \in alive, move_assign(self, src) PROVE IndInv'
<1>1. CASE self = src
  BY <1>1, SameInv DEF move_assign
<1>2. CASE self # src
  <2> DEFINE empty == set_fields(Null, 0, 0, str[src].al)
  <2>1. /\ alive' = alive /\ str'[self] = str[src] /\ str'[src] = empty
        /\ \A g \in alive \ {self, src} : str'[g] = str[g]
        /\ str' = [g \in alive |-> str'[g]]
        /\ heap' = nx_al_dealloc(heap, str[self].data) /\ ret' \in {"ok", "oom", "io"}
    BY <1>2 DEF move_assign, IndInv, TypeOK, alive
  <2>2. /\ empty \in Struct /\ empty.data = Null /\ empty.len = 0 /\ empty.cap = 0
    BY DEF set_fields, Struct, IndInv, TypeOK
  <2> HIDE DEF empty
  <2>3. /\ DOMAIN heap' = DOMAIN heap \ {str[self].data}
        /\ \A b \in DOMAIN heap' : heap'[b] = heap[b]
        /\ heap' = [b \in DOMAIN heap' |-> heap'[b]]
    <3>1. CASE str[self].data = Null
      BY <3>1, <2>1, NullAssumption DEF nx_al_dealloc, IndInv, TypeOK
    <3>2. CASE str[self].data # Null
      BY <3>2, <2>1 DEF nx_al_dealloc, Lacks
    <3> QED
      BY <3>1, <3>2
  <2>4. \A g \in alive \ {self} : str[g].data # Null => str[g].data \in DOMAIN heap'
    BY <2>3 DEF IndInv, OneOwner
  <2>5. \A g \in alive \ {src} : \E f \in alive \ {self} :
          str'[g] = str[f] /\ (f = IF g = self THEN src ELSE g)
    BY <2>1, <1>2
  <2>6. TypeOK'
    BY <2>1, <2>2, <2>3, <2>5 DEF IndInv, TypeOK
  <2>7. OneOwner'
    <3>1. ASSUME NEW g \in alive', str'[g].data # Null
          PROVE  /\ str'[g].data \in DOMAIN heap' /\ heap'[str'[g].data].al = str'[g].al
                 /\ DOMAIN heap'[str'[g].data].cells = 0 .. str'[g].cap
      <4>1. g \in alive \ {src}
        BY <3>1, <2>1, <2>2
      <4> QED
        BY <3>1, <4>1, <2>3, <2>4, <2>5 DEF IndInv, OneOwner
    <3>2. ASSUME NEW g \in alive', str'[g].data # Null,
                 NEW f \in alive', str'[f].data = str'[g].data
          PROVE  f = g
      <4>1. g \in alive \ {src} /\ f \in alive \ {src}
        BY <3>2, <2>1, <2>2
      <4> QED
        BY <3>2, <4>1, <2>5 DEF IndInv, OneOwner
    <3>3. ASSUME NEW b \in DOMAIN heap' PROVE \E g \in alive' : str'[g].data = b
      <4>1. b \in DOMAIN heap /\ b # str[self].data
        BY <3>3, <2>3
      <4>2. PICK f \in alive : str[f].data = b
        BY <4>1 DEF IndInv, OneOwner
      <4> QED
        BY <4>1, <4>2, <2>1
    <3> QED
      BY <3>1, <3>2, <3>3 DEF OneOwner
  <2>8. Terminated'
    <3> SUFFICES ASSUME NEW g \in alive', str'[g].data # Null
                 PROVE  /\ CellsIn(heap', str'[g])[str'[g].len] = Zero
                        /\ \A i \in 0 .. str'[g].len - 1 : CellsIn(heap', str'[g])[i] # Uninit
      BY DEF Terminated, cells
    <3>1. g \in alive \ {src}
      BY <2>1, <2>2
    <3>2. PICK f \in alive \ {self} : str'[g] = str[f]
      BY <3>1, <2>5
    <3>3. CellsIn(heap', str[f]) = CellsIn(heap, str[f])
      BY <2>3, <2>4 DEF CellsIn
    <3> QED
      BY <3>2, <3>3 DEF IndInv, Terminated, cells
  <2> QED
    BY <2>6, <2>7, <2>8 DEF IndInv
<1> QED
  BY <1>1, <1>2

\* memcpy of known characters into a string with room for them.
LEMMA CopiedInv ==
  ASSUME IndInv, NEW h \in alive, NEW n \in 0 .. str[h].len, NEW k \in Nat,
         NEW r, HasRoom(r, h, n + k),
         NEW s, \A i \in 0 .. k - 1 : s[i] \in Cell, Known(s, k),
         Store(h, r, memcpy(CellsIn(r.heap, r.v), n, s, k), n + k)
  PROVE  IndInv'
<1> DEFINE I == Room(r.v)
           c == CellsIn(r.heap, r.v)
           d == memcpy(c, n, s, k)
<1>1. /\ str[h].len \in Nat /\ n \in Nat /\ n <= str[h].len /\ r.v.cap \in Nat /\ n + k <= r.v.cap
      /\ Fits(r.v, r.heap, h) /\ c \in [I -> Cell] /\ Known(c, str[h].len)
      /\ r.v.data = Null => r.v.cap = 0
  BY HeldFacts DEF HasRoom, Fits, Struct
<1>2. I \subseteq Int /\ 0 .. (n + k) - 1 \subseteq I /\ n + k \in 0 .. r.v.cap
  BY <1>1 DEF Room
<1>3. Known(c, n)
  BY <1>1 DEF Known
<1> HIDE DEF I, c
<1>4. d \in [I -> Cell] /\ Known(d, n + k)
  BY <1>1, <1>2, <1>3, MemcpyFacts
<1>5. Store(h, r, d, n + k)
  BY DEF c
<1> HIDE DEF d
<1> QED
  BY <1>1, <1>2, <1>4, <1>5, StoreInv DEF I

LEMMA CopyAssignInv ==
  ASSUME IndInv, NEW self \in alive, NEW src \in alive, copy_assign(self, src) PROVE IndInv'
<1> DEFINE s == str[src]
<1>1. /\ s.len \in Nat /\ s.cap \in Nat /\ s.len <= s.cap
      /\ (\A i \in 0 .. s.len - 1 : cells(src)[i] \in Cell) /\ Known(cells(src), s.len)
  BY HeldFacts
<1>2. str[self].len \in Nat /\ str[self].cap \in Nat /\ str[self].al \in Al
  BY HeldFacts
<1>3. CASE self = src /\ ret' = "ok" /\ UNCHANGED <<str, heap>>
  BY <1>3, SameInv
<1>4. CASE Shortened(self, 0)
  BY <1>2, <1>4, ShortenedInv
<1>5. CASE s.len <= str[self].cap /\ Store(self, Here(self), memcpy(cells(self), 0, cells(src), s.len), s.len)
  <2> DEFINE r == Here(self)
             c == cells(src)
             k == s.len
  <2>1. r.v = str[self] /\ r.heap = heap
    BY DEF Here
  <2>2. r \in Reserved(self, k)
    BY <1>5 DEF Reserved, Here
  <2>3. k \in Nat /\ 0 + k = k /\ 0 \in 0 .. str[self].len /\ (\A i \in 0 .. k - 1 : c[i] \in Cell) /\ Known(c, k)
    BY <1>1, <1>2
  <2>4. Store(self, r, memcpy(CellsIn(r.heap, r.v), 0, c, k), k)
    BY <1>5, <2>1 DEF cells
  <2> HIDE DEF r, c, k
  <2>5. HasRoom(r, self, 0 + k)
    BY <2>2, <2>3, ReservedFacts
  <2> QED
    BY <2>3, <2>4, <2>5, CopiedInv
<1>6. CASE Fails
  BY <1>6, FailsInv
<1>7. CASE /\ s.len > str[self].cap
           /\ \E o \in nx_al_alloc(heap, str[self].al, s.cap + 1, Text(cells(src), s.len)) :
                /\ heap' = nx_al_dealloc(o.heap, str[self].data) /\ ret' = "ok"
                /\ str' = [str EXCEPT ![self] = set_fields(o.data, s.len, s.cap, @.al)]
  <2> DEFINE c == Text(cells(src), s.len)
  <2>1. PICK o \in nx_al_alloc(heap, str[self].al, s.cap + 1, c) :
          /\ heap' = nx_al_dealloc(o.heap, str[self].data) /\ ret' = "ok"
          /\ str' = [str EXCEPT ![self] = set_fields(o.data, s.len, s.cap, str[self].al)]
    BY <1>7
  <2> DEFINE v == set_fields(o.data, s.len, s.cap, str[self].al)
  <2>2. /\ s.cap \in Nat \ {0} /\ s.len \in 0 .. s.cap
        /\ self \in Str /\ Owned(self) = str[self].data
    BY <1>1, <1>2, <1>7 DEF IndInv, TypeOK, Owned
  <2>3. /\ \A i \in DOMAIN c : c[i] \in Cell
        /\ 0 .. s.len \subseteq DOMAIN c /\ c[s.len] = Zero /\ Known(c, s.len)
    BY CopyFacts
  <2>4. str' = Has(str, self, v)
    BY <2>1, HasExcept
  <2> HIDE DEF c, s
  <2>5. Fits(v, heap', self) /\ Ended(v, heap')
    BY <2>1, <2>2, <2>3, <1>2, ReplacedFits
  <2> HIDE DEF v
  <2> QED
    BY <2>1, <2>2, <2>4, <2>5, OneString
<1> QED
  BY <1>3, <1>4, <1>5, <1>6, <1>7 DEF copy_assign

-----------------------------------------------------------------------------
(* The calls that change characters.                                       *)

LEMMA SetInv ==
  ASSUME IndInv, NEW h \in alive, NEW idx \in 0 .. str[h].len - 1, NEW x \in Char \union {Zero},
         set(h, idx, x)
  PROVE  IndInv'
<1> DEFINE r == Here(h)
           c == [cells(h) EXCEPT ![idx] = x]
<1>1. /\ cells(h) \in [Room(str[h]) -> Cell] /\ Fits(str[h], heap, h)
      /\ str[h].len \in 0 .. str[h].cap /\ Known(cells(h), str[h].len)
  BY CellsFacts
<1>2. r.v = str[h] /\ r.heap = heap
  BY DEF Here
<1>3. c \in [Room(str[h]) -> Cell] /\ Known(c, str[h].len)
  <2>1. x \in Cell /\ x # Uninit
    BY CharAssumption DEF Cell
  <2>2. idx \in Room(str[h]) /\ 0 .. str[h].len - 1 \subseteq Room(str[h])
    BY <1>1 DEF Room, Fits, Struct
  <2> QED
    BY <1>1, <2>1, <2>2 DEF Known
<1>4. Store(h, r, c, str[h].len)
  BY DEF set
<1> HIDE DEF c, r
<1> QED
  BY <1>1, <1>2, <1>3, <1>4, StoreInv

LEMMA PushInv ==
  ASSUME IndInv, NEW h \in alive, NEW x \in Char \union {Zero}, push(h, x) PROVE IndInv'
<1> DEFINE n == str[h].len
<1>1. n \in Nat
  BY HeldFacts
<1>2. ASSUME NEW r \in ensure_cap(h, n + 1),
             Store(h, r, [CellsIn(r.heap, r.v) EXCEPT ![n] = x], n + 1)
      PROVE  IndInv'
  <2> DEFINE c == [CellsIn(r.heap, r.v) EXCEPT ![n] = x]
  <2>1. n + 1 \in Nat /\ HasRoom(r, h, n + 1)
    BY <1>1, EnsureCapFacts
  <2>2. n + 1 \in 0 .. r.v.cap /\ Fits(r.v, r.heap, h)
    BY <1>1, <2>1 DEF HasRoom, Fits, Struct
  <2>3. c \in [Room(r.v) -> Cell] /\ Known(c, n + 1)
    <3>1. n \in Room(r.v) /\ x \in Cell /\ x # Uninit
      BY <1>1, <2>2, CharAssumption DEF Room, Fits, Struct, Cell
    <3>2. \A i \in 0 .. (n + 1) - 1 : i = n \/ i \in 0 .. n - 1
      BY <1>1
    <3> QED
      BY <3>1, <3>2, <2>1 DEF HasRoom, Known
  <2>4. Store(h, r, c, n + 1)
    BY <1>2
  <2> HIDE DEF c, n
  <2> QED
    BY <2>2, <2>3, <2>4, StoreInv
<1> QED
  BY <1>2, FailsInv DEF push

LEMMA ReserveInv ==
  ASSUME IndInv, NEW h \in alive, NEW n \in Nat, reserve(h, n) PROVE IndInv'
<1>1. ASSUME NEW r \in Reserved(h, n),
             heap' = r.heap, ret' = "ok", str' = [str EXCEPT ![h] = r.v]
      PROVE  IndInv'
  <2>1. Fits(r.v, r.heap, h) /\ Ended(r.v, r.heap)
    BY ReservedFacts DEF HasRoom
  <2>2. str' = Has(str, h, r.v) /\ h \in Str
    BY <1>1, HasExcept DEF IndInv, TypeOK
  <2> QED
    BY <1>1, <2>1, <2>2, OneString
<1> QED
  BY <1>1, FailsInv DEF reserve

LEMMA ResizeInv ==
  ASSUME IndInv, NEW h \in alive, NEW new_len \in Nat, resize(h, new_len) PROVE IndInv'
<1> DEFINE n == str[h].len
<1>1. n \in Nat
  BY HeldFacts
<1>2. CASE new_len <= n /\ Shortened(h, new_len)
  BY <1>1, <1>2, ShortenedInv
<1>3. ASSUME new_len > n, NEW r \in Reserved(h, new_len),
             Store(h, r, memcpy(CellsIn(r.heap, r.v), n, Zeros(new_len - n), new_len - n), new_len)
      PROVE  IndInv'
  <2> DEFINE k == new_len - n
             s == Zeros(k)
  <2>1. k \in Nat /\ n + k = new_len /\ n \in 0 .. n
    BY <1>1, <1>3
  <2>2. Store(h, r, memcpy(CellsIn(r.heap, r.v), n, s, k), new_len)
    BY <1>3
  <2> HIDE DEF k
  <2>3. (\A i \in 0 .. k - 1 : s[i] \in Cell) /\ Known(s, k)
    BY <2>1, ZerosFacts
  <2>4. HasRoom(r, h, n + k)
    BY <2>1, <1>3, ReservedFacts
  <2> HIDE DEF s
  <2> QED
    BY <2>1, <2>2, <2>3, <2>4, CopiedInv
<1> QED
  BY <1>2, <1>3, FailsInv DEF resize

\* A view of characters of the client's own or of a string that exists.
GoodView(sv) ==
  /\ sv.len \in Nat /\ sv = view(sv.data, sv.off, sv.len, sv.text)
  /\ sv.data = Null => \A i \in 0 .. sv.len - 1 : sv.text[i] \in Cell /\ sv.text[i] # Uninit
  /\ sv.data # Null => sv.off \in Nat /\ \E g \in alive : str[g].data = sv.data /\ sv.off + sv.len <= str[g].len

\* What append copies, after the buffer of h may have moved.
LEMMA ViewedFacts ==
  ASSUME IndInv, NEW h \in alive, NEW n \in Nat, NEW r, HasRoom(r, h, n),
         NEW sv, GoodView(sv),
         NEW src, src = IF str[h].data # Null /\ sv.data = str[h].data
                        THEN [sv EXCEPT !.data = r.v.data] ELSE sv,
         NEW s, s = Viewed(r.heap, src)
  PROVE  (\A i \in 0 .. sv.len - 1 : s[i] \in Cell) /\ Known(s, sv.len)
<1>1. sv.len \in Nat /\ src.len = sv.len /\ src.off = sv.off /\ src.text = sv.text
  BY DEF GoodView, view
<1> SUFFICES ASSUME NEW i \in 0 .. sv.len - 1 PROVE s[i] \in Cell /\ s[i] # Uninit
  BY DEF Known
<1>2. s[i] = IF src.data = Null THEN src.text[i]
             ELSE IF src.data \in DOMAIN r.heap THEN r.heap[src.data].cells[src.off + i] ELSE Uninit
  BY <1>1 DEF Viewed
<1>3. CASE sv.data = Null
  BY <1>2, <1>3 DEF GoodView
<1>4. CASE sv.data # Null
  <2>1. PICK g \in alive : str[g].data = sv.data /\ sv.off + sv.len <= str[g].len
    BY <1>4 DEF GoodView
  <2>2. sv.off \in Nat /\ sv.off + i \in 0 .. str[g].len - 1
    <3>1. sv.off \in Nat /\ str[g].len \in Nat
      BY <1>4, HeldFacts DEF GoodView
    <3> QED
      BY <1>1, <2>1, <3>1
  <2>3. CASE sv.data = str[h].data
    <3>1. g = h
      BY <1>4, <2>1, <2>3 DEF IndInv, OneOwner
    <3>2. src.data = r.v.data
      BY <1>4, <2>3 DEF GoodView, view
    <3>3. r.v.data # Null
      <4>1. str[h].len > 0
        BY <2>2, <3>1, HeldFacts
      <4> QED
        BY <4>1 DEF HasRoom, Fits, Struct
    <3>4. /\ r.v.data \in DOMAIN r.heap /\ r.heap[r.v.data] \in Buffer(0 .. r.v.cap)
          /\ Known(r.heap[r.v.data].cells, str[h].len) /\ str[h].len <= r.v.cap /\ r.v.cap \in Nat
      BY <3>3 DEF HasRoom, Fits, CellsIn, Struct
    <3>5. sv.off + i \in 0 .. r.v.cap /\ sv.off + i \in 0 .. str[h].len - 1
      BY <2>2, <3>1, <3>4, HeldFacts
    <3> QED
      BY <1>1, <1>2, <3>2, <3>3, <3>4, <3>5 DEF Known, Buffer
  <2>4. CASE sv.data # str[h].data
    <3>1. src = sv
      BY <2>4
    <3>2. sv.data \in DOMAIN heap \ {Owned(h)}
      BY <1>4, <2>1, <2>4 DEF IndInv, OneOwner, Owned
    <3>3. sv.data \in DOMAIN r.heap /\ r.heap[sv.data] = heap[sv.data]
      BY <3>2, <1>4 DEF HasRoom, Fits
    <3>4. r.heap[sv.data].cells = cells(g)
      BY <3>3, <1>4, <2>1 DEF cells, CellsIn
    <3> QED
      BY <1>2, <1>4, <2>2, <3>1, <3>3, <3>4, HeldFacts
  <2> QED
    BY <2>3, <2>4
<1> QED
  BY <1>3, <1>4

LEMMA AppendInv ==
  ASSUME IndInv, NEW h \in alive, NEW sv, GoodView(sv), append_str_view(h, sv) PROVE IndInv'
<1> DEFINE n == str[h].len
           k == sv.len
           Src(r) == IF str[h].data # Null /\ sv.data = str[h].data
                     THEN [sv EXCEPT !.data = r.v.data] ELSE sv
<1>1. n \in Nat /\ k \in Nat /\ n + k \in Nat /\ n \in 0 .. n
  BY HeldFacts DEF GoodView
<1>2. ASSUME NEW r \in ensure_cap(h, n + k),
             Store(h, r, memcpy(CellsIn(r.heap, r.v), n, Viewed(r.heap, Src(r)), k), n + k)
      PROVE  IndInv'
  <2> DEFINE s == Viewed(r.heap, Src(r))
  <2>1. HasRoom(r, h, n + k)
    BY <1>1, EnsureCapFacts
  <2>2. (\A i \in 0 .. k - 1 : s[i] \in Cell) /\ Known(s, k)
    BY <1>1, <2>1, ViewedFacts
  <2>3. Store(h, r, memcpy(CellsIn(r.heap, r.v), n, s, k), n + k)
    BY <1>2
  <2> HIDE DEF s, k, n
  <2>4. n \in 0 .. str[h].len
    BY <1>1 DEF n
  <2> QED
    BY <1>1, <2>1, <2>2, <2>3, <2>4, CopiedInv
<1> QED
  BY <1>2, SameInv, FailsInv DEF append_str_view

-----------------------------------------------------------------------------
(* A C string ends where its string does, or before.                       *)

LEMMA NatOrder ==
  \E R : IsWellFoundedOn(R, Nat) /\ \A k, n \in Nat : k < n => <<k, n>> \in R
<1>1. \A k, n \in Nat : k < n => <<k, n>> \in OpToRel(<, Nat)
  BY DEF OpToRel
<1> QED
  BY <1>1, NatLessThanWellFounded, Zenon

LEMMA Least ==
  ASSUME NEW Z, Z \subseteq Nat, Z # {}
  PROVE  \E n \in Z : \A k \in Z : n <= k
<1>1. PICK R : IsWellFoundedOn(R, Nat) /\ \A k, n \in Nat : k < n => <<k, n>> \in R
  BY NatOrder
<1>2. \E n \in Z : \A k \in Z : ~(<<k, n>> \in R)
  <2>1. IsWellFoundedOn(R, Nat)
    BY <1>1
  <2> QED
    BY <2>1, WFMin
<1>3. PICK n \in Z : \A k \in Z : ~(<<k, n>> \in R)
  BY <1>2
<1>4. \A k \in Z : ~(k < n)
  BY <1>1, <1>3
<1> QED
  BY <1>4

LEMMA StrlenFacts ==
  ASSUME IndInv, NEW g \in alive, str[g].data # Null
  PROVE  strlen(cells(g)) \in 0 .. str[g].len
<1> DEFINE c == cells(g)
           IsEnd(n) == n \in DOMAIN c /\ c[n] = Zero /\ \A i \in 0 .. n - 1 : c[i] # Zero
           Z == { n \in 0 .. str[g].cap : c[n] = Zero }
<1>1. /\ c \in [0 .. str[g].cap -> Cell] /\ str[g].len \in 0 .. str[g].cap
      /\ str[g].cap \in Nat /\ c[str[g].len] = Zero
  BY CellsFacts DEF Room, Struct, Ended, cells
<1> HIDE DEF c
<1>2. str[g].len \in Z /\ Z \subseteq Nat
  BY <1>1
<1>3. PICK n \in Z : \A k \in Z : n <= k
  BY <1>2, Least
<1>4. IsEnd(n)
  <2>1. ASSUME NEW i \in 0 .. n - 1 PROVE c[i] # Zero
    <3>1. i \in 0 .. str[g].cap /\ ~(n <= i)
      BY <1>1
    <3> QED
      BY <1>3, <3>1
  <2> QED
    BY <2>1, <1>1
<1>5. strlen(c) = CHOOSE m : IsEnd(m)
  BY DEF strlen
<1> DEFINE m == CHOOSE m : IsEnd(m)
<1>6. IsEnd(m)
  <2> HIDE DEF IsEnd
  <2> QED
    BY <1>4, Zenon
<1> HIDE DEF m
<1>7. m \in 0 .. str[g].len
  <2>1. m \in 0 .. str[g].cap /\ \A i \in 0 .. m - 1 : c[i] # Zero
    BY <1>1, <1>6
  <2>2. ~(str[g].len \in 0 .. m - 1)
    BY <1>1, <2>1
  <2> QED
    BY <1>1, <2>1, <2>2
<1> QED
  BY <1>5, <1>7 DEF m, c

LEMMA CstrViewGood == ASSUME IndInv, NEW g \in alive PROVE GoodView(CstrView(g))
<1>1. CASE str[g].data = Null
  BY <1>1 DEF CstrView, GoodView, view
<1>2. CASE str[g].data # Null
  <2> DEFINE n == strlen(cells(g))
  <2>1. n \in 0 .. str[g].len /\ str[g].len \in Nat
    BY <1>2, StrlenFacts, HeldFacts
  <2>2. CstrView(g) = [data |-> str[g].data, off |-> 0, len |-> n, text |-> NoText]
    BY <1>2 DEF CstrView, view
  <2> HIDE DEF n
  <2>3. n \in Nat /\ 0 + n <= str[g].len
    BY <2>1
  <2> QED
    BY <1>2, <2>2, <2>3 DEF GoodView, view
<1> QED
  BY <1>1, <1>2

LEMMA LiteralGood == ASSUME NEW t \in Literals PROVE GoodView(Literal(t))
<1>1. t \in Seq(Char)
  BY StrSizeAssumption
<1>2. /\ \A i \in 0 .. Len(t) - 1 : chars(t)[i] \in Cell
      /\ Known(chars(t), Len(t)) /\ Len(t) \in Nat
  BY <1>1, CharsFacts
<1>3. Literal(t) = [data |-> Null, off |-> 0, len |-> Len(t), text |-> chars(t)]
  BY DEF Literal, view
<1> QED
  BY <1>2, <1>3 DEF GoodView, view, Known

LEMMA PartGood ==
  ASSUME IndInv, NEW g \in alive, NEW i \in 0 .. str[g].len, NEW k \in 0 .. str[g].len - i
  PROVE  GoodView(view(str[g].data, i, k, NoText))
<1>1. str[g].len \in Nat /\ str[g].data = Null => str[g].len = 0
  BY HeldFacts, CellsFacts
<1>2. str[g].len \in Nat
  BY HeldFacts
<1>3. k \in Nat /\ i \in Nat /\ i + k <= str[g].len
  BY <1>2
<1>4. str[g].data = Null => 0 .. k - 1 = {}
  BY <1>1, <1>2, <1>3
<1> QED
  BY <1>3, <1>4 DEF GoodView, view

-----------------------------------------------------------------------------
(* Every call of a client keeps the invariant.                             *)

LEMMA CallsInv == ASSUME IndInv, Calls PROVE IndInv'
<1>1. CASE \E h \in Str \ alive :
             \/ \E al \in Al : \/ \E len, cap \in Lens : new_p(h, len, cap, al)
                               \/ \E t \in Literals : from_cstr(h, t, al)
                               \/ \E g \in alive : copy_a(h, g, al)
             \/ \E g \in alive : move(h, g)
  BY <1>1, NewInv, FromCstrInv, CopyInv, MoveInv, StrSizeAssumption
<1>2. CASE \E h \in alive : drop(h) \/ clear(h)
  <2>1. ASSUME NEW h \in alive, clear(h) PROVE IndInv'
    <3>1. 0 \in 0 .. str[h].len
      BY HeldFacts
    <3> QED
      BY <2>1, <3>1, ShortenedInv DEF clear
  <2> QED
    BY <1>2, <2>1, DropInv DEF drop
<1>3. CASE \E h \in alive, x \in Char \union {Zero} :
             push(h, x) \/ \E idx \in 0 .. str[h].len - 1 : set(h, idx, x)
  BY <1>3, PushInv, SetInv
<1>4. CASE \E h \in alive, n \in Lens : reserve(h, n) \/ resize(h, n)
  BY <1>4, ReserveInv, ResizeInv, StrSizeAssumption
<1>5. CASE \E h, g \in alive : \E i \in 0 .. str[g].len : \E k \in 0 .. str[g].len - i :
             append_str_view(h, view(str[g].data, i, k, NoText))
  BY <1>5, PartGood, AppendInv
<1>6. CASE \E h \in alive :
             \E sv \in { CstrView(g) : g \in alive } \union { Literal(t) : t \in Literals } :
               append_cstr(h, sv)
  <2>1. PICK h \in alive, sv \in { CstrView(g) : g \in alive } \union { Literal(t) : t \in Literals } :
          append_str_view(h, sv)
    BY <1>6 DEF append_cstr
  <2>2. GoodView(sv)
    BY CstrViewGood, LiteralGood
  <2> QED
    BY <2>1, <2>2, AppendInv
<1>7. CASE \E h, g \in alive : copy_assign(h, g) \/ move_assign(h, g)
  BY <1>7, CopyAssignInv, MoveAssignInv
<1> QED
  BY <1>1, <1>2, <1>3, <1>4, <1>5, <1>6, <1>7 DEF Calls

LEMMA StrInit == Init => IndInv
BY DEF Init, IndInv, TypeOK, OneOwner, Terminated, alive

-----------------------------------------------------------------------------
(* A call on a file.                                                       *)

Chars == Char \union {Zero}

Reads  == {"read_to_str", "read_bytes"}
Writes == {"write", "append"}

Call == [pc : {"idle", "size", "alloc", "fread", "fwrite"},
         op : {"none", "file_size"} \union Reads \union Writes,
         h : Str \union {Null}, al : Al \union {Null}, size : Nat,
         text : Seq(Char), done : Nat, out : Nat, was : Seq(Chars) \union {NoFile},
         seen : SUBSET Seq(Chars), changed : BOOLEAN]

\* One FILE is open during a call and none between calls; a file that is open
\* exists.
FileOK ==
  /\ file \in Seq(Chars) \union {NoFile} /\ (~At("idle") => file \in Seq(Chars))
  /\ handles = IF At("idle") THEN 0 ELSE 1
  /\ At("idle") => fs.seen = {}

\* Each of the first n cells of c stood at its place in one of the files S.
Stood(c, n, S) == \A i \in 0 .. n - 1 : \E f \in S : i + 1 <= Len(f) /\ c[i] = f[i + 1]

\* A read has seen the file as it is, and as it was when its size was asked; it
\* obtains its string or its buffer after that, of exactly this size, and what
\* has come into it was in a file it has seen.
ReadOK ==
  /\ At("size") \/ At("alloc") \/ At("fread") =>
       fs.op \in Reads \union {"file_size"} /\ file \in fs.seen
  /\ At("size") \/ At("alloc") => fs.done = 0
  /\ At("alloc") \/ At("fread") =>
       fs.op \in Reads /\ fs.was \in fs.seen /\ fs.size = Len(fs.was) /\ fs.done <= fs.size
  /\ fs.op = "read_to_str" =>
       /\ fs.h \in Str /\ fs.al \in Al /\ (At("size") \/ At("alloc") => fs.h \notin alive)
       /\ At("fread") => /\ fs.h \in alive /\ str[fs.h].len = fs.size /\ str[fs.h].cap = fs.size
                         /\ Stood(cells(fs.h), fs.done, fs.seen)
  /\ bytes = Null \/ At("idle") \/ (At("fread") /\ fs.op = "read_bytes")
  /\ At("fread") /\ fs.op = "read_bytes" =>
       /\ fs.size \in 1 .. ALLOC_MAX /\ bytes \in [0 .. fs.size - 1 -> Cell]
       /\ Stood(bytes, fs.done, fs.seen)

\* An undisturbed write has so far left the beginning of its text of length out.
WriteOK ==
  At("fwrite") =>
    /\ fs.op \in Writes /\ fs.seen = {} /\ fs.out <= fs.done /\ fs.done <= Len(fs.text)
    /\ fs.changed \/ file = BeforeWrite \o SubSeq(fs.text, 1, fs.out)

FsIndInv == IndInv /\ fs \in Call /\ FileOK /\ ReadOK /\ WriteOK

-----------------------------------------------------------------------------
(* A call begins.                                                          *)

LEMMA NoCallFacts ==
  /\ NoCall \in Call /\ NoCall.pc = "idle"
  /\ NoCall.op = "none" /\ NoCall.size = 0 /\ NoCall.done = 0 /\ ~NoCall.changed
  /\ NoCall.seen = {}
<1>1. <<>> \in Seq(Char)
  OBVIOUS
<1> QED
  BY <1>1 DEF NoCall, Call

\* Between calls only the strings, the file and the bytes of the last read
\* remain.
LEMMA IdleInv ==
  ASSUME IndInv', fs' \in Call, fs'.pc = "idle", fs'.op = "none", fs'.seen = {},
         file' \in Seq(Chars) \union {NoFile}, handles' = 0
  PROVE  FsIndInv'
BY DEF FsIndInv, FileOK, ReadOK, WriteOK, At, Reads

LEMMA OpensInv ==
  ASSUME FsIndInv, At("idle"), bytes = Null,
         NEW pc \in {"size", "fwrite"}, NEW op \in {"file_size"} \union Reads \union Writes,
         NEW h \in Str \union {Null}, NEW al \in Al \union {Null}, NEW text \in Seq(Char),
         pc = "size" => op \in Reads \union {"file_size"} /\ file' = file,
         op = "read_to_str" => h \in Str \ alive /\ al \in Al,
         pc = "fwrite" => op \in Writes /\ file' = IF op = "append" /\ file # NoFile THEN file ELSE <<>>,
         file' \in Seq(Chars), Opens(pc, op, h, al, text)
  PROVE  FsIndInv'
<1> DEFINE was  == IF op = "append" THEN file ELSE NoFile
           seen == IF pc = "size" THEN {file} ELSE {}
<1>1. fs' = [pc |-> pc, op |-> op, h |-> h, al |-> al, size |-> 0, text |-> text, done |-> 0,
             out |-> 0, was |-> was, seen |-> seen, changed |-> FALSE]
  BY DEF Opens, NoCall
<1>2. fs' \in Call
  <2>1. seen \in SUBSET Seq(Chars)
    OBVIOUS
  <2> QED
    BY <1>1, <2>1 DEF Call, FsIndInv, FileOK
<1>3. /\ fs'.pc = pc /\ fs'.op = op /\ fs'.h = h /\ fs'.al = al /\ fs'.was = was
      /\ fs'.text = text /\ fs'.done = 0 /\ fs'.out = 0 /\ fs'.seen = seen /\ ~fs'.changed
  BY <1>1
<1>4. IndInv' /\ alive' = alive
  <2>1. UNCHANGED <<str, heap>> /\ ret' = "ok" /\ IndInv
    BY DEF Opens, FsIndInv
  <2> QED
    BY <2>1, SameInv DEF alive
<1>5. FileOK'
  BY <1>3 DEF FileOK, FsIndInv, Opens, At
<1>6. ReadOK'
  <2>1. bytes' = Null
    BY DEF Opens
  <2> QED
    BY <1>3, <1>4, <2>1 DEF ReadOK, At, Reads
<1>7. WriteOK'
  <2>1. CASE pc = "fwrite"
    <3> DEFINE before == IF op = "append" /\ file # NoFile THEN file ELSE <<>>
    <3>1. /\ before \in Seq(Chars) /\ file' = before /\ BeforeWrite' = before
          /\ Len(text) \in Nat
      BY <1>3, <2>1 DEF BeforeWrite, FsIndInv, FileOK
    <3> HIDE DEF before
    <3>2. SubSeq(text, 1, 0) = <<>>
      OBVIOUS
    <3>3. before \o <<>> = before
      BY <3>1, ConcatEmptySeq
    <3> QED
      BY <1>3, <2>1, <3>1, <3>2, <3>3 DEF WriteOK, At
  <2>2. CASE pc # "fwrite"
    BY <1>3, <2>2 DEF WriteOK, At
  <2> QED
    BY <2>1, <2>2
<1> QED
  BY <1>2, <1>4, <1>5, <1>6, <1>7 DEF FsIndInv

LEMMA FsCallInv == ASSUME FsIndInv, At("idle"), bytes = Null, FsCall PROVE FsIndInv'
<1>1. /\ IndInv /\ fs \in Call /\ handles = 0 /\ file \in Seq(Chars) \union {NoFile}
  BY DEF FsIndInv, FileOK
<1>2. CASE fopen_fails \/ nx_fs_exists
  <2>1. UNCHANGED <<str, heap, file, handles, bytes, fs>> /\ ret' \in {"ok", "io"}
    BY <1>2 DEF fopen_fails, nx_fs_exists
  <2>2. IndInv' /\ alive' = alive
    BY <1>1, <2>1, SameInv DEF alive
  <2> QED
    BY <2>1, <2>2 DEF FsIndInv, FileOK, ReadOK, WriteOK, At, BeforeWrite
<1>3. ASSUME NEW op \in {"file_size"} \union Reads,
             NEW h \in Str \union {Null}, NEW al \in Al \union {Null},
             op = "read_to_str" => h \in Str \ alive /\ al \in Al, fopen_rb(op, h, al)
      PROVE  FsIndInv'
  <2>1. /\ Opens("size", op, h, al, <<>>) /\ file' \in Seq(Chars) /\ <<>> \in Seq(Char)
        /\ file' = file
    BY <1>1, <1>3 DEF fopen_rb
  <2> QED
    BY <1>3, <2>1, OpensInv
<1>4. CASE nx_fs_file_size
  BY <1>4, <1>3 DEF nx_fs_file_size, Reads
<1>5. CASE \E al \in Al : nx_fs_read_bytes(al)
  BY <1>5, <1>3 DEF nx_fs_read_bytes, Reads
<1>6. CASE \E al \in Al, h \in Str : nx_fs_read_to_str_a(h, al)
  BY <1>6, <1>3 DEF nx_fs_read_to_str_a, Reads
<1>7. ASSUME NEW t \in Literals, nx_fs_write(t) \/ nx_fs_append(t) PROVE FsIndInv'
  <2>1. t \in Seq(Char) /\ <<>> \in Seq(Chars)
    BY StrSizeAssumption
  <2>2. CASE nx_fs_write(t)
    BY <2>1, <2>2, OpensInv DEF nx_fs_write, Writes, Reads
  <2>3. CASE nx_fs_append(t)
    <3>1. file' \in Seq(Chars) /\ file' = IF file # NoFile THEN file ELSE <<>>
      BY <1>1, <2>1, <2>3 DEF nx_fs_append
    <3> QED
      BY <3>1, <2>1, <2>3, OpensInv DEF nx_fs_append, Writes, Reads
  <2> QED
    BY <1>7, <2>2, <2>3
<1> QED
  BY <1>2, <1>4, <1>5, <1>6, <1>7 DEF FsCall

-----------------------------------------------------------------------------
(* The steps of a call.                                                    *)

\* A step that ends the call and leaves strings or a heap that are right.
LEMMA ReturnsInv ==
  ASSUME FsIndInv, ~At("idle"), NEW st, Returns(st), IndInv',
         file' \in Seq(Chars)
  PROVE  FsIndInv'
<1>1. handles' = 0 /\ fs' = NoCall
  BY DEF Returns, FsIndInv, FileOK
<1> QED
  BY <1>1, NoCallFacts, IdleInv

\* A step inside a call that leaves the strings alone.
LEMMA QuietInv ==
  ASSUME FsIndInv, UNCHANGED <<str, heap>>, ret' \in {"ok", "oom", "io"}
  PROVE  IndInv' /\ alive' = alive
BY SameInv DEF FsIndInv, alive

LEMMA SizeInv == ASSUME FsIndInv, get_file_size \/ get_file_size_fails PROVE FsIndInv'
<1>1. /\ At("size") /\ ~At("idle") /\ UNCHANGED <<str, heap, file, bytes>> /\ bytes = Null
      /\ file \in Seq(Chars) /\ handles = 1 /\ fs \in Call /\ fs.op \in Reads \union {"file_size"}
      /\ file \in fs.seen /\ fs.done = 0
  BY DEF get_file_size, get_file_size_fails, At, FsIndInv, FileOK, ReadOK
<1>2. CASE \E st \in {"ok", "io"} : Returns(st)
  <2>1. PICK st \in {"ok", "io"} : Returns(st)
    BY <1>2
  <2>2. IndInv'
    BY <1>1, <2>1, QuietInv DEF Returns
  <2> QED
    BY <1>1, <2>1, <2>2, ReturnsInv
<1>3. CASE /\ fs.op # "file_size" /\ UNCHANGED <<handles, ret>>
           /\ fs' = [fs EXCEPT !.pc = "alloc", !.size = Len(file), !.was = file]
  <2>1. Len(file) \in Nat
    BY <1>1
  <2>2. /\ fs' \in Call /\ fs'.pc = "alloc" /\ fs'.size = Len(file) /\ fs'.op = fs.op
        /\ fs'.h = fs.h /\ fs'.al = fs.al /\ fs'.done = fs.done /\ fs'.was = file
        /\ fs'.seen = fs.seen
    BY <1>1, <1>3, <2>1 DEF Call
  <2>3. IndInv' /\ alive' = alive
    BY <1>1, <1>3, QuietInv DEF FsIndInv, IndInv, TypeOK
  <2>4. FileOK'
    BY <1>1, <1>3, <2>2 DEF FileOK, At
  <2>5. ReadOK'
    BY <1>1, <1>3, <2>2, <2>3 DEF ReadOK, At, FsIndInv
  <2>6. WriteOK'
    BY <2>2 DEF WriteOK, At
  <2> QED
    BY <2>2, <2>3, <2>4, <2>5, <2>6 DEF FsIndInv
<1> QED
  BY <1>2, <1>3 DEF get_file_size, get_file_size_fails

LEMMA AllocStrInv == ASSUME FsIndInv, alloc_str PROVE FsIndInv'
<1>1. /\ At("alloc") /\ ~At("idle") /\ UNCHANGED <<file, bytes>> /\ bytes = Null
      /\ file \in Seq(Chars) /\ handles = 1 /\ fs \in Call /\ fs.op = "read_to_str"
      /\ fs.h \in Str \ alive /\ fs.al \in Al /\ fs.size \in Nat /\ fs.done = 0
      /\ file \in fs.seen /\ fs.was \in fs.seen /\ fs.size = Len(fs.was)
      /\ new_p(fs.h, fs.size, fs.size, fs.al)
  BY DEF alloc_str, At, FsIndInv, FileOK, ReadOK, Call
<1>2. IndInv'
  BY <1>1, NewInv DEF FsIndInv
<1>3. CASE ret' # "ok" /\ fs' = NoCall /\ handles' = handles - 1
  BY <1>1, <1>2, <1>3, ReturnsInv DEF Returns
<1>4. CASE ret' = "ok" /\ Goes("fread") /\ UNCHANGED handles
  <2>1. PICK d : str' = Has(str, fs.h, set_fields(d, fs.size, fs.size, fs.al))
    BY <1>1, <1>4 DEF new_p, Created, Fails
  <2>2. fs.h \in alive' /\ str'[fs.h].len = fs.size /\ str'[fs.h].cap = fs.size
    BY <2>1 DEF Has, alive, set_fields
  <2>3. /\ fs' \in Call /\ fs'.pc = "fread" /\ fs'.size = fs.size /\ fs'.op = fs.op
        /\ fs'.h = fs.h /\ fs'.al = fs.al /\ fs'.done = 0 /\ fs'.was = fs.was
        /\ fs'.seen = fs.seen
    BY <1>1, <1>4 DEF Goes, Call
  <2>4. FileOK'
    BY <1>1, <1>4, <2>3 DEF FileOK, At
  <2>5. ReadOK'
    BY <1>1, <2>2, <2>3 DEF ReadOK, At, Reads, Stood
  <2>6. WriteOK'
    BY <2>3 DEF WriteOK, At
  <2> QED
    BY <1>2, <2>3, <2>4, <2>5, <2>6 DEF FsIndInv
<1> QED
  BY <1>3, <1>4 DEF alloc_str

LEMMA AllocBytesInv == ASSUME FsIndInv, alloc_bytes PROVE FsIndInv'
<1>1. /\ At("alloc") /\ ~At("idle") /\ UNCHANGED <<str, heap, file>>
      /\ file \in Seq(Chars) /\ handles = 1 /\ fs \in Call /\ fs.op = "read_bytes"
      /\ fs.size \in Nat /\ fs.done = 0
      /\ file \in fs.seen /\ fs.was \in fs.seen /\ fs.size = Len(fs.was)
  BY DEF alloc_bytes, At, FsIndInv, FileOK, ReadOK, Call
<1>2. CASE \E st \in {"ok", "oom"} : Returns(st)
  <2>1. PICK st \in {"ok", "oom"} : Returns(st)
    BY <1>2
  <2>2. IndInv'
    BY <1>1, <2>1, QuietInv DEF Returns
  <2> QED
    BY <1>1, <2>1, <2>2, ReturnsInv
<1>3. CASE /\ fs.size \in 1 .. ALLOC_MAX /\ bytes' = [i \in 0 .. fs.size - 1 |-> Uninit]
           /\ Goes("fread") /\ UNCHANGED <<handles, ret>>
  <2>1. IndInv' /\ alive' = alive
    BY <1>1, <1>3, QuietInv DEF FsIndInv, IndInv, TypeOK
  <2>2. /\ fs' \in Call /\ fs'.pc = "fread" /\ fs'.size = fs.size /\ fs'.op = fs.op
        /\ fs'.done = 0 /\ fs'.was = fs.was /\ fs'.seen = fs.seen
    BY <1>1, <1>3 DEF Goes, Call
  <2>3. bytes' \in [0 .. fs.size - 1 -> Cell]
    BY <1>3 DEF Cell
  <2>4. FileOK'
    BY <1>1, <1>3, <2>2 DEF FileOK, At
  <2>5. ReadOK'
    BY <1>1, <1>3, <2>1, <2>2, <2>3 DEF ReadOK, At, Reads, Stood
  <2>6. WriteOK'
    BY <2>2 DEF WriteOK, At
  <2> QED
    BY <2>1, <2>2, <2>4, <2>5, <2>6 DEF FsIndInv
<1> QED
  BY <1>2, <1>3 DEF alloc_bytes

\* What reaches the file is a sequence of characters.
LEMMA FlushedType ==
  ASSUME file \in Seq(Chars), fs.text \in Seq(Char), NEW j \in Nat, NEW k \in Nat,
         j <= k, k <= Len(fs.text)
  PROVE  Flushed(j, k) \in Seq(Chars)
<1> DEFINE t  == SubSeq(fs.text, j + 1, k)
           at == [i \in 1 .. j |-> IF i <= Len(file) THEN file[i] ELSE Zero]
           r  == SubSeq(file, k + 1, Len(file))
<1>1. Len(file) \in Nat /\ Len(fs.text) \in Nat
  OBVIOUS
<1>2. t \in Seq(Chars)
  <2>1. \A i \in j + 1 .. k : fs.text[i] \in Chars
    BY <1>1 DEF Chars
  <2> QED
    BY <2>1, SubSeqProperties
<1>3. r \in Seq(Chars)
  <2>1. \A i \in k + 1 .. Len(file) : file[i] \in Chars
    BY <1>1
  <2> QED
    BY <1>1, <2>1, SubSeqProperties
<1>4. at \in Seq(Chars)
  <2>1. \A i \in 1 .. j : (IF i <= Len(file) THEN file[i] ELSE Zero) \in Chars
    BY <1>1 DEF Chars
  <2> QED
    BY <2>1, IsASeq
<1>5. Flushed(j, k) = IF j = k THEN file
                      ELSE IF fs.op = "append" THEN file \o t ELSE (at \o t) \o r
  BY DEF Flushed
<1> HIDE DEF t, at, r
<1>6. file \o t \in Seq(Chars) /\ (at \o t) \o r \in Seq(Chars)
  BY <1>2, <1>3, <1>4, ConcatProperties
<1> QED
  BY <1>5, <1>6

\* Concatenation is associative.
LEMMA ConcatChars ==
  ASSUME NEW x \in Seq(Chars), NEW y \in Seq(Chars), NEW z \in Seq(Chars)
  PROVE  (x \o y) \o z = x \o (y \o z)
BY ConcatAssociative

\* In a file nobody else touches, what reaches it continues what is there.
LEMMA FlushedRight ==
  ASSUME NEW b \in Seq(Chars), fs.text \in Seq(Char), NEW j \in Nat, NEW k \in Nat,
         j <= k, k <= Len(fs.text), file = b \o SubSeq(fs.text, 1, j),
         fs.op # "append" => b = <<>>
  PROVE  Flushed(j, k) = b \o SubSeq(fs.text, 1, k)
<1>1. PICK u : u = fs.text
  OBVIOUS
<1>2. u \in Seq(Chars) /\ Len(u) \in Nat /\ j \in 0 .. Len(u) /\ k \in j .. Len(u)
  BY <1>1 DEF Chars
<1>3. PICK t1, t2, t : t1 = SubSeq(u, 1, j) /\ t2 = SubSeq(u, j + 1, k) /\ t = SubSeq(u, 1, k)
  OBVIOUS
<1>4. /\ t1 \in Seq(Chars) /\ Len(t1) = j /\ \A i \in 1 .. j : t1[i] = u[i]
      /\ t2 \in Seq(Chars) /\ t \in Seq(Chars)
  <2>1. (\A i \in 1 .. j : u[i] \in Chars) /\ (\A i \in j + 1 .. k : u[i] \in Chars)
        /\ \A i \in 1 .. k : u[i] \in Chars
    BY <1>2
  <2>2. t1 \in Seq(Chars) /\ Len(t1) = j /\ \A i \in 1 .. j : t1[i] = u[i]
    BY <1>2, <1>3, <2>1, SubSeqProperties
  <2>3. t2 \in Seq(Chars)
    BY <1>2, <1>3, <2>1, SubSeqProperties
  <2>4. t \in Seq(Chars)
    BY <1>2, <1>3, <2>1, SubSeqProperties
  <2> QED
    BY <2>2, <2>3, <2>4
<1>5. t1 \o t2 = t
  <2>1. 1 \in 1 .. Len(u) + 1 /\ j \in 1 - 1 .. Len(u) /\ k \in j .. Len(u)
    BY <1>2
  <2>2. SubSeq(u, 1, j) \o SubSeq(u, j + 1, k) = SubSeq(u, 1, k)
    BY <1>2, <2>1, ConcatAdjacentSubSeq
  <2> QED
    BY <1>3, <2>2
<1>6. CASE j = k
  BY <1>6 DEF Flushed
<1>7. CASE j # k /\ fs.op = "append"
  <2>1. Flushed(j, k) = (b \o t1) \o t2
    BY <1>1, <1>3, <1>7 DEF Flushed
  <2>2. (b \o t1) \o t2 = b \o (t1 \o t2)
    <3>1. b \in Seq(Chars) /\ t1 \in Seq(Chars) /\ t2 \in Seq(Chars)
      BY <1>4
    <3> QED
      BY <3>1, ConcatChars
  <2> QED
    BY <1>1, <1>3, <1>5, <2>1, <2>2
<1>8. CASE j # k /\ fs.op # "append"
  <2>1. b = <<>> /\ file = t1 /\ b \o t = t
    BY <1>1, <1>3, <1>4, <1>8, ConcatEmptySeq
  <2>2. [i \in 1 .. j |-> IF i <= Len(file) THEN file[i] ELSE Zero] = t1
    <3>1. \A i \in 1 .. j : (IF i <= Len(file) THEN file[i] ELSE Zero) = t1[i]
      BY <1>4, <2>1
    <3>2. t1 = [i \in 1 .. j |-> t1[i]]
      BY <1>4
    <3> QED
      BY <3>1, <3>2
  <2>3. SubSeq(file, k + 1, Len(file)) = <<>>
    BY <1>2, <1>4, <2>1, SubSeqEmpty
  <2>4. (t1 \o t2) \o <<>> = t
    BY <1>4, <1>5, ConcatEmptySeq
  <2>5. Flushed(j, k) = ([i \in 1 .. j |-> IF i <= Len(file) THEN file[i] ELSE Zero] \o t2)
                          \o SubSeq(file, k + 1, Len(file))
    BY <1>1, <1>3, <1>8 DEF Flushed
  <2> QED
    BY <1>1, <1>3, <2>1, <2>2, <2>3, <2>4, <2>5
<1> QED
  BY <1>6, <1>7, <1>8

\* A write under way, and what it finds.
LEMMA WriteFacts ==
  ASSUME FsIndInv, At("fwrite")
  PROVE  /\ ~At("idle") /\ file \in Seq(Chars) /\ fs \in Call /\ fs.text \in Seq(Char)
         /\ Len(fs.text) \in Nat /\ fs.done \in Nat /\ fs.out \in Nat
         /\ fs.out <= fs.done /\ fs.done <= Len(fs.text) /\ fs.seen = {} /\ fs.op \in Writes
         /\ BeforeWrite \in Seq(Chars) /\ (fs.op # "append" => BeforeWrite = <<>>)
         /\ fs.changed \/ file = BeforeWrite \o SubSeq(fs.text, 1, fs.out)
<1>1. ~At("idle") /\ file \in Seq(Chars) /\ fs \in Call
  BY DEF At, FsIndInv, FileOK
<1>2. fs.text \in Seq(Char) /\ fs.done \in Nat /\ fs.out \in Nat /\ fs.was \in Seq(Chars) \union {NoFile}
  BY <1>1 DEF Call
<1>3. Len(fs.text) \in Nat
  BY <1>2
<1>4. BeforeWrite \in Seq(Chars) /\ (fs.op # "append" => BeforeWrite = <<>>)
  BY <1>2 DEF BeforeWrite
<1> QED
  BY <1>1, <1>2, <1>3, <1>4 DEF FsIndInv, WriteOK

LEMMA FwriteInv == ASSUME FsIndInv, fwrite_part PROVE FsIndInv'
<1>1. At("fwrite") /\ UNCHANGED <<str, heap, ret, handles, bytes>>
  BY DEF fwrite_part
<1>0. PICK n \in 1 .. Len(fs.text) - fs.done : \E k \in fs.out .. fs.done + n :
        file' = Flushed(fs.out, k) /\ fs' = [fs EXCEPT !.done = @ + n, !.out = k]
  BY DEF fwrite_part
<1>2. PICK k \in fs.out .. fs.done + n :
        file' = Flushed(fs.out, k) /\ fs' = [fs EXCEPT !.done = @ + n, !.out = k]
  BY <1>0
<1>3. /\ n \in Nat /\ k \in Nat /\ fs.out <= k /\ k <= fs.done + n /\ fs.done + n <= Len(fs.text)
      /\ fs.done + n \in Nat /\ k <= Len(fs.text)
  BY <1>1, <1>2, WriteFacts
<1>4. /\ fs' \in Call /\ fs'.pc = "fwrite" /\ fs'.done = fs.done + n /\ fs'.out = k
      /\ fs'.text = fs.text /\ fs'.op = fs.op /\ fs'.was = fs.was /\ fs'.changed = fs.changed
      /\ fs'.h = fs.h /\ fs'.al = fs.al /\ fs'.seen = fs.seen
  BY <1>1, <1>2, <1>3, WriteFacts DEF Call, At
<1>5. IndInv' /\ alive' = alive
  BY <1>1, QuietInv DEF FsIndInv, IndInv, TypeOK
<1>6. FileOK'
  <2>1. file' \in Seq(Chars)
    BY <1>1, <1>2, <1>3, WriteFacts, FlushedType
  <2> QED
    BY <1>1, <1>4, <2>1 DEF FsIndInv, FileOK, At
<1>7. ReadOK'
  BY <1>1, <1>4, <1>5 DEF FsIndInv, ReadOK, At
<1>8. WriteOK'
  <2>1. ASSUME ~fs.changed PROVE file' = BeforeWrite \o SubSeq(fs.text, 1, k)
    BY <1>1, <1>2, <1>3, <2>1, WriteFacts, FlushedRight
  <2>2. BeforeWrite' = BeforeWrite
    BY <1>4 DEF BeforeWrite
  <2> QED
    BY <1>1, <1>3, <1>4, <2>1, <2>2, WriteFacts DEF WriteOK
<1> QED
  BY <1>4, <1>5, <1>6, <1>7, <1>8 DEF FsIndInv

\* However much of what is left fclose writes.
LEMMA ClosesFacts ==
  ASSUME FsIndInv, fclose_after_write \/ fclose_loses
  PROVE  /\ At("fwrite") /\ ~At("idle") /\ UNCHANGED <<str, heap, bytes>>
         /\ \E st \in {"ok", "io"} : Returns(st)
         /\ ret' = "ok" => fs.done = Len(fs.text)
         /\ \E k \in fs.out .. fs.done :
              /\ file' = Flushed(fs.out, k) /\ (fclose_after_write /\ ~fclose_loses => k = fs.done)
<1>1. PICK k \in fs.out .. fs.done : Closes(k) /\ (fclose_after_write /\ ~fclose_loses => k = fs.done)
  <2>1. At("fwrite")
    BY DEF fclose_after_write, fclose_loses, Closes
  <2>2. CASE fclose_loses
    <3>1. PICK k \in fs.out .. fs.done - 1 : Closes(k)
      BY <2>2 DEF fclose_loses
    <3>2. k \in fs.out .. fs.done
      BY <2>1, <3>1, WriteFacts
    <3> QED
      BY <2>2, <3>1, <3>2
  <2>3. CASE ~fclose_loses
    <3>1. Closes(fs.done) /\ fs.done \in fs.out .. fs.done
      BY <2>1, <2>3, WriteFacts DEF fclose_after_write
    <3> QED
      BY <3>1
  <2> QED
    BY <2>2, <2>3
<1>2. /\ At("fwrite") /\ UNCHANGED <<str, heap, bytes>> /\ file' = Flushed(fs.out, k)
      /\ Returns(IF fs.done = Len(fs.text) THEN "ok" ELSE "io")
  BY <1>1 DEF Closes
<1>3. ret' = "ok" => fs.done = Len(fs.text)
  BY <1>2 DEF Returns
<1> QED
  BY <1>1, <1>2, <1>3, WriteFacts

LEMMA FcloseInv == ASSUME FsIndInv, fclose_after_write \/ fclose_loses PROVE FsIndInv'
<1>1. At("fwrite") /\ ~At("idle") /\ UNCHANGED <<str, heap, bytes>>
  BY ClosesFacts
<1>2. PICK st \in {"ok", "io"} : Returns(st)
  BY ClosesFacts
<1>3. IndInv'
  BY <1>1, <1>2, QuietInv DEF Returns
<1>4. PICK k \in fs.out .. fs.done : file' = Flushed(fs.out, k)
  BY ClosesFacts
<1>5. k \in Nat /\ fs.out <= k /\ k <= Len(fs.text)
  BY <1>1, <1>4, WriteFacts
<1>6. file' \in Seq(Chars)
  BY <1>1, <1>4, <1>5, WriteFacts, FlushedType
<1> QED
  BY <1>1, <1>2, <1>3, <1>6, ReturnsInv

-----------------------------------------------------------------------------
(* The bytes arrive, or too few of them.                                   *)

\* The n bytes of f behind the first k are copied over those of c.
LEMMA PartFacts ==
  ASSUME NEW f \in Seq(Chars), NEW k \in Nat, NEW n \in Nat, k + n <= Len(f),
         NEW w \in Int, NEW c \in [0 .. w -> Cell], NEW d,
         d = memcpy(c, k, chars(SubSeq(f, k + 1, k + n)), n)
  PROVE  /\ d \in [0 .. w -> Cell]
         /\ \A i \in 0 .. w : IF k <= i /\ i < k + n THEN d[i] = f[i + 1] /\ d[i] # Uninit
                                                     ELSE d[i] = c[i]
<1> DEFINE t == SubSeq(f, k + 1, k + n)
           s == chars(t)
<1>1. Len(f) \in Nat
  OBVIOUS
<1>2. Len(t) = n /\ \A j \in 1 .. n : t[j] = f[k + j] /\ f[k + j] \in Chars
  <2>1. \A i \in k + 1 .. k + n : f[i] \in Chars
    BY <1>1
  <2>2. Len(t) = n /\ \A i \in 1 .. n : t[i] = f[k + i]
    <3>1. (k + n) - (k + 1) + 1 = n /\ (k + 1 <= k + n <=> n # 0) /\ k + 1 \in Int /\ k + n \in Int
      OBVIOUS
    <3>2. /\ Len(t) = IF k + 1 <= k + n THEN (k + n) - (k + 1) + 1 ELSE 0
          /\ \A i \in 1 .. (k + n) - (k + 1) + 1 : t[i] = f[(k + 1) + i - 1]
      BY <2>1, <3>1, SubSeqProperties
    <3>3. \A i \in 1 .. n : (k + 1) + i - 1 = k + i
      OBVIOUS
    <3> HIDE DEF t
    <3> QED
      BY <3>1, <3>2, <3>3
  <2>3. \A i \in 1 .. n : k + i \in k + 1 .. k + n
    OBVIOUS
  <2> QED
    BY <2>1, <2>2, <2>3
<1> HIDE DEF t
<1>3. \A i \in Int : k <= i /\ i < k + n => s[i - k] = f[i + 1] /\ f[i + 1] \in Chars
  <2> SUFFICES ASSUME NEW i \in Int, k <= i, i < k + n
               PROVE  s[i - k] = f[i + 1] /\ f[i + 1] \in Chars
    OBVIOUS
  <2>1. PICK j \in 1 .. n : j = i - k + 1
    OBVIOUS
  <2>2. i - k \in 0 .. n - 1 /\ (i - k) + 1 = j /\ k + j = i + 1
    BY <2>1
  <2>3. s[i - k] = t[j]
    BY <1>2, <2>2 DEF chars
  <2> QED
    BY <1>2, <2>1, <2>2, <2>3
<1> HIDE DEF s
<1>4. \A x \in Chars : x \in Cell /\ x # Uninit
  BY CharAssumption DEF Chars, Cell
<1>5. /\ DOMAIN d = 0 .. w /\ d = [i \in 0 .. w |-> d[i]]
      /\ \A i \in 0 .. w : d[i] = IF k <= i /\ i < k + n THEN s[i - k] ELSE c[i]
  BY DEF memcpy, s, t
<1>6. \A i \in 0 .. w : IF k <= i /\ i < k + n THEN d[i] = f[i + 1] /\ d[i] # Uninit /\ d[i] \in Cell
                                               ELSE d[i] = c[i] /\ d[i] \in Cell
  BY <1>3, <1>4, <1>5
<1>7. d \in [0 .. w -> Cell]
  BY <1>5, <1>6
<1> QED
  BY <1>6, <1>7

\* What has come and the part that comes all stood in the file.
LEMMA StoodMore ==
  ASSUME NEW S, NEW f \in S, NEW k \in Nat, NEW n \in Nat, Len(f) \in Nat, k + n <= Len(f),
         NEW c, NEW d, Stood(c, k, S), NEW w \in Int, k + n - 1 <= w,
         \A i \in 0 .. w : IF k <= i /\ i < k + n THEN d[i] = f[i + 1] ELSE d[i] = c[i]
  PROVE  Stood(d, k + n, S)
<1> SUFFICES ASSUME NEW i \in 0 .. (k + n) - 1
             PROVE  \E g \in S : i + 1 <= Len(g) /\ d[i] = g[i + 1]
  BY DEF Stood
<1>1. i \in 0 .. w
  OBVIOUS
<1>2. CASE k <= i
  BY <1>1, <1>2
<1>3. CASE ~(k <= i)
  <2>1. i \in 0 .. k - 1 /\ d[i] = c[i]
    BY <1>1, <1>3
  <2> QED
    BY <2>1 DEF Stood
<1> QED
  BY <1>2, <1>3

\* Where one read of fread comes from and goes to.
LEMMA ReadFacts ==
  ASSUME FsIndInv, fread_part
  PROVE  /\ At("fread") /\ ~At("idle") /\ UNCHANGED <<ret, file, handles>>
         /\ file \in Seq(Chars) /\ fs \in Call /\ fs.op \in Reads /\ fs.size \in Nat /\ fs.done \in Nat
         /\ \E f \in fs.seen, n \in Nat \ {0} :
              /\ f \in Seq(Chars) /\ Len(f) \in Nat
              /\ fs.done + n <= fs.size /\ fs.done + n <= Len(f) /\ Filled(f, n)
              /\ fs' = [fs EXCEPT !.done = @ + n]
<1>1. /\ At("fread") /\ ~At("idle") /\ UNCHANGED <<ret, file, handles>> /\ fs \in Call
      /\ file \in Seq(Chars) /\ fs.op \in Reads /\ file \in fs.seen /\ fs.was \in fs.seen
  BY DEF fread_part, At, FsIndInv, FileOK, ReadOK
<1>2. fs.size \in Nat /\ fs.done \in Nat /\ fs.seen \in SUBSET Seq(Chars)
  BY <1>1 DEF Call
<1>3. PICK f \in {file} \union {g \in {fs.was} : fs.done = 0}, n \in 1 .. fs.size - fs.done :
        /\ fs.done + n <= Len(f) /\ Filled(f, n) /\ fs' = [fs EXCEPT !.done = @ + n]
  BY DEF fread_part
<1>4. f \in fs.seen /\ n \in Nat \ {0} /\ fs.done + n <= fs.size
  BY <1>1, <1>2, <1>3
<1>5. f \in Seq(Chars) /\ Len(f) \in Nat
  BY <1>2, <1>4
<1> QED
  BY <1>1, <1>2, <1>3, <1>4, <1>5

\* A part arrives in the buffer of the string.
LEMMA FilledInv ==
  ASSUME FsIndInv, At("fread"), fs.op = "read_to_str", ret' \in {"ok", "oom", "io"},
         NEW f \in Seq(Chars), NEW n \in Nat \ {0},
         fs.done + n <= fs.size, fs.done + n <= Len(f), Filled(f, n)
  PROVE  /\ IndInv' /\ UNCHANGED <<str, bytes>>
         /\ \A i \in 0 .. fs.size : IF fs.done <= i /\ i < fs.done + n
                                    THEN CellsIn(heap', str[fs.h])[i] = f[i + 1]
                                    ELSE CellsIn(heap', str[fs.h])[i] = cells(fs.h)[i]
         /\ \A g \in alive \ {fs.h} : CellsIn(heap', str[g]) = cells(g)
<1>1. PICK h \in alive, m \in Nat, k \in Nat : h = fs.h /\ m = fs.size /\ k = fs.done
  BY DEF FsIndInv, ReadOK, Call
<1>2. PICK v, c, s : /\ v = str[h] /\ c = cells(h)
                     /\ s = chars(SubSeq(f, k + 1, k + n))
  OBVIOUS
<1>3. /\ IndInv /\ v.len = m /\ v.cap = m /\ str' = str /\ bytes' = bytes
      /\ heap' = [heap EXCEPT ![v.data].cells = memcpy(@, k, s, n)]
      /\ k + n <= m /\ k + n <= Len(f)
  BY <1>1, <1>2 DEF Filled, FsIndInv, ReadOK
<1>4. /\ c \in [Room(v) -> Cell] /\ v \in Struct /\ Fits(v, heap, h) /\ Ended(v, heap)
      /\ v.data = Null => v.len = 0
  BY <1>2, <1>3, CellsFacts
<1>5. /\ v.data # Null /\ v.data \in DOMAIN heap /\ m # 0
      /\ heap[v.data] \in Buffer(0 .. m) /\ heap[v.data].al = v.al /\ heap[v.data].cells = c
      /\ c \in [0 .. m -> Cell] /\ c[m] = Zero /\ Known(c, m)
  <2>1. v.data # Null /\ m # 0
    BY <1>3, <1>4
  <2> QED
    BY <1>2, <1>3, <1>4, <2>1 DEF Fits, Ended, Room, cells, CellsIn
<1>6. PICK d : d = memcpy(c, k, s, n)
  OBVIOUS
<1>7. /\ d \in [0 .. m -> Cell]
      /\ \A i \in 0 .. m : IF k <= i /\ i < k + n THEN d[i] = f[i + 1] /\ d[i] # Uninit
                                                  ELSE d[i] = c[i]
  BY <1>2, <1>3, <1>5, <1>6, PartFacts
<1>8. d[m] = Zero /\ Known(d, m)
  <2>1. m \in 0 .. m /\ \A i \in 0 .. m - 1 : i \in 0 .. m
    OBVIOUS
  <2>2. ~(k <= m /\ m < k + n)
    BY <1>3
  <2> QED
    BY <1>5, <1>7, <2>1, <2>2 DEF Known
<1>9. heap' = [heap EXCEPT ![v.data].cells = d]
  BY <1>3, <1>5, <1>6
<1>10. /\ DOMAIN heap' = DOMAIN heap /\ heap' = [b \in DOMAIN heap' |-> heap'[b]]
       /\ heap'[v.data] = [heap[v.data] EXCEPT !.cells = d]
       /\ \A b \in DOMAIN heap : b # v.data => heap'[b] = heap[b]
  BY <1>4, <1>5, <1>9 DEF Fits
<1>11. /\ heap'[v.data] \in Buffer(0 .. v.cap) /\ heap'[v.data].al = v.al
       /\ heap'[v.data].cells = d
  BY <1>3, <1>5, <1>7, <1>10 DEF Buffer
<1>12. Fits(v, heap', h)
  BY <1>4, <1>10, <1>11 DEF Fits
<1>13. Ended(v, heap')
  BY <1>3, <1>5, <1>8, <1>11 DEF Ended, CellsIn
<1>14. str' = Has(str, h, v) /\ h \in Str
  <2>1. [str EXCEPT ![h] = v] = Has(str, h, v) /\ [str EXCEPT ![h] = v] = str
    BY <1>2, <1>3, HasExcept DEF IndInv, TypeOK
  <2> QED
    BY <1>3, <2>1 DEF IndInv, TypeOK
<1>15. IndInv'
  BY <1>3, <1>12, <1>13, <1>14, OneString
<1>16. CellsIn(heap', v) = d
  BY <1>5, <1>11 DEF CellsIn
<1>17. ASSUME NEW g \in alive \ {h} PROVE CellsIn(heap', str[g]) = cells(g)
  <2>1. CASE str[g].data = Null
    BY <2>1 DEF cells, CellsIn
  <2>2. CASE str[g].data # Null
    <3>1. str[g].data \in DOMAIN heap /\ str[g].data # v.data
      BY <1>2, <1>3, <2>2 DEF IndInv, OneOwner
    <3>2. heap'[str[g].data] = heap[str[g].data]
      BY <1>10, <3>1
    <3> QED
      BY <2>2, <3>2 DEF cells, CellsIn
  <2> QED
    BY <2>1, <2>2
<1>18. \A i \in 0 .. m : IF k <= i /\ i < k + n THEN CellsIn(heap', v)[i] = f[i + 1]
                                                ELSE CellsIn(heap', v)[i] = c[i]
  BY <1>7, <1>16
<1> QED
  BY <1>1, <1>2, <1>3, <1>15, <1>17, <1>18

LEMMA FreadPartInv == ASSUME FsIndInv, fread_part PROVE FsIndInv'
<1>1. PICK f \in fs.seen, n \in Nat \ {0} :
        /\ f \in Seq(Chars) /\ Len(f) \in Nat
        /\ fs.done + n <= fs.size /\ fs.done + n <= Len(f) /\ Filled(f, n)
        /\ fs' = [fs EXCEPT !.done = @ + n]
  BY ReadFacts
<1>2. /\ At("fread") /\ ~At("idle") /\ UNCHANGED <<ret, file, handles>> /\ file \in Seq(Chars)
      /\ fs \in Call /\ fs.op \in Reads /\ fs.size \in Nat /\ fs.done \in Nat /\ IndInv
  BY ReadFacts DEF FsIndInv
<1>3. fs.done + n \in Nat
  BY <1>2
<1>4. /\ fs' \in Call /\ fs'.pc = "fread" /\ fs'.done = fs.done + n /\ fs'.op = fs.op
      /\ fs'.h = fs.h /\ fs'.al = fs.al /\ fs'.size = fs.size /\ fs'.was = fs.was
      /\ fs'.seen = fs.seen
  BY <1>1, <1>2, <1>3 DEF Call, At
<1>5. FileOK'
  BY <1>2, <1>4 DEF FileOK, FsIndInv, At
<1>6. WriteOK'
  BY <1>4 DEF WriteOK, At
<1>7. CASE fs.op = "read_to_str"
  <2>1. /\ IndInv' /\ UNCHANGED <<str, bytes>>
        /\ \A i \in 0 .. fs.size : IF fs.done <= i /\ i < fs.done + n
                                   THEN CellsIn(heap', str[fs.h])[i] = f[i + 1]
                                   ELSE CellsIn(heap', str[fs.h])[i] = cells(fs.h)[i]
    BY <1>1, <1>2, <1>7, FilledInv DEF IndInv, TypeOK
  <2>2. Stood(CellsIn(heap', str[fs.h]), fs.done + n, fs.seen)
    <3>1. Stood(cells(fs.h), fs.done, fs.seen) /\ fs.done + n - 1 <= fs.size /\ fs.size \in Int
      BY <1>1, <1>2, <1>7 DEF FsIndInv, ReadOK
    <3> QED
      BY <1>1, <1>2, <2>1, <3>1, StoodMore
  <2>3. alive' = alive /\ CellsIn(heap', str[fs.h]) = cells(fs.h)'
    BY <1>4, <2>1 DEF alive, cells
  <2>4. ReadOK'
    BY <1>1, <1>2, <1>4, <1>7, <2>1, <2>2, <2>3 DEF FsIndInv, ReadOK, At
  <2> QED
    BY <1>4, <1>5, <1>6, <2>1, <2>4 DEF FsIndInv
<1>8. CASE fs.op = "read_bytes"
  <2>1. /\ UNCHANGED <<str, heap>> /\ fs.size \in 1 .. ALLOC_MAX
        /\ bytes \in [0 .. fs.size - 1 -> Cell] /\ Stood(bytes, fs.done, fs.seen)
        /\ bytes' = memcpy(bytes, fs.done, chars(SubSeq(f, fs.done + 1, fs.done + n)), n)
    BY <1>1, <1>2, <1>8 DEF Filled, FsIndInv, ReadOK, Strings
  <2>2. IndInv' /\ alive' = alive
    BY <1>2, <2>1, QuietInv DEF IndInv, TypeOK
  <2>3. PICK w \in Int : w = fs.size - 1
    BY <1>2
  <2>4. /\ bytes' \in [0 .. w -> Cell]
        /\ \A i \in 0 .. w : IF fs.done <= i /\ i < fs.done + n
                             THEN bytes'[i] = f[i + 1] /\ bytes'[i] # Uninit ELSE bytes'[i] = bytes[i]
    BY <1>1, <1>2, <2>1, <2>3, PartFacts
  <2>5. Stood(bytes', fs.done + n, fs.seen)
    <3>1. fs.done + n - 1 <= w /\ Len(f) \in Nat
      BY <1>1, <1>2, <2>3
    <3>2. PICK c, d : c = bytes /\ d = bytes'
      OBVIOUS
    <3>3. \A i \in 0 .. w : IF fs.done <= i /\ i < fs.done + n THEN d[i] = f[i + 1] ELSE d[i] = c[i]
      BY <2>4, <3>2
    <3>4. Stood(c, fs.done, fs.seen)
      BY <2>1, <3>2
    <3>5. Stood(d, fs.done + n, fs.seen)
      BY <1>1, <1>2, <3>1, <3>3, <3>4, StoodMore
    <3> QED
      BY <3>2, <3>5
  <2>6. ReadOK'
    BY <1>1, <1>2, <1>4, <1>8, <2>1, <2>2, <2>3, <2>4, <2>5 DEF FsIndInv, ReadOK, At
  <2> QED
    BY <1>4, <1>5, <1>6, <2>2, <2>6 DEF FsIndInv
<1> QED
  BY <1>2, <1>7, <1>8 DEF Reads

LEMMA FreadEndsInv == ASSUME FsIndInv, fread_ends PROVE FsIndInv'
<1>1. /\ At("fread") /\ ~At("idle") /\ UNCHANGED <<str, heap, bytes, file>>
      /\ Returns("ok") /\ ret' = "ok" /\ file \in Seq(Chars)
  BY DEF fread_ends, At, Returns, FsIndInv, FileOK
<1>2. IndInv'
  BY <1>1, QuietInv
<1> QED
  BY <1>1, <1>2, ReturnsInv

LEMMA FreadShortInv == ASSUME FsIndInv, fread_short PROVE FsIndInv'
<1>1. /\ At("fread") /\ ~At("idle") /\ Returns("io") /\ ret' = "io" /\ file' = file
  BY DEF fread_short, At, Returns
<1>2. file \in Seq(Chars) /\ IndInv
  BY <1>1 DEF FsIndInv, FileOK
<1>3. CASE fs.op = "read_to_str"
  <2>1. /\ fs.h \in alive /\ heap' = nx_al_dealloc(heap, str[fs.h].data)
        /\ str' = Lacks(str, fs.h)
    BY <1>1, <1>3 DEF fread_short, FsIndInv, ReadOK
  <2> QED
    BY <1>1, <1>2, <2>1, DropInv, ReturnsInv
<1>4. CASE fs.op # "read_to_str"
  <2>1. IndInv'
    BY <1>1, <1>4, QuietInv DEF fread_short, Strings
  <2> QED
    BY <1>1, <1>2, <2>1, ReturnsInv
<1> QED
  BY <1>3, <1>4

-----------------------------------------------------------------------------
(* Other processes, and the whole.                                         *)

LEMMA OthersInv == ASSUME FsIndInv, Others PROVE FsIndInv'
<1>1. UNCHANGED <<str, heap, ret, handles, bytes>>
  BY DEF Others
<1>2. IndInv' /\ alive' = alive
  BY <1>1, QuietInv DEF FsIndInv, IndInv, TypeOK
<1>3. CASE At("idle")
  <2>1. fs \in Call /\ fs.seen = {}
    BY <1>3 DEF FsIndInv, FileOK
  <2>2. /\ fs' \in Call /\ fs'.pc = fs.pc /\ fs'.op = fs.op /\ fs'.h = fs.h
        /\ fs'.al = fs.al /\ fs'.seen = {}
    BY <1>3, <2>1 DEF Others, Call
  <2>3. file' \in Seq(Chars) \union {NoFile}
    BY ContentsAssumption DEF Others, Chars
  <2> QED
    BY <1>1, <1>2, <1>3, <2>2, <2>3 DEF FsIndInv, FileOK, ReadOK, WriteOK, At
<1>4. CASE ~At("idle")
  <2>1. handles = 1 /\ fs \in Call
    BY <1>4 DEF FsIndInv, FileOK
  <2>2. file' \in Seq(Chars)
    BY <2>1, ContentsAssumption DEF Others, Chars
  <2>3. /\ fs' \in Call /\ fs'.pc = fs.pc /\ fs'.op = fs.op /\ fs'.h = fs.h
        /\ fs'.al = fs.al /\ fs'.size = fs.size /\ fs'.text = fs.text /\ fs'.done = fs.done
        /\ fs'.out = fs.out /\ fs'.was = fs.was
        /\ fs.seen # {} => fs'.seen = fs.seen \union {file'}
        /\ fs.seen = {} => fs'.seen = {} /\ fs'.changed
    <3>1. CASE fs.seen # {}
      <4>1. fs.seen \union {file'} \in SUBSET Seq(Chars)
        BY <2>1, <2>2 DEF Call
      <4> QED
        BY <2>1, <3>1, <4>1 DEF Others, Call
    <3>2. CASE fs.seen = {}
      BY <1>4, <2>1, <3>2 DEF Others, Call
    <3> QED
      BY <3>1, <3>2
  <2>4. FileOK'
    BY <1>1, <1>4, <2>1, <2>2, <2>3 DEF FileOK, At
  <2>5. ReadOK'
    <3>1. CASE At("size") \/ At("alloc") \/ At("fread")
      <4>1. file \in fs.seen /\ fs'.seen = fs.seen \union {file'}
        BY <2>3, <3>1 DEF FsIndInv, ReadOK
      <4>2. \A c, n : Stood(c, n, fs.seen) => Stood(c, n, fs'.seen)
        BY <4>1 DEF Stood
      <4>3. cells(fs.h)' = cells(fs.h)
        BY <1>1, <2>3 DEF cells
      <4> QED
        BY <1>1, <1>2, <2>3, <4>1, <4>2, <4>3 DEF FsIndInv, ReadOK, At
    <3>2. CASE ~(At("size") \/ At("alloc") \/ At("fread"))
      BY <1>1, <1>2, <2>3, <3>2 DEF FsIndInv, ReadOK, At
    <3> QED
      BY <3>1, <3>2
  <2>6. WriteOK'
    BY <2>3 DEF FsIndInv, WriteOK, At
  <2> QED
    BY <1>2, <2>3, <2>4, <2>5, <2>6 DEF FsIndInv
<1> QED
  BY <1>3, <1>4

LEMMA FsInitInv == FsInit => FsIndInv
<1> SUFFICES ASSUME FsInit PROVE FsIndInv
  OBVIOUS
<1>1. IndInv
  BY StrInit DEF FsInit
<1> QED
  BY <1>1, NoCallFacts DEF FsInit, FsIndInv, FileOK, ReadOK, WriteOK, At, Reads

LEMMA FsNextInv == FsIndInv /\ [FsNext]_vars => FsIndInv'
<1> SUFFICES ASSUME FsIndInv, [FsNext]_vars PROVE FsIndInv'
  OBVIOUS
<1>1. CASE At("idle") /\ bytes = Null /\ Calls /\ UNCHANGED <<file, handles, bytes, fs>>
  <2>1. IndInv'
    BY <1>1, CallsInv DEF FsIndInv
  <2> QED
    BY <1>1, <2>1 DEF FsIndInv, FileOK, ReadOK, WriteOK, At, BeforeWrite
<1>2. CASE At("idle") /\ bytes = Null /\ FsCall
  BY <1>2, FsCallInv
<1>3. CASE FsStep
  BY <1>3, SizeInv, AllocStrInv, AllocBytesInv, FreadPartInv, FreadEndsInv, FreadShortInv,
     FwriteInv, FcloseInv DEF FsStep
<1>4. CASE free_bytes
  <2>1. UNCHANGED <<str, heap, ret, file, handles, fs>> /\ At("idle")
    BY <1>4 DEF free_bytes
  <2>2. IndInv' /\ alive' = alive
    BY <2>1, QuietInv DEF FsIndInv, IndInv, TypeOK
  <2> QED
    BY <2>1, <2>2 DEF FsIndInv, FileOK, ReadOK, WriteOK, At, BeforeWrite
<1>5. CASE Others
  BY <1>5, OthersInv
<1>6. CASE UNCHANGED vars
  <2>1. UNCHANGED <<str, heap, ret, file, handles, bytes, fs>>
    BY <1>6 DEF vars
  <2>2. IndInv' /\ alive' = alive
    BY <2>1, QuietInv DEF FsIndInv, IndInv, TypeOK
  <2>3. cells(fs.h)' = cells(fs.h) /\ BeforeWrite' = BeforeWrite
    BY <2>1 DEF cells, BeforeWrite
  <2> QED
    BY <2>1, <2>2, <2>3 DEF FsIndInv, FileOK, ReadOK, WriteOK, At
<1> QED
  BY <1>1, <1>2, <1>3, <1>4, <1>5, <1>6 DEF FsNext

THEOREM FsIndInvHolds == FsSpec => []FsIndInv
BY FsInitInv, FsNextInv, PTL DEF FsSpec

\* Each struct and each buffer has its type (str.c, fs.c).
THEOREM TypeCorrect == FsSpec => []TypeOK
<1>1. FsIndInv => TypeOK
  BY DEF FsIndInv, IndInv
<1> QED
  BY <1>1, FsIndInvHolds, PTL

\* Whatever calls are made, whichever allocation or stdio call fails, every
\* buffer has exactly one owner and goes back to where it came from (str.c;
\* the string of a failed nx_fs_read_to_str_a).
THEOREM OneOwnerHolds == FsSpec => []OneOwner
<1>1. FsIndInv => OneOwner
  BY DEF FsIndInv, IndInv
<1> QED
  BY <1>1, FsIndInvHolds, PTL

\* Every string with a buffer has its terminator, and no character before it
\* is one nobody wrote (str.h: "Always maintained"), also while fread fills it.
THEOREM TerminatedHolds == FsSpec => []Terminated
<1>1. FsIndInv => Terminated
  BY DEF FsIndInv, IndInv
<1> QED
  BY <1>1, FsIndInvHolds, PTL

-----------------------------------------------------------------------------
(* How a call ends.                                                        *)

\* The steps that end a call.
LEMMA EndingSteps ==
  ASSUME FsIndInv, [FsNext]_vars, Ends
  PROVE  /\ handles' = 0 /\ ~At("idle")
         /\ \/ get_file_size \/ get_file_size_fails \/ alloc_str \/ alloc_bytes
            \/ fread_ends \/ fread_short \/ fclose_after_write \/ fclose_loses
<1>1. ~At("idle") /\ At("idle")'
  BY DEF Ends
<1>2. handles' = 0
  BY <1>1, FsNextInv DEF FsIndInv, FileOK
<1>3. ~(At("idle") /\ bytes = Null /\ (Calls \/ FsCall)) /\ ~free_bytes
  BY <1>1 DEF free_bytes
<1>4. ~Others /\ ~UNCHANGED vars
  <2>1. UNCHANGED vars => ~At("idle")'
    BY <1>1 DEF vars, At
  <2>2. Others => ~At("idle")'
    <3>1. fs \in Call
      BY DEF FsIndInv
    <3> QED
      BY <1>1, <3>1 DEF Others, At, Call
  <2> QED
    BY <1>1, <2>1, <2>2
<1>5. ~fwrite_part /\ ~fread_part
  <2>1. fs \in Call
    BY DEF FsIndInv
  <2> QED
    BY <1>1, <2>1 DEF fwrite_part, fread_part, At, Call
<1> QED
  BY <1>1, <1>2, <1>3, <1>4, <1>5 DEF FsNext, FsStep

\* fs.c: whichever step fails, a call that ends has closed the file, and a
\* read that fails has left neither a string nor a buffer behind.
THEOREM FsCleansUpHolds == FsSpec => FsCleansUp
<1> DEFINE Clean == Ends => /\ handles' = 0
                            /\ ret' # "ok" /\ fs.op = "read_to_str" => fs.h \notin alive'
                            /\ ret' # "ok" /\ fs.op = "read_bytes" => bytes' = Null
<1>1. FsIndInv /\ [FsNext]_vars => [Clean]_vars
  <2> SUFFICES ASSUME FsIndInv, [FsNext]_vars, Ends
               PROVE  /\ handles' = 0
                      /\ ret' # "ok" /\ fs.op = "read_to_str" => fs.h \notin alive'
                      /\ ret' # "ok" /\ fs.op = "read_bytes" => bytes' = Null
    OBVIOUS
  <2>1. handles' = 0
    BY EndingSteps
  <2>2. ASSUME ret' # "ok", fs.op = "read_to_str" PROVE fs.h \notin alive'
    <3>1. CASE get_file_size \/ get_file_size_fails
      BY <2>2, <3>1 DEF get_file_size, get_file_size_fails, FsIndInv, ReadOK, alive
    <3>2. CASE alloc_str
      BY <2>2, <3>2 DEF alloc_str, new_p, Created, Fails, FsIndInv, ReadOK, alive
    <3>3. CASE fread_short
      BY <2>2, <3>3 DEF fread_short, Lacks, alive
    <3>4. CASE fread_ends \/ alloc_bytes
      BY <2>2, <3>4 DEF fread_ends, alloc_bytes, Returns
    <3>5. CASE fclose_after_write \/ fclose_loses
      BY <2>2, <3>5, ClosesFacts, WriteFacts DEF Writes
    <3> QED
      BY <3>1, <3>2, <3>3, <3>4, <3>5, EndingSteps
  <2>3. ASSUME ret' # "ok", fs.op = "read_bytes" PROVE bytes' = Null
    <3>1. CASE get_file_size \/ get_file_size_fails
      BY <3>1 DEF get_file_size, get_file_size_fails, FsIndInv, ReadOK, At
    <3>2. CASE alloc_bytes
      <4>1. ~At("fread") /\ ~At("idle")
        BY <3>2 DEF alloc_bytes, At
      <4>2. fs'.pc = "idle"
        BY DEF Ends, At
      <4>3. UNCHANGED bytes
        <5>1. fs \in Call
          BY DEF FsIndInv
        <5> QED
          BY <3>2, <4>2, <5>1 DEF alloc_bytes, Goes, Call
      <4> QED
        BY <4>1, <4>3 DEF FsIndInv, ReadOK
    <3>3. CASE fread_short
      BY <2>3, <3>3 DEF fread_short
    <3>4. CASE fread_ends \/ alloc_str
      BY <2>3, <3>4 DEF fread_ends, alloc_str, Returns
    <3>5. CASE fclose_after_write \/ fclose_loses
      BY <2>3, <3>5, ClosesFacts, WriteFacts DEF Writes
    <3> QED
      BY <3>1, <3>2, <3>3, <3>4, <3>5, EndingSteps
  <2> QED
    BY <2>1, <2>2, <2>3
<1> QED
  BY <1>1, FsIndInvHolds, PTL DEF FsSpec, FsCleansUp

\* The beginning of a sequence, element by element.
LEMMA BeginningFacts ==
  ASSUME NEW S, NEW f \in Seq(S), NEW n \in Nat, n <= Len(f)
  PROVE  /\ [i \in 1 .. n |-> f[i]] = SubSeq(f, 1, n)
         /\ n = Len(f) => SubSeq(f, 1, n) = f
<1>1. n \in 0 .. Len(f) /\ Len(f) \in Nat
  OBVIOUS
<1>2. /\ SubSeq(f, 1, n) \in Seq(S) /\ Len(SubSeq(f, 1, n)) = n
      /\ \A i \in 1 .. n : SubSeq(f, 1, n)[i] = f[i]
  BY <1>1
<1>3. SubSeq(f, 1, n) = [i \in 1 .. n |-> SubSeq(f, 1, n)[i]]
  BY <1>2
<1>4. [i \in 1 .. n |-> f[i]] = SubSeq(f, 1, n)
  BY <1>2, <1>3
<1>5. n = Len(f) => SubSeq(f, 1, n) = f
  BY SubSeqFull
<1> QED
  BY <1>4, <1>5

\* The first n cells of c as a sequence.
FirstCells(c, n) == [i \in 1 .. n |-> c[i - 1]]

\* Cells that all stood in the files S, as a sequence.
LEMMA StoodFacts ==
  ASSUME NEW S, NEW c, NEW n \in Nat, Stood(c, n, S), NEW r, r = FirstCells(c, n),
         NEW f \in Seq(Chars), S = {f} => n = Len(f)
  PROVE  /\ Len(r) = n
         /\ \A i \in 1 .. n : \E g \in S : i <= Len(g) /\ r[i] = g[i]
         /\ S = {f} => r = f
<1>1. Len(r) = n
  BY DEF FirstCells
<1>2. ASSUME NEW i \in 1 .. n PROVE \E g \in S : i <= Len(g) /\ r[i] = g[i]
  <2>1. PICK j \in 0 .. n - 1 : j = i - 1 /\ j + 1 = i
    OBVIOUS
  <2>2. r[i] = c[j]
    BY <2>1 DEF FirstCells
  <2>3. PICK g \in S : j + 1 <= Len(g) /\ c[j] = g[j + 1]
    BY DEF Stood
  <2> QED
    BY <2>1, <2>2, <2>3
<1>3. ASSUME S = {f} PROVE r = f
  <2>1. r = [i \in 1 .. n |-> f[i]]
    BY <1>2, <1>3 DEF FirstCells
  <2>2. n = Len(f)
    BY <1>3
  <2> QED
    BY <2>1, <2>2, BeginningFacts
<1> QED
  BY <1>1, <1>2, <1>3

\* fs.c: a read that succeeds delivers as many bytes as get_file_size counted,
\* each of which was in the file, at its place, at some moment of the call; and it
\* delivers the file if nobody changed that meanwhile.
THEOREM ReadsFileHolds == FsSpec => ReadsFile
<1> DEFINE Read == Ends /\ fs.op \in {"read_to_str", "read_bytes"} /\ ret' = "ok" =>
                     /\ Len(Result) = fs.size
                     /\ \A i \in 1 .. fs.size : \E f \in fs.seen : i <= Len(f) /\ Result[i] = f[i]
                     /\ fs.seen = {file} => Result = file
<1>1. FsIndInv /\ [FsNext]_vars => [Read]_vars
  <2> SUFFICES ASSUME FsIndInv, [FsNext]_vars, Ends, fs.op \in Reads, ret' = "ok"
               PROVE  /\ Len(Result) = fs.size
                      /\ \A i \in 1 .. fs.size : \E f \in fs.seen : i <= Len(f) /\ Result[i] = f[i]
                      /\ fs.seen = {file} => Result = file
    BY DEF Reads
  <2>1. /\ ~At("idle") /\ fs \in Call /\ file \in Seq(Chars) /\ fs'.pc = "idle"
        /\ fs.size \in Nat
    BY EndingSteps DEF FsIndInv, FileOK, Ends, At, Call
  <2>2. CASE fread_ends
    <3>1. At("fread") /\ fs.done = fs.size /\ UNCHANGED <<str, heap, bytes>>
      BY <2>2 DEF fread_ends
    <3>2. fs.seen = {file} => fs.size = Len(file)
      BY <3>1 DEF FsIndInv, ReadOK
    <3>3. CASE fs.op = "read_to_str"
      <4>1. Stood(cells(fs.h), fs.size, fs.seen) /\ str[fs.h].len = fs.size
        BY <3>1, <3>3 DEF FsIndInv, ReadOK
      <4>2. Result = [i \in 1 .. fs.size |-> cells(fs.h)[i - 1]]
        BY <3>1, <3>3, <4>1 DEF Result, cells
      <4>3. PICK r, c : r = Result /\ c = cells(fs.h)
        OBVIOUS
      <4>4. r = FirstCells(c, fs.size) /\ Stood(c, fs.size, fs.seen)
        BY <4>1, <4>2, <4>3 DEF FirstCells
      <4> QED
        BY <2>1, <3>2, <4>3, <4>4, StoodFacts
    <3>4. CASE fs.op = "read_bytes"
      <4>1. /\ Stood(bytes, fs.size, fs.seen) /\ fs.size \in 1 .. ALLOC_MAX
            /\ bytes \in [0 .. fs.size - 1 -> Cell]
        BY <3>1, <3>4 DEF FsIndInv, ReadOK
      <4>2. bytes # Null
        BY <4>1, NoBytesAssumption
      <4>3. Result = [i \in 1 .. fs.size |-> bytes[i - 1]]
        BY <3>1, <3>4, <4>2 DEF Result
      <4>4. PICK r, c : r = Result /\ c = bytes
        OBVIOUS
      <4>5. r = FirstCells(c, fs.size) /\ Stood(c, fs.size, fs.seen)
        BY <4>1, <4>3, <4>4 DEF FirstCells
      <4> QED
        BY <2>1, <3>2, <4>4, <4>5, StoodFacts
    <3> QED
      BY <3>3, <3>4 DEF Reads
  <2>3. CASE alloc_bytes
    <3>1. fs.size = 0 /\ UNCHANGED bytes /\ At("alloc") /\ fs.op = "read_bytes"
      BY <2>1, <2>3 DEF alloc_bytes, Returns, Goes, Call
    <3>2. bytes' = Null /\ (fs.seen = {file} => Len(file) = 0)
      BY <3>1 DEF FsIndInv, ReadOK, At
    <3>3. Result = <<>>
      BY <3>1, <3>2 DEF Result
    <3>4. Len(file) = 0 => file = <<>>
      BY <2>1
    <3> QED
      BY <3>1, <3>2, <3>3, <3>4
  <2>4. CASE get_file_size \/ get_file_size_fails
    BY <2>1, <2>4 DEF get_file_size, get_file_size_fails, Returns, Call, Reads
  <2>5. CASE alloc_str
    BY <2>1, <2>5 DEF alloc_str, Goes, Call
  <2>6. CASE fread_short
    BY <2>6 DEF fread_short, Returns
  <2>7. CASE fclose_after_write \/ fclose_loses
    BY <2>7, ClosesFacts, WriteFacts DEF Writes, Reads
  <2> QED
    BY <2>2, <2>3, <2>4, <2>5, <2>6, <2>7, EndingSteps
<1> QED
  BY <1>1, FsIndInvHolds, PTL DEF FsSpec, ReadsFile, Reads

\* fs.c: if no other process interferes, a write leaves a beginning of what it
\* was given, and an append leaves it behind what was there; when it reports
\* success all of it is there, unless fclose has lost a part.
THEOREM WritesFileHolds == FsSpec => WritesFile
<1> DEFINE Written ==
      EndsUndisturbed =>
        /\ \E k \in 0 .. Len(fs.text) : file' = BeforeWrite \o SubSeq(fs.text, 1, k)
        /\ ret' = "ok" /\ ~fclose_loses => file' = BeforeWrite \o fs.text
<1>1. FsIndInv /\ [FsNext]_vars => [Written]_vars
  <2> SUFFICES ASSUME FsIndInv, [FsNext]_vars, Ends, fs.op \in Writes, ~fs.changed
               PROVE  /\ \E k \in 0 .. Len(fs.text) : file' = BeforeWrite \o SubSeq(fs.text, 1, k)
                      /\ ret' = "ok" /\ ~fclose_loses => file' = BeforeWrite \o fs.text
    BY DEF EndsUndisturbed, Writes
  <2>1. fclose_after_write \/ fclose_loses
    <3>1. ~(At("size") \/ At("alloc") \/ At("fread"))
      BY DEF FsIndInv, ReadOK, Reads, Writes
    <3> QED
      BY <3>1, EndingSteps DEF get_file_size, get_file_size_fails, alloc_str, alloc_bytes,
         fread_ends, fread_short
  <2>2. At("fwrite")
    BY <2>1, ClosesFacts
  <2>3. PICK k \in fs.out .. fs.done : /\ file' = Flushed(fs.out, k)
                                       /\ fclose_after_write /\ ~fclose_loses => k = fs.done
    BY <2>1, ClosesFacts
  <2>4. k \in Nat /\ fs.out <= k /\ k <= Len(fs.text) /\ k \in 0 .. Len(fs.text)
    BY <2>2, <2>3, WriteFacts
  <2>5. file' = BeforeWrite \o SubSeq(fs.text, 1, k)
    BY <2>2, <2>3, <2>4, WriteFacts, FlushedRight
  <2>6. ASSUME ret' = "ok", ~fclose_loses PROVE file' = BeforeWrite \o fs.text
    <3>1. k = Len(fs.text)
      BY <2>1, <2>3, <2>6, ClosesFacts
    <3>2. SubSeq(fs.text, 1, Len(fs.text)) = fs.text
      BY <2>2, WriteFacts, SubSeqFull
    <3> QED
      BY <2>5, <3>1, <3>2
  <2> QED
    BY <2>4, <2>5, <2>6
<1> QED
  BY <1>1, FsIndInvHolds, PTL DEF FsSpec, WritesFile

-----------------------------------------------------------------------------
(* What the cells of a buffer are as a sequence.                           *)

\* The first n cells of c.
Listed(c, n) == [i \in 1 .. n |-> c[i - 1]]

LEMMA ListedFacts ==
  ASSUME NEW n \in Nat, NEW c, \A i \in 0 .. n - 1 : c[i] \in Cell
  PROVE  /\ Listed(c, n) \in Seq(Cell) /\ Len(Listed(c, n)) = n
         /\ \A i \in 1 .. n : Listed(c, n)[i] = c[i - 1]
<1>1. \A i \in 1 .. n : c[i - 1] \in Cell
  OBVIOUS
<1>2. Listed(c, n) \in [1 .. n -> Cell]
  BY <1>1 DEF Listed
<1> QED
  BY <1>2 DEF Listed

\* A sequence known element by element is the one the cells hold.
LEMMA ListedIs ==
  ASSUME NEW n \in Nat, NEW c, NEW u \in Seq(Cell), Len(u) = n,
         \A i \in 0 .. n - 1 : c[i] = u[i + 1]
  PROVE  Listed(c, n) = u
<1>1. \A i \in 1 .. n : c[i - 1] = u[i] /\ u[i] \in Cell
  <2> SUFFICES ASSUME NEW i \in 1 .. n PROVE c[i - 1] = u[i] /\ u[i] \in Cell
    OBVIOUS
  <2>1. i - 1 \in 0 .. n - 1 /\ (i - 1) + 1 = i
    OBVIOUS
  <2> QED
    BY <2>1, ElementOfSeq
<1>2. /\ Listed(c, n) \in Seq(Cell) /\ Len(Listed(c, n)) = n
      /\ \A i \in 1 .. n : Listed(c, n)[i] = c[i - 1]
  <2>1. \A i \in 0 .. n - 1 : c[i] \in Cell
    <3> SUFFICES ASSUME NEW i \in 0 .. n - 1 PROVE c[i] \in Cell
      OBVIOUS
    <3>1. i + 1 \in 1 .. n /\ c[i] = u[i + 1]
      OBVIOUS
    <3> QED
      BY <3>1, ElementOfSeq
  <2> QED
    BY <2>1, ListedFacts
<1> QED
  BY <1>1, <1>2, SeqEqual

LEMMA AppendIs ==
  ASSUME NEW S, NEW s \in Seq(S), NEW t \in Seq(S), NEW x \in S, Len(t) = Len(s) + 1,
         \A i \in 1 .. Len(s) : t[i] = s[i], t[Len(s) + 1] = x
  PROVE  t = Append(s, x)
<1>1. \A i \in 1 .. Len(t) : t[i] = Append(s, x)[i]
  BY AppendProperties, LenProperties
<1> QED
  BY <1>1, AppendProperties, SeqEqual

\* t is s with the sequence u behind it.
WithMore(t, s, u) ==
  \A i \in 1 .. Len(t) : t[i] = IF i <= Len(s) THEN s[i] ELSE u[i - Len(s)]

LEMMA WithMoreIs ==
  ASSUME NEW S, NEW s \in Seq(S), NEW u \in Seq(S), NEW t \in Seq(S),
         Len(t) = Len(s) + Len(u), WithMore(t, s, u)
  PROVE  t = s \o u
BY ConcatProperties, SeqEqual DEF WithMore

\* The elements of s from i to j.
LEMMA PartIs ==
  ASSUME NEW S, NEW s \in Seq(S), NEW i \in 1 .. Len(s) + 1, NEW k \in Nat,
         i + k <= Len(s) + 1
  PROVE  /\ SubSeq(s, i, i + k - 1) \in Seq(S) /\ Len(SubSeq(s, i, i + k - 1)) = k
         /\ \A j \in 1 .. k : SubSeq(s, i, i + k - 1)[j] = s[i + j - 1]
<1>1. PICK n \in Nat, j \in Int : n = Len(s) /\ j = i + k - 1
  BY LenProperties
<1>2. \A e \in i .. j : s[e] \in S
  BY <1>1, ElementOfSeq
<1>3. /\ SubSeq(s, i, j) \in Seq(S) /\ Len(SubSeq(s, i, j)) = IF i <= j THEN j - i + 1 ELSE 0
      /\ \A e \in 1 .. j - i + 1 : SubSeq(s, i, j)[e] = s[i + e - 1]
  BY <1>1, <1>2, SubSeqProperties
<1>4. j - i + 1 = k /\ (~(i <= j) => k = 0)
  BY <1>1
<1> QED
  BY <1>1, <1>3, <1>4

LEMMA BeforeIs ==
  ASSUME NEW S, NEW s \in Seq(S), NEW t \in Seq(S), Len(t) <= Len(s),
         \A i \in 1 .. Len(t) : t[i] = s[i]
  PROVE  t = Files!Before(s, Len(t))
<1>1. PICK k \in Nat, n \in Nat : k = Len(t) /\ n = Len(s)
  BY LenProperties
<1>2. 1 \in 1 .. n + 1 /\ 1 + k <= n + 1 /\ 1 + k - 1 = k
  BY <1>1
<1>3. /\ SubSeq(s, 1, k) \in Seq(S) /\ Len(SubSeq(s, 1, k)) = k
      /\ \A j \in 1 .. k : SubSeq(s, 1, k)[j] = s[1 + j - 1]
  BY <1>1, <1>2, PartIs
<1>4. \A j \in 1 .. k : 1 + j - 1 = j
  OBVIOUS
<1> QED
  BY <1>1, <1>3, <1>4, SeqEqual DEF Files!Before
-----------------------------------------------------------------------------
(* The strings implement NxTexts: a client's call.                         *)

\* A call of the client: no call on the file is under way.
Calling == IndInv /\ At("idle") /\ fs' = fs

LEMMA SeqsFacts ==
  ASSUME IndInv, At("idle")
  PROVE  /\ Files!alive = alive /\ DOMAIN seqs = alive /\ DOMAIN room = alive
         /\ seqs = [g \in alive |-> seqs[g]] /\ room = [g \in alive |-> room[g]]
         /\ alive \subseteq Str
         /\ \A h \in alive :
              /\ seqs[h] = Listed(cells(h), str[h].len) /\ room[h] = str[h].cap
              /\ seqs[h] \in Seq(Cell) /\ Len(seqs[h]) = str[h].len
              /\ \A i \in 1 .. str[h].len : seqs[h][i] = cells(h)[i - 1]
              /\ str[h].len \in Nat /\ str[h].cap \in Nat /\ str[h].len <= str[h].cap
<1>0. Visible = alive
  BY DEF Visible, At
<1>1. /\ DOMAIN seqs = alive /\ DOMAIN room = alive /\ Files!alive = alive
      /\ seqs = [g \in alive |-> seqs[g]] /\ room = [g \in alive |-> room[g]]
      /\ \A h \in alive : seqs[h] = Listed(cells(h), str[h].len) /\ room[h] = str[h].cap
  BY <1>0 DEF seqs, room, Files!alive, Held, Listed
<1>2. ASSUME NEW h \in alive
      PROVE  /\ seqs[h] \in Seq(Cell) /\ Len(seqs[h]) = str[h].len
             /\ \A i \in 1 .. str[h].len : seqs[h][i] = cells(h)[i - 1]
             /\ str[h].len \in Nat /\ str[h].cap \in Nat /\ str[h].len <= str[h].cap
  <2>1. /\ \A i \in 0 .. str[h].len - 1 : cells(h)[i] \in Cell
        /\ str[h].len \in Nat /\ str[h].cap \in Nat /\ str[h].len <= str[h].cap
    BY HeldFacts
  <2> QED
    BY <1>1, <2>1, ListedFacts
<1>3. alive \subseteq Str
  BY DEF IndInv, TypeOK
<1> QED
  BY <1>1, <1>2, <1>3

\* The strings after a step, when all of them can be seen.
LEMMA SeqsAfter ==
  ASSUME fs'.pc # "fread"
  PROVE  /\ DOMAIN seqs' = alive' /\ DOMAIN room' = alive'
         /\ seqs' = [g \in alive' |-> seqs'[g]] /\ room' = [g \in alive' |-> room'[g]]
         /\ \A g \in alive' : seqs'[g] = Listed(cells(g)', str'[g].len) /\ room'[g] = str'[g].cap
<1>1. Visible' = alive'
  BY DEF Visible, At
<1> QED
  BY <1>1 DEF seqs, room, Held, Listed

\* No other string changes with string h.
LEMMA OtherStrings ==
  ASSUME IndInv, NEW h \in Str, NEW w, str' = Has(str, h, w), Fits(w, heap', h)
  PROVE  /\ alive' = alive \union {h} /\ str'[h] = w
         /\ \A g \in alive \ {h} : str'[g] = str[g] /\ cells(g)' = cells(g)
<1>1. alive' = alive \union {h} /\ str'[h] = w /\ \A g \in alive \ {h} : str'[g] = str[g]
  BY DEF alive, Has
<1>2. \A g \in alive \ {h} : cells(g)' = cells(g)
  <2> SUFFICES ASSUME NEW g \in alive \ {h} PROVE cells(g)' = cells(g)
    OBVIOUS
  <2>1. CASE str[g].data = Null
    BY <2>1, <1>1 DEF cells, CellsIn
  <2>2. CASE str[g].data # Null
    <3>1. str[g].data \in DOMAIN heap \ {Owned(h)}
      BY <2>2 DEF IndInv, OneOwner, Owned
    <3>2. heap'[str[g].data] = heap[str[g].data]
      BY <3>1, NullAssumption DEF Fits, IndInv, TypeOK
    <3> QED
      BY <3>2, <2>2, <1>1 DEF cells, CellsIn
  <2> QED
    BY <2>1, <2>2
<1> QED
  BY <1>1, <1>2

\* String h becomes w, or appears as w, with the characters c.
LEMMA Becomes ==
  ASSUME Calling, NEW h \in Str, NEW w, NEW c, str' = Has(str, h, w), Fits(w, heap', h),
         Holds(w, heap', c), ret' = "ok"
  PROVE  /\ DOMAIN room' = DOMAIN room \union {h}
         /\ h \in alive => Files!Only(h)
         /\ h \notin alive => /\ Files!Lacks(room', h) = room /\ Files!Lacks(seqs', h) = seqs
         /\ seqs'[h] = Listed(c, w.len) /\ room'[h] = w.cap
<1>0. IndInv /\ At("idle") /\ fs'.pc # "fread"
  BY DEF Calling, At
<1>1. /\ alive' = alive \union {h} /\ str'[h] = w
      /\ \A g \in alive \ {h} : str'[g] = str[g] /\ cells(g)' = cells(g)
  BY <1>0, OtherStrings
<1>3. cells(h)' = CellsIn(heap', w)
  BY <1>1 DEF cells
<1>4. Listed(CellsIn(heap', w), w.len) = Listed(c, w.len)
  <2>1. w.len \in Nat
    BY DEF Fits, Struct
  <2>2. \A i \in 1 .. w.len : CellsIn(heap', w)[i - 1] = c[i - 1]
    BY <2>1 DEF Holds
  <2> QED
    BY <2>2 DEF Listed
<1>6. /\ DOMAIN room = alive /\ DOMAIN seqs = alive
      /\ seqs = [g \in alive |-> seqs[g]] /\ room = [g \in alive |-> room[g]]
      /\ \A g \in alive : seqs[g] = Listed(cells(g), str[g].len) /\ room[g] = str[g].cap
  BY <1>0, SeqsFacts
<1>7. /\ DOMAIN seqs' = alive' /\ DOMAIN room' = alive'
      /\ seqs' = [g \in alive' |-> seqs'[g]] /\ room' = [g \in alive' |-> room'[g]]
      /\ \A g \in alive' : seqs'[g] = Listed(cells(g)', str'[g].len) /\ room'[g] = str'[g].cap
  BY <1>0, SeqsAfter
<1>5. /\ DOMAIN room' = alive \union {h} /\ DOMAIN seqs' = alive \union {h}
      /\ \A g \in alive \ {h} : room'[g] = room[g] /\ seqs'[g] = seqs[g]
      /\ room'[h] = w.cap /\ seqs'[h] = Listed(c, w.len)
  BY <1>1, <1>3, <1>4, <1>6, <1>7
<1> HIDE DEF room, seqs
<1> QED
  BY <1>5, <1>6 DEF Files!Only, Files!Lacks

\* The steps of NxTexts, from what a call makes of the sequence of h.
LEMMA ChangedStep ==
  ASSUME Calling, NEW h \in alive, Files!Only(h), seqs'[h] \in Files!Changed(seqs[h]),
         Len(seqs'[h]) <= room'[h], room'[h] # room[h] => Len(seqs'[h]) > room[h]
  PROVE  Files!TextNext
<1>1. h \in Files!alive
  BY SeqsFacts DEF Calling
<1> QED
  BY <1>1 DEF Files!TextNext, Files!TextEdit

LEMMA GrownStep ==
  ASSUME Calling, NEW h \in alive, Files!Only(h), seqs'[h] \in Files!Grown(seqs[h]),
         Len(seqs'[h]) <= room'[h],
         room'[h] # room[h] => Len(seqs'[h]) > room[h] /\ room'[h] >= 2 * room[h]
  PROVE  Files!TextNext
<1>1. h \in Files!alive
  BY SeqsFacts DEF Calling
<1> QED
  BY <1>1 DEF Files!TextNext, Files!TextEdit

\* A step that leaves strings and heap alone.
LEMMA SameSeqs ==
  ASSUME UNCHANGED <<str, heap>>, Visible' = Visible PROVE seqs' = seqs /\ room' = room
BY DEF seqs, room, Held, cells

LEMMA SameVisible ==
  ASSUME Calling, UNCHANGED str PROVE Visible' = Visible
BY DEF Calling, Visible, At, alive

LEMMA FailsStep ==
  ASSUME Calling, Fails,
         \/ \E h \in alive :
              \/ \E t \in Files!Grown(seqs[h]) \union Files!Changed(seqs[h]) : Len(t) > room[h]
              \/ \E n \in Lens : n > room[h]
         \/ alive # Str
  PROVE  Files!TextNext
<1>1. ret' = "oom" /\ seqs' = seqs /\ room' = room
  BY SameSeqs, SameVisible DEF Fails
<1>2. Files!alive = alive
  BY SeqsFacts DEF Calling
<1> QED
  BY <1>1, <1>2 DEF Files!TextNext, Files!TextFails

\* A call that succeeds and changes nothing.
LEMMA SameStep ==
  ASSUME Calling, NEW h \in alive, UNCHANGED <<str, heap>>, ret' = "ok"
  PROVE  Files!TextNext
<1>1. seqs' = seqs /\ room' = room
  BY SameSeqs, SameVisible
<1>2. Files!alive = alive /\ Len(seqs[h]) <= room[h]
  BY SeqsFacts DEF Calling
<1>3. seqs'[h] \in Files!Changed(seqs[h])
  BY <1>1, <1>2 DEF Files!Changed, Files!CopyAssign
<1>4. Files!Only(h)
  BY <1>1 DEF Files!Only
<1> QED
  BY <1>1, <1>2, <1>3, <1>4, ChangedStep

\* A store of m characters into a string with room for them.
LEMMA StoredIs ==
  ASSUME Calling, NEW h \in alive, NEW m \in Nat, NEW r, HasRoom(r, h, m),
         NEW c \in [Room(r.v) -> Cell], Known(c, m), Store(h, r, c, m)
  PROVE  /\ Files!Only(h) /\ seqs'[h] = Listed(c, m) /\ room'[h] = r.v.cap
         /\ Listed(c, m) \in Seq(Cell) /\ Len(Listed(c, m)) = m
         /\ \A i \in 1 .. m : Listed(c, m)[i] = c[i - 1]
         /\ Len(seqs'[h]) <= room'[h] /\ (room'[h] # room[h] => Len(seqs'[h]) > room[h])
<1>0. IndInv /\ h \in Str /\ ret' = "ok"
  BY DEF Calling, IndInv, TypeOK, Store
<1>1. /\ Fits(r.v, r.heap, h) /\ r.v.cap \in Nat /\ m \in 0 .. r.v.cap
      /\ (m <= str[h].cap => r.v.cap = str[h].cap) /\ (r.v.cap = 0 <=> r.v.data = Null)
  BY DEF HasRoom, Fits, Struct
<1>2. PICK w : /\ str' = Has(str, h, w) /\ Fits(w, heap', h) /\ Holds(w, heap', c)
               /\ w.len = m /\ w.cap = r.v.cap
  BY <1>0, <1>1, StoreFits
<1>3. Files!Only(h) /\ seqs'[h] = Listed(c, m) /\ room'[h] = r.v.cap
  BY <1>0, <1>2, Becomes
<1>4. 0 .. m - 1 \subseteq Room(r.v)
  BY <1>1 DEF Room
<1>5. /\ Listed(c, m) \in Seq(Cell) /\ Len(Listed(c, m)) = m
      /\ \A i \in 1 .. m : Listed(c, m)[i] = c[i - 1]
  BY <1>4, ListedFacts
<1>6. room[h] = str[h].cap /\ str[h].cap \in Nat
  BY SeqsFacts DEF Calling
<1> QED
  BY <1>1, <1>3, <1>5, <1>6

\* What the string already has room for.
LEMMA HereFacts ==
  ASSUME IndInv, NEW h \in alive, NEW m \in Nat, m <= str[h].cap
  PROVE  HasRoom(Here(h), h, m) /\ CellsIn(Here(h).heap, Here(h).v) = cells(h)
<1>1. Here(h) \in Reserved(h, m) /\ Here(h).v = str[h] /\ Here(h).heap = heap
  BY DEF Here, Reserved
<1> QED
  BY <1>1, ReservedFacts DEF cells

LEMMA ShortenedIs ==
  ASSUME Calling, NEW h \in alive, NEW n \in 0 .. str[h].len, Shortened(h, n)
  PROVE  Files!Only(h) /\ seqs'[h] = Files!Before(seqs[h], n) /\ Len(seqs'[h]) = n
         /\ room'[h] = room[h] /\ n <= room[h]
<1>1. PICK len \in Nat, cap \in Nat : len = str[h].len /\ cap = str[h].cap /\ len <= cap
  BY SeqsFacts DEF Calling
<1>2. n \in Nat /\ n <= len /\ n <= cap
  BY <1>1
<1>3. PICK r : r = Here(h)
  OBVIOUS
<1>4. HasRoom(r, h, n) /\ CellsIn(r.heap, r.v) = cells(h) /\ r.v = str[h]
  BY <1>1, <1>2, <1>3, HereFacts DEF Calling, Here
<1>5. cells(h) \in [Room(r.v) -> Cell] /\ Known(cells(h), n)
  BY <1>1, <1>2, <1>4 DEF HasRoom, Known
<1>6. Store(h, r, cells(h), n)
  BY <1>3 DEF Shortened
<1>7. PICK t \in Seq(Cell) : t = Listed(cells(h), n) /\ Len(t) = n /\ \A i \in 1 .. n : t[i] = cells(h)[i - 1]
  BY <1>2, <1>4, <1>5, <1>6, StoredIs
<1>8. Files!Only(h) /\ seqs'[h] = t /\ room'[h] = cap
  BY <1>1, <1>2, <1>4, <1>5, <1>6, <1>7, StoredIs
<1>9. PICK s \in Seq(Cell) : /\ s = seqs[h] /\ Len(s) = len /\ room[h] = cap
                             /\ \A i \in 1 .. len : s[i] = cells(h)[i - 1]
  BY <1>1, SeqsFacts DEF Calling
<1>10. \A i \in 1 .. n : t[i] = s[i]
  BY <1>1, <1>2, <1>7, <1>9
<1>11. t = Files!Before(s, n)
  BY <1>2, <1>7, <1>9, <1>10, BeforeIs
<1> QED
  BY <1>2, <1>7, <1>8, <1>9, <1>11
-----------------------------------------------------------------------------
(* Calls on one string.                                                    *)

LEMMA ClearStep ==
  ASSUME Calling, NEW h \in alive, Shortened(h, 0) PROVE Files!TextNext
<1>1. str[h].len \in Nat
  BY SeqsFacts DEF Calling
<1>2. /\ Files!Only(h) /\ seqs'[h] = Files!Before(seqs[h], 0)
      /\ Len(seqs'[h]) = 0 /\ room'[h] = room[h] /\ 0 <= room[h]
  BY <1>1, ShortenedIs
<1>3. Files!Before(seqs[h], 0) = <<>>
  BY SubSeqEmpty DEF Files!Before
<1>4. seqs'[h] \in Files!Changed(seqs[h])
  BY <1>2, <1>3 DEF Files!Changed, Files!Clear
<1> QED
  BY <1>2, <1>4, ChangedStep

LEMMA SetIs ==
  ASSUME NEW s, NEW t, \E i \in 1 .. Len(s), x \in Chars : t = [s EXCEPT ![i] = x]
  PROVE  t \in Files!Set(s)
<1> DEFINE F(i, x) == [s EXCEPT ![i] = x]
<1>1. Files!Set(s) = { F(i, x) : i \in 1 .. Len(s), x \in Chars }
  BY DEF Files!Set, Chars
<1>2. PICK i \in 1 .. Len(s), x \in Chars : t = F(i, x)
  OBVIOUS
<1> HIDE DEF F
<1> QED
  BY <1>1, <1>2

LEMMA SetStep ==
  ASSUME Calling, NEW h \in alive, NEW idx \in 0 .. str[h].len - 1, NEW x \in Chars,
         set(h, idx, x)
  PROVE  Files!TextNext
<1>1. PICK n \in Nat, s \in Seq(Cell) : n = str[h].len /\ s = seqs[h]
  BY SeqsFacts DEF Calling
<1>2. /\ Len(s) = n /\ room[h] = str[h].cap /\ \A i \in 1 .. n : s[i] = cells(h)[i - 1]
      /\ str[h].cap \in Nat /\ n <= str[h].cap
  BY <1>1, SeqsFacts DEF Calling
<1>3. PICK r : r = Here(h)
  OBVIOUS
<1>4. HasRoom(r, h, n) /\ CellsIn(r.heap, r.v) = cells(h) /\ r.v = str[h]
  BY <1>2, <1>3, HereFacts DEF Calling, Here
<1>5. x \in Cell /\ x # Uninit /\ idx \in 0 .. n - 1
  BY <1>1, CharAssumption DEF Cell, Chars
<1>6. PICK k \in [Room(r.v) -> Cell] : k = cells(h) /\ Known(k, n)
  BY <1>1, <1>4 DEF HasRoom
<1>7. 0 .. n - 1 \subseteq Room(r.v)
  BY <1>2, <1>4, <1>5 DEF HasRoom, Fits, Struct, Room
<1>8. PICK c \in [Room(r.v) -> Cell] : /\ c = [k EXCEPT ![idx] = x]
                                      /\ \A i \in 0 .. n - 1 : c[i] = IF i = idx THEN x ELSE k[i]
  BY <1>5, <1>7
<1>9. Known(c, n)
  BY <1>5, <1>6, <1>8 DEF Known
<1>10. Store(h, r, c, n)
  BY <1>1, <1>3, <1>6, <1>8 DEF set
<1>11. PICK t \in Seq(Cell) : t = Listed(c, n) /\ Len(t) = n /\ \A i \in 1 .. n : t[i] = c[i - 1]
  BY <1>4, <1>9, <1>10, StoredIs
<1>12. /\ Files!Only(h) /\ seqs'[h] = t
       /\ Len(seqs'[h]) <= room'[h] /\ (room'[h] # room[h] => Len(seqs'[h]) > room[h])
  BY <1>4, <1>9, <1>10, <1>11, StoredIs
<1>13. idx + 1 \in 1 .. Len(s)
  BY <1>2, <1>5
<1>14. t = [s EXCEPT ![idx + 1] = x]
  <2>1. /\ [s EXCEPT ![idx + 1] = x] \in Seq(Cell) /\ Len([s EXCEPT ![idx + 1] = x]) = n
        /\ \A i \in 1 .. n : [s EXCEPT ![idx + 1] = x][i] = IF i = idx + 1 THEN x ELSE s[i]
    BY <1>2, <1>5, <1>13, ExceptSeq
  <2>2. ASSUME NEW i \in 1 .. n PROVE t[i] = IF i = idx + 1 THEN x ELSE s[i]
    <3>1. t[i] = c[i - 1] /\ s[i] = cells(h)[i - 1]
      BY <1>2, <1>11
    <3>2. c[i - 1] = IF i - 1 = idx THEN x ELSE k[i - 1]
      BY <1>8
    <3>3. i - 1 = idx <=> i = idx + 1
      BY <1>5
    <3> QED
      BY <1>6, <3>1, <3>2, <3>3
  <2> QED
    BY <1>2, <1>11, <2>1, <2>2, SeqEqual
<1>15. t \in Files!Set(s)
  <2>1. \E i \in 1 .. Len(s), y \in Chars : t = [s EXCEPT ![i] = y]
    BY <1>13, <1>14
  <2> QED
    BY <2>1, SetIs
<1>16. t \in Files!Changed(s)
  BY <1>15 DEF Files!Changed
<1> QED
  BY <1>1, <1>12, <1>16, ChangedStep

LEMMA ReserveStep ==
  ASSUME Calling, NEW h \in alive, NEW new_cap \in Lens, reserve(h, new_cap) PROVE Files!TextNext
<1>1. PICK n \in Nat, m \in Nat : n = str[h].len /\ m = new_cap
  BY SeqsFacts, StrSizeAssumption DEF Calling
<1>2. /\ room[h] = str[h].cap /\ str[h].cap \in Nat /\ n <= str[h].cap /\ Files!alive = alive
      /\ seqs[h] = Listed(cells(h), n) /\ DOMAIN room = alive /\ room = [g \in alive |-> room[g]]
  BY <1>1, SeqsFacts DEF Calling
<1>3. ASSUME NEW r \in Reserved(h, m), heap' = r.heap, ret' = "ok", str' = [str EXCEPT ![h] = r.v]
      PROVE  Files!TextNext
  <2>1. /\ Fits(r.v, r.heap, h) /\ r.v.len = n /\ Holds(r.v, r.heap, cells(h)) /\ m <= r.v.cap
        /\ r.v.cap \in Nat /\ r.v.cap = IF m <= str[h].cap THEN str[h].cap ELSE m
    <3>1. HasRoom(r, h, m) /\ (m > str[h].cap => r.v.cap = m)
      BY ReservedFacts DEF Calling
    <3> QED
      BY <1>1, <1>2, <3>1 DEF HasRoom, Fits, Struct
  <2>2. str' = Has(str, h, r.v) /\ h \in Str
    BY <1>3, HasExcept DEF Calling, IndInv, TypeOK
  <2>3. Files!Only(h) /\ seqs'[h] = Listed(cells(h), n) /\ room'[h] = r.v.cap
    <3>1. PICK w : w = r.v
      OBVIOUS
    <3>2. PICK c : c = cells(h)
      OBVIOUS
    <3>3. str' = Has(str, h, w) /\ Fits(w, heap', h) /\ Holds(w, heap', c) /\ w.len = n
      BY <1>3, <2>1, <2>2, <3>1, <3>2
    <3>4. h \in Str /\ ret' = "ok" /\ h \in alive
      BY <1>3, <2>2
    <3>5. Files!Only(h) /\ seqs'[h] = Listed(c, w.len) /\ room'[h] = w.cap
      BY <3>3, <3>4, Becomes
    <3> QED
      BY <3>1, <3>2, <3>3, <3>5
  <2>4. room'[h] >= room[h] /\ m <= room'[h]
    <3>1. PICK p \in Nat, q \in Nat : p = str[h].cap /\ q = r.v.cap /\ q = IF m <= p THEN p ELSE m
      BY <1>2, <2>1
    <3>2. room[h] = p /\ room'[h] = q
      BY <1>2, <2>3, <3>1
    <3> QED
      BY <3>1, <3>2
  <2>5. m <= room[h] => room' = room
    <3> SUFFICES ASSUME m <= room[h] PROVE room' = room
      OBVIOUS
    <3>1. room'[h] = room[h]
      BY <1>2, <2>1, <2>3
    <3>2. DOMAIN room' = DOMAIN room /\ Files!Lacks(room', h) = Files!Lacks(room, h)
      BY <2>3 DEF Files!Only
    <3>3. \A g \in alive \ {h} : room'[g] = room[g]
      BY <3>2, <1>2 DEF Files!Lacks
    <3>4. room' = [g \in DOMAIN room' |-> room'[g]]
      BY DEF room
    <3> QED
      BY <3>1, <3>2, <3>3, <3>4, <1>2
  <2>6. Files!Reserve(h)
    BY <1>1, <1>2, <2>3, <2>4, <2>5 DEF Files!Reserve
  <2> QED
    BY <1>2, <2>3, <2>6 DEF Files!TextNext
<1>4. CASE m > str[h].cap /\ Fails
  BY <1>1, <1>2, <1>4, FailsStep
<1> QED
  BY <1>1, <1>3, <1>4 DEF reserve

\* The characters of u, as cells.
Spells(s, u) == \A i \in 0 .. Len(u) - 1 : s[i] = u[i + 1]

\* String h has kept its first n characters and has u behind them.
HasBehind(h, n, u, cap) ==
  /\ Files!Only(h) /\ seqs'[h] = Files!Before(seqs[h], n) \o u /\ Len(seqs'[h]) = n + Len(u)
  /\ n = str[h].len => seqs'[h] = seqs[h] \o u
  /\ room'[h] = cap /\ Len(seqs'[h]) <= room'[h]
  /\ room'[h] # room[h] => Len(seqs'[h]) > room[h]

LEMMA CopiedIs ==
  ASSUME Calling, NEW h \in alive, NEW n \in Nat, n <= str[h].len, NEW k \in Nat, NEW m \in Nat,
         m = n + k, NEW r, HasRoom(r, h, m),
         NEW u \in Seq(Cell), Len(u) = k, NEW s, Spells(s, u), Known(s, k),
         Store(h, r, memcpy(CellsIn(r.heap, r.v), n, s, k), m)
  PROVE  HasBehind(h, n, u, r.v.cap)
<1>1. PICK len \in Nat, z \in Seq(Cell) : /\ len = str[h].len /\ z = seqs[h] /\ Len(z) = len
                                         /\ \A i \in 1 .. len : z[i] = cells(h)[i - 1]
  BY SeqsFacts DEF Calling
<1>0. \A i \in 0 .. k - 1 : s[i] = u[i + 1]
  BY DEF Spells
<1>2. \A i \in 0 .. k - 1 : s[i] \in Cell
  <2> SUFFICES ASSUME NEW i \in 0 .. k - 1 PROVE s[i] \in Cell
    OBVIOUS
  <2>1. i + 1 \in 1 .. k /\ s[i] = u[i + 1]
    BY <1>0
  <2> QED
    BY <2>1, ElementOfSeq
<1>3. PICK cap \in Nat : cap = r.v.cap /\ m <= cap
  BY DEF HasRoom, Fits, Struct
<1>4. 0 .. m - 1 \subseteq Room(r.v) /\ Room(r.v) \subseteq Int
  BY <1>3 DEF HasRoom, Fits, Room
<1>5. PICK b \in [Room(r.v) -> Cell] : /\ b = CellsIn(r.heap, r.v) /\ Known(b, n)
                                      /\ \A i \in 0 .. n - 1 : b[i] = cells(h)[i]
  BY <1>1 DEF HasRoom, Known, Holds
<1>6. PICK c : c = memcpy(b, n, s, k)
  OBVIOUS
<1>7. c \in [Room(r.v) -> Cell] /\ Known(c, m)
  BY <1>2, <1>4, <1>5, <1>6, MemcpyFacts
<1>8. \A i \in 0 .. m - 1 : c[i] = IF i < n THEN cells(h)[i] ELSE s[i - n]
  <2> SUFFICES ASSUME NEW i \in 0 .. m - 1 PROVE c[i] = IF i < n THEN cells(h)[i] ELSE s[i - n]
    OBVIOUS
  <2>1. c[i] = IF n <= i /\ i < n + k THEN s[i - n] ELSE b[i]
    BY <1>4, <1>5, <1>6 DEF memcpy
  <2> QED
    BY <1>5, <2>1
<1>9. Store(h, r, c, m)
  BY <1>5, <1>6
<1>10. PICK t \in Seq(Cell) : t = Listed(c, m) /\ Len(t) = m /\ \A i \in 1 .. m : t[i] = c[i - 1]
  <2>1. HasRoom(r, h, m)
    OBVIOUS
  <2> QED
    BY <1>7, <1>9, <2>1, StoredIs
<1>11. /\ Files!Only(h) /\ seqs'[h] = t /\ room'[h] = r.v.cap
       /\ Len(seqs'[h]) <= room'[h] /\ (room'[h] # room[h] => Len(seqs'[h]) > room[h])
  BY <1>7, <1>9, <1>10, StoredIs
<1>12. PICK a \in Seq(Cell) : /\ a = Files!Before(z, n) /\ Len(a) = n /\ (n = len => a = z)
                             /\ \A i \in 1 .. n : a[i] = z[i]
  <2>1. 1 \in 1 .. len + 1 /\ 1 + n <= len + 1 /\ 1 + n - 1 = n /\ \A j \in 1 .. n : 1 + j - 1 = j
    BY <1>1
  <2>2. /\ SubSeq(z, 1, n) \in Seq(Cell) /\ Len(SubSeq(z, 1, n)) = n
        /\ \A j \in 1 .. n : SubSeq(z, 1, n)[j] = z[j]
    BY <1>1, <2>1, PartIs
  <2>3. n = len => SubSeq(z, 1, n) = z
    BY <1>1, SubSeqFull
  <2> QED
    BY <2>2, <2>3 DEF Files!Before
<1>13. t = a \o u
  <2>1. ASSUME NEW i \in 1 .. m PROVE t[i] = IF i <= n THEN a[i] ELSE u[i - n]
    <3>1. i - 1 \in 0 .. m - 1
      OBVIOUS
    <3>4. t[i] = c[i - 1]
      BY <1>10
    <3>2. CASE i <= n
      <4>1. i - 1 < n /\ i \in 1 .. n /\ i \in 1 .. len
        BY <1>1, <3>2
      <4> QED
        BY <1>1, <1>8, <1>12, <3>1, <3>2, <3>4, <4>1
    <3>3. CASE ~(i <= n)
      <4>1. ~(i - 1 < n) /\ (i - 1) - n \in 0 .. k - 1 /\ ((i - 1) - n) + 1 = i - n
        BY <3>3
      <4>2. c[i - 1] = s[(i - 1) - n]
        BY <1>8, <3>1, <4>1
      <4>3. s[(i - 1) - n] = u[i - n]
        BY <1>0, <4>1
      <4> QED
        BY <3>3, <3>4, <4>2, <4>3
    <3> QED
      BY <3>2, <3>3
  <2>2. WithMore(t, a, u) /\ Len(t) = Len(a) + Len(u)
    BY <1>10, <1>12, <2>1 DEF WithMore
  <2> QED
    BY <2>2, WithMoreIs
<1> QED
  BY <1>1, <1>10, <1>11, <1>12, <1>13 DEF HasBehind

LEMMA ResizeStep ==
  ASSUME Calling, NEW h \in alive, NEW new_len \in Lens, resize(h, new_len) PROVE Files!TextNext
<1>1. PICK n \in Nat, m \in Nat : n = str[h].len /\ m = new_len
  BY SeqsFacts, StrSizeAssumption DEF Calling
<1>2. /\ room[h] = str[h].cap /\ str[h].cap \in Nat /\ n <= str[h].cap
      /\ seqs[h] \in Seq(Cell) /\ Len(seqs[h]) = n
  BY <1>1, SeqsFacts DEF Calling
<1>3. (IF m <= n THEN Files!Before(seqs[h], m) ELSE seqs[h] \o Files!Zeros(m - n))
        \in Files!Changed(seqs[h])
  BY <1>1, <1>2 DEF Files!Changed, Files!Resize
<1>4. CASE m <= n /\ Shortened(h, m)
  <2>1. /\ Files!Only(h) /\ seqs'[h] = Files!Before(seqs[h], m) /\ Len(seqs'[h]) = m
        /\ room'[h] = room[h]
    BY <1>1, <1>4, ShortenedIs
  <2> QED
    BY <2>1, <1>2, <1>3, <1>4, ChangedStep
<1>5. ASSUME m > n, NEW r \in Reserved(h, m),
             Store(h, r, memcpy(CellsIn(r.heap, r.v), n, Zeros(m - n), m - n), m)
      PROVE  Files!TextNext
  <2>1. PICK k \in Nat : k = m - n /\ m = n + k
    BY <1>5
  <2>2. PICK s : s = Zeros(k)
    OBVIOUS
  <2>3. Known(s, k) /\ k \in 0 .. k /\ \A i \in 0 .. k - 1 : s[i] = Zero
    BY <2>1, <2>2, ZerosFacts
  <2>4. PICK u \in Seq(Cell) : u = Files!Zeros(k) /\ Len(u) = k /\ \A i \in 1 .. k : u[i] = Zero
    <3>1. PICK u : u = Files!Zeros(k)
      OBVIOUS
    <3>2. u = [i \in 1 .. k |-> Zero] /\ Zero \in Cell
      BY <3>1 DEF Files!Zeros, Cell
    <3>3. u \in Seq(Cell) /\ Len(u) = k /\ \A i \in 1 .. k : u[i] = Zero
      BY <3>2
    <3> QED
      BY <3>1, <3>3
  <2>5. Spells(s, u)
    BY <2>3, <2>4 DEF Spells
  <2>6. HasRoom(r, h, m)
    BY <1>1, ReservedFacts DEF Calling
  <2>7. Store(h, r, memcpy(CellsIn(r.heap, r.v), n, s, k), m)
    BY <1>5, <2>1, <2>2
  <2>8. n <= str[h].len
    BY <1>1
  <2>9. /\ Files!Only(h) /\ seqs'[h] = seqs[h] \o u /\ Len(seqs'[h]) <= room'[h]
        /\ room'[h] # room[h] => Len(seqs'[h]) > room[h]
    <3>1. HasBehind(h, n, u, r.v.cap)
      BY <2>1, <2>3, <2>4, <2>5, <2>6, <2>7, <2>8, CopiedIs
    <3> QED
      BY <1>1, <3>1 DEF HasBehind
  <2>10. seqs'[h] \in Files!Changed(seqs[h])
    <3>1. ~(m <= n)
      BY <1>5
    <3>2. seqs[h] \o Files!Zeros(k) \in Files!Changed(seqs[h])
      BY <3>1, <2>1, <1>3
    <3> QED
      BY <3>2, <2>4, <2>9
  <2> QED
    BY <2>9, <2>10, ChangedStep
<1>6. CASE new_len > str[h].cap /\ Fails
  BY <1>2, <1>6, FailsStep
<1> QED
  BY <1>1, <1>4, <1>5, <1>6 DEF resize
-----------------------------------------------------------------------------
(* Calls that may need room for more characters.                           *)

\* No capacity an allocator can provide is more than half the range, so that
\* doubling it does not wrap.
NoWrap == 2 * ALLOC_MAX <= USIZE

\* A larger buffer is one the allocator could provide.
LEMMA ReservedMax ==
  ASSUME NEW h \in alive, NEW c \in Nat, c > str[h].cap, str[h].cap \in Nat, NEW r \in Reserved(h, c)
  PROVE  c + 1 <= ALLOC_MAX
<1>1. ~(c <= str[h].cap)
  OBVIOUS
<1>2. ASSUME c + 1 > ALLOC_MAX PROVE Reserved(h, c) = {}
  <2>1. \A K, al, d : nx_al_alloc(K, al, c + 1, d) = {}
    BY <1>2 DEF nx_al_alloc
  <2>2. nx_al_realloc(str[h].al, str[h].data, c + 1) = {}
    BY <2>1 DEF nx_al_realloc
  <2> QED
    BY <1>1, <2>1, <2>2 DEF Reserved
<1> QED
  BY <1>2, StrSizeAssumption

\* More room for more characters is at least twice the room there was.
LEMMA Doubles ==
  ASSUME NoWrap, IndInv, NEW h \in alive, NEW n \in Nat, NEW r \in ensure_cap(h, n)
  PROVE  r.v.cap # str[h].cap => r.v.cap >= 2 * str[h].cap
<1>1. PICK cap \in Nat : cap = str[h].cap
  BY HeldFacts
<1>2. CASE n <= cap
  BY <1>1, <1>2, EnsureCapFacts DEF HasRoom
<1>3. CASE n > cap
  <2>1. PICK c \in NewCaps(cap, n) : r \in Reserved(h, c)
    BY <1>1, <1>3 DEF ensure_cap
  <2>2. c \in Nat /\ n <= c /\ cap < c
    BY <2>1, <1>1, <1>3, StrSizeAssumption DEF NewCaps
  <2>3. r.v.cap = c
    BY <2>1, <2>2, <1>1, ReservedFacts
  <2>4. c + 1 <= ALLOC_MAX
    BY <2>1, <2>2, <1>1, ReservedMax
  <2>5. CASE cap = 0 \/ n > 2 * cap
    BY <2>2, <2>3, <2>5, <1>1
  <2>6. CASE cap # 0 /\ n <= 2 * cap
    <3> DEFINE D == { d \in n .. USIZE - 1 : \E p \in 1 .. d : d = cap * p /\ PowerOfTwo(p) }
    <3>1. PowerOfTwo(2)
      BY DEF PowerOfTwo
    <3>2. 2 * cap \in n .. USIZE - 1 /\ 2 \in 1 .. 2 * cap /\ 2 * cap = cap * 2
      BY <2>2, <2>4, <2>6, <1>1, StrSizeAssumption DEF NoWrap
    <3>3. 2 * cap \in D
      BY <3>1, <3>2
    <3>4. c \in D
      <4>1. NewCaps(cap, n) = IF D = {} THEN {n} ELSE { d \in D : \A e \in D : d <= e }
        BY <2>6 DEF NewCaps
      <4> HIDE DEF D
      <4> QED
        BY <4>1, <3>3, <2>1
    <3>5. PICK p \in 1 .. c : c = cap * p
      BY <3>4
    <3>6. p # 1
      BY <3>5, <2>2
    <3>7. cap * p >= cap * 2
      <4>1. PICK q \in Nat : p = 2 + q
        <5>1. p - 2 \in Nat /\ p = 2 + (p - 2)
          BY <3>6
        <5> QED
          BY <5>1
      <4>2. cap * p = cap * 2 + cap * q /\ cap * q >= 0
        BY <4>1
      <4> QED
        BY <4>2
    <3> QED
      BY <3>5, <3>7, <3>2, <2>3, <1>1
  <2> QED
    BY <2>5, <2>6, <1>1
<1> QED
  BY <1>1, <1>2, <1>3

LEMMA PushStep ==
  ASSUME NoWrap, Calling, NEW h \in alive, NEW x \in Chars, push(h, x) PROVE Files!TextNext
<1>1. PICK n \in Nat, m \in Nat, s \in Seq(Cell) : n = str[h].len /\ m = n + 1 /\ s = seqs[h]
  BY SeqsFacts DEF Calling
<1>2. /\ Len(s) = n /\ room[h] = str[h].cap /\ \A i \in 1 .. n : s[i] = cells(h)[i - 1]
      /\ str[h].cap \in Nat /\ n <= str[h].cap
  BY <1>1, SeqsFacts DEF Calling
<1>3. x \in Cell /\ x # Uninit
  BY CharAssumption DEF Cell, Chars
<1>4. ASSUME NEW r \in ensure_cap(h, m),
             Store(h, r, [CellsIn(r.heap, r.v) EXCEPT ![n] = x], m)
      PROVE  Files!TextNext
  <2>1. HasRoom(r, h, m)
    BY EnsureCapFacts DEF Calling
  <2>2. PICK cap \in Nat : cap = r.v.cap /\ m <= cap
    BY <2>1 DEF HasRoom, Fits, Struct
  <2>3. 0 .. n \subseteq Room(r.v)
    BY <1>1, <2>1, <2>2 DEF HasRoom, Fits, Room
  <2>4. PICK k \in [Room(r.v) -> Cell] : /\ k = CellsIn(r.heap, r.v) /\ Known(k, n)
                                        /\ \A i \in 0 .. n - 1 : k[i] = cells(h)[i]
    BY <1>1, <2>1 DEF HasRoom, Holds
  <2>5. PICK c \in [Room(r.v) -> Cell] : /\ c = [k EXCEPT ![n] = x] /\ c[n] = x
                                        /\ \A i \in 0 .. n - 1 : c[i] = k[i]
    BY <1>3, <2>3
  <2>6. Known(c, m)
    <3>1. \A i \in 0 .. m - 1 : i = n \/ i \in 0 .. n - 1
      BY <1>1
    <3> QED
      BY <3>1, <1>3, <2>4, <2>5 DEF Known
  <2>7. Store(h, r, c, m)
    BY <1>4, <2>4, <2>5
  <2>8. PICK t \in Seq(Cell) : t = Listed(c, m) /\ Len(t) = m /\ \A i \in 1 .. m : t[i] = c[i - 1]
    BY <2>1, <2>6, <2>7, StoredIs
  <2>9. /\ Files!Only(h) /\ seqs'[h] = t /\ room'[h] = cap
        /\ Len(seqs'[h]) <= room'[h] /\ (room'[h] # room[h] => Len(seqs'[h]) > room[h])
    BY <2>1, <2>2, <2>6, <2>7, <2>8, StoredIs
  <2>10. t = Append(s, x)
    <3>1. ASSUME NEW i \in 1 .. n PROVE t[i] = s[i]
      <4>1. i - 1 \in 0 .. n - 1 /\ i \in 1 .. m
        BY <1>1
      <4> QED
        BY <4>1, <1>2, <2>4, <2>5, <2>8
    <3>2. t[n + 1] = x
      <4>1. n + 1 \in 1 .. m /\ (n + 1) - 1 = n
        BY <1>1
      <4>2. t[n + 1] = c[(n + 1) - 1]
        BY <2>8, <4>1
      <4> QED
        BY <2>5, <4>1, <4>2
    <3> QED
      BY <3>1, <3>2, <1>1, <1>2, <1>3, <2>8, AppendIs
  <2>11. seqs'[h] \in Files!Grown(seqs[h])
    BY <1>1, <2>9, <2>10 DEF Files!Grown, Files!Push, Chars
  <2>12. room'[h] # room[h] => room'[h] >= 2 * room[h]
    BY <1>2, <1>4, <2>2, <2>9, Doubles DEF Calling
  <2> QED
    BY <2>9, <2>11, <2>12, GrownStep
<1>5. CASE m > str[h].cap /\ Fails
  <2>1. Append(s, x) \in Files!Grown(s) /\ Len(Append(s, x)) = m
    BY <1>1, <1>2, <1>3, AppendProperties DEF Files!Push, Files!Grown, Chars
  <2> QED
    BY <2>1, <1>1, <1>2, <1>5, FailsStep
<1> QED
  BY <1>1, <1>4, <1>5 DEF push

LEMMA ShownFacts ==
  /\ \A t \in Literals : t \in Files!Shown
  /\ \A g \in Files!alive : \A u \in Files!Parts(seqs[g]) : u \in Files!Shown
<1> DEFINE F(g) == Files!Parts(seqs[g])
<1>1. Files!Shown = Literals \union (UNION { F(g) : g \in Files!alive })
  BY DEF Files!Shown
<1> HIDE DEF F
<1>2. \A g \in Files!alive : \A u \in F(g) : u \in Files!Shown
  BY <1>1
<1> QED
  BY <1>1, <1>2 DEF F

\* The view sv shows the characters of u.
Shows(sv, u) ==
  /\ u \in Seq(Cell) /\ Len(u) = sv.len /\ u \in Files!Shown
  /\ sv.data = Null => \A i \in 0 .. sv.len - 1 : sv.text[i] = u[i + 1]
  /\ sv.data # Null => \E g \in alive : /\ str[g].data = sv.data /\ sv.off + sv.len <= str[g].len
                                        /\ \A i \in 0 .. sv.len - 1 : cells(g)[sv.off + i] = u[i + 1]

\* append copies what the view showed, also when the buffer of h has moved.
LEMMA ViewedIs ==
  ASSUME IndInv, NEW h \in alive, NEW n \in Nat, NEW r, HasRoom(r, h, n),
         NEW sv, GoodView(sv), NEW u, Shows(sv, u),
         NEW src, src = IF str[h].data # Null /\ sv.data = str[h].data
                        THEN [sv EXCEPT !.data = r.v.data] ELSE sv,
         NEW s, s = Viewed(r.heap, src)
  PROVE  Spells(s, u)
<1>1. sv.len \in Nat /\ src.len = sv.len /\ src.off = sv.off /\ src.text = sv.text
  BY DEF GoodView, view
<1> SUFFICES ASSUME NEW i \in 0 .. sv.len - 1 PROVE s[i] = u[i + 1]
  BY DEF Spells, Shows
<1>2. s[i] = IF src.data = Null THEN src.text[i]
             ELSE IF src.data \in DOMAIN r.heap THEN r.heap[src.data].cells[src.off + i] ELSE Uninit
  BY <1>1 DEF Viewed
<1>3. CASE sv.data = Null
  BY <1>2, <1>3 DEF Shows
<1>4. CASE sv.data # Null
  <2>1. PICK g \in alive : /\ str[g].data = sv.data /\ sv.off + sv.len <= str[g].len
                           /\ \A j \in 0 .. sv.len - 1 : cells(g)[sv.off + j] = u[j + 1]
    BY <1>4 DEF Shows
  <2>2. sv.off \in Nat /\ sv.off + i \in 0 .. str[g].len - 1
    <3>1. sv.off \in Nat /\ str[g].len \in Nat
      BY <1>4, HeldFacts DEF GoodView
    <3> QED
      BY <1>1, <2>1, <3>1
  <2>3. CASE sv.data = str[h].data
    <3>1. g = h
      BY <1>4, <2>1, <2>3 DEF IndInv, OneOwner
    <3>2. src.data = r.v.data
      BY <1>4, <2>3 DEF GoodView, view
    <3>3. r.v.data # Null
      <4>1. str[h].len > 0
        BY <2>2, <3>1, HeldFacts
      <4> QED
        BY <4>1 DEF HasRoom, Fits, Struct
    <3>4. r.v.data \in DOMAIN r.heap /\ r.heap[r.v.data].cells = CellsIn(r.heap, r.v)
      BY <3>3 DEF HasRoom, Fits, CellsIn
    <3>5. CellsIn(r.heap, r.v)[sv.off + i] = cells(h)[sv.off + i]
      BY <2>2, <3>1 DEF HasRoom, Holds
    <3> QED
      BY <1>1, <1>2, <2>1, <3>1, <3>2, <3>3, <3>4, <3>5
  <2>4. CASE sv.data # str[h].data
    <3>1. src = sv
      BY <2>4
    <3>2. sv.data \in DOMAIN heap \ {Owned(h)}
      BY <1>4, <2>1, <2>4 DEF IndInv, OneOwner, Owned
    <3>3. sv.data \in DOMAIN r.heap /\ r.heap[sv.data] = heap[sv.data]
      BY <3>2, <1>4 DEF HasRoom, Fits
    <3>4. r.heap[sv.data].cells = cells(g)
      BY <3>3, <1>4, <2>1 DEF cells, CellsIn
    <3> QED
      BY <1>2, <1>4, <2>1, <3>1, <3>3, <3>4
  <2> QED
    BY <2>3, <2>4
<1> QED
  BY <1>3, <1>4

LEMMA AppendStep ==
  ASSUME NoWrap, Calling, NEW h \in alive, NEW sv, GoodView(sv), NEW u, Shows(sv, u),
         append_str_view(h, sv)
  PROVE  Files!TextNext
<1>1. PICK n \in Nat, k \in Nat, m \in Nat : n = str[h].len /\ k = sv.len /\ m = n + k
  BY SeqsFacts DEF Calling, GoodView
<1>2. /\ room[h] = str[h].cap /\ str[h].cap \in Nat /\ seqs[h] \in Seq(Cell) /\ Len(seqs[h]) = n
      /\ u \in Seq(Cell) /\ Len(u) = k
  BY <1>1, SeqsFacts DEF Calling, Shows
<1>3. seqs[h] \o u \in Files!Grown(seqs[h])
  BY DEF Shows, Files!Grown, Files!AppendView
<1>4. CASE k = 0 /\ ret' = "ok" /\ UNCHANGED <<str, heap>>
  BY <1>4, SameStep
<1>5. ASSUME NEW r \in ensure_cap(h, m), NEW src,
             src = IF str[h].data # Null /\ sv.data = str[h].data
                   THEN [sv EXCEPT !.data = r.v.data] ELSE sv,
             Store(h, r, memcpy(CellsIn(r.heap, r.v), n, Viewed(r.heap, src), k), m)
      PROVE  Files!TextNext
  <2>1. PICK s : s = Viewed(r.heap, src)
    OBVIOUS
  <2>2. HasRoom(r, h, m) /\ IndInv
    BY EnsureCapFacts DEF Calling
  <2>3. Spells(s, u) /\ Known(s, k)
    BY <1>1, <1>5, <2>1, <2>2, ViewedIs, ViewedFacts
  <2>4. Store(h, r, memcpy(CellsIn(r.heap, r.v), n, s, k), m)
    BY <1>5, <2>1
  <2>5. HasBehind(h, n, u, r.v.cap)
    <3>1. n <= str[h].len
      BY <1>1
    <3> QED
      BY <1>1, <1>2, <2>2, <2>3, <2>4, <3>1, CopiedIs
  <2>6. /\ Files!Only(h) /\ seqs'[h] = seqs[h] \o u /\ room'[h] = r.v.cap
        /\ Len(seqs'[h]) <= room'[h] /\ (room'[h] # room[h] => Len(seqs'[h]) > room[h])
    BY <1>1, <2>5 DEF HasBehind
  <2>7. room'[h] # room[h] => room'[h] >= 2 * room[h]
    BY <1>2, <2>2, <2>6, Doubles
  <2> QED
    BY <1>3, <2>6, <2>7, GrownStep
<1>6. CASE m > str[h].cap /\ Fails
  <2>1. Len(seqs[h] \o u) = m
    <3>1. Len(seqs[h] \o u) = Len(seqs[h]) + Len(u)
      BY <1>2, ConcatProperties
    <3> QED
      BY <3>1, <1>1, <1>2
  <2> QED
    BY <2>1, <1>2, <1>3, <1>6, FailsStep
<1>7. \/ k = 0 /\ ret' = "ok" /\ UNCHANGED <<str, heap>>
      \/ \E r \in ensure_cap(h, m) : \E src :
           /\ src = IF str[h].data # Null /\ sv.data = str[h].data
                    THEN [sv EXCEPT !.data = r.v.data] ELSE sv
           /\ Store(h, r, memcpy(CellsIn(r.heap, r.v), n, Viewed(r.heap, src), k), m)
      \/ m > str[h].cap /\ Fails
  BY <1>1 DEF append_str_view
<1> QED
  BY <1>4, <1>5, <1>6, <1>7

\* A part of a string, and a literal.
LEMMA PartShows ==
  ASSUME Calling, NEW g \in alive, NEW i \in 0 .. str[g].len, NEW k \in 0 .. str[g].len - i
  PROVE  \E u : Shows(view(str[g].data, i, k, NoText), u)
<1>1. PICK n \in Nat, s \in Seq(Cell) : /\ n = str[g].len /\ s = seqs[g] /\ Len(s) = n
                                       /\ \A j \in 1 .. n : s[j] = cells(g)[j - 1]
  BY SeqsFacts DEF Calling
<1>2. /\ i \in Nat /\ k \in Nat /\ i + k <= n /\ (i + 1) + k - 1 = i + k
      /\ i + 1 \in 1 .. n + 1 /\ (i + 1) + k <= n + 1 /\ i + k \in 0 .. n
  BY <1>1
<1>3. PICK u \in Seq(Cell) : /\ u = SubSeq(s, i + 1, i + k) /\ Len(u) = k
                             /\ \A j \in 1 .. k : u[j] = s[(i + 1) + j - 1]
  <2>1. PICK e \in 1 .. Len(s) + 1 : e = i + 1 /\ e + k <= Len(s) + 1 /\ e + k - 1 = i + k
    BY <1>1, <1>2
  <2>2. /\ SubSeq(s, e, e + k - 1) \in Seq(Cell) /\ Len(SubSeq(s, e, e + k - 1)) = k
        /\ \A j \in 1 .. k : SubSeq(s, e, e + k - 1)[j] = s[e + j - 1]
    BY <1>2, <2>1, PartIs
  <2> QED
    BY <2>1, <2>2
<1>4. u \in Files!Shown
  <2>1. u \in Files!Parts(s)
    <3>1. i + 1 \in 1 .. Len(s) + 1 /\ i + k \in 0 .. Len(s)
      BY <1>1, <1>2
    <3> DEFINE F(e, j) == SubSeq(s, e, j)
    <3>2. Files!Parts(s) = { F(e, j) : e \in 1 .. Len(s) + 1, j \in 0 .. Len(s) }
      BY DEF Files!Parts
    <3>3. u = F(i + 1, i + k)
      BY <1>3
    <3> HIDE DEF F
    <3> QED
      BY <3>1, <3>2, <3>3
  <2>2. g \in Files!alive
    BY SeqsFacts DEF Calling
  <2> QED
    BY <1>1, <2>1, <2>2, ShownFacts
<1>5. \A j \in 0 .. k - 1 : cells(g)[i + j] = u[j + 1]
  <2> SUFFICES ASSUME NEW j \in 0 .. k - 1 PROVE cells(g)[i + j] = u[j + 1]
    OBVIOUS
  <2>1. j + 1 \in 1 .. k /\ (i + 1) + (j + 1) - 1 = i + j + 1 /\ i + j + 1 \in 1 .. n
        /\ (i + j + 1) - 1 = i + j
    BY <1>2
  <2>2. u[j + 1] = s[i + j + 1]
    BY <1>3, <2>1
  <2> QED
    BY <1>1, <2>1, <2>2
<1>6. str[g].data = Null => k = 0
  BY <1>1, <1>2, CellsFacts DEF Calling
<1>7. PICK sv : sv = view(str[g].data, i, k, NoText)
  OBVIOUS
<1>8. sv.data = str[g].data /\ sv.off = i /\ sv.len = k
  BY <1>7 DEF view
<1>9. sv.data = Null => \A j \in 0 .. sv.len - 1 : sv.text[j] = u[j + 1]
  BY <1>6, <1>8
<1>10. \A j \in 0 .. sv.len - 1 : cells(g)[sv.off + j] = u[j + 1]
  BY <1>5, <1>8
<1>11. sv.off + sv.len <= str[g].len
  BY <1>1, <1>2, <1>8
<1>12. Shows(sv, u)
  BY <1>3, <1>4, <1>8, <1>9, <1>10, <1>11 DEF Shows
<1> QED
  BY <1>7, <1>12

LEMMA CstrShows ==
  ASSUME Calling, NEW g \in alive PROVE \E u : Shows(CstrView(g), u)
<1>1. PICK n \in Nat : n = str[g].len
  BY SeqsFacts DEF Calling
<1>2. CASE str[g].data = Null
  <2>1. CstrView(g) = view(str[g].data, 0, 0, NoText)
    BY <1>2 DEF CstrView
  <2>2. 0 \in 0 .. str[g].len /\ 0 \in 0 .. str[g].len - 0
    BY <1>1
  <2> QED
    BY <2>1, <2>2, PartShows
<1>3. CASE str[g].data # Null
  <2>1. PICK k : k = strlen(cells(g))
    OBVIOUS
  <2>2. k \in 0 .. str[g].len
    BY <1>3, <2>1, StrlenFacts DEF Calling
  <2>3. CstrView(g) = view(str[g].data, 0, k, NoText)
    BY <1>3, <2>1 DEF CstrView
  <2>4. 0 \in 0 .. str[g].len /\ k \in 0 .. str[g].len - 0
    BY <1>1, <2>2
  <2> QED
    BY <2>3, <2>4, PartShows
<1> QED
  BY <1>2, <1>3

LEMMA LiteralShows == ASSUME NEW t \in Literals PROVE Shows(Literal(t), t)
<1>1. t \in Seq(Char) /\ t \in Seq(Cell)
  BY StrSizeAssumption DEF Cell
<1>2. \A i \in 0 .. Len(t) - 1 : chars(t)[i] = t[i + 1]
  BY <1>1 DEF chars
<1>3. PICK sv : sv = Literal(t)
  OBVIOUS
<1>4. sv.data = Null /\ sv.len = Len(t) /\ sv.text = chars(t)
  BY <1>3 DEF Literal, view
<1>5. t \in Files!Shown
  BY ShownFacts
<1> QED
  BY <1>1, <1>2, <1>3, <1>4, <1>5 DEF Shows

-----------------------------------------------------------------------------
(* Calls with a second string, and calls that make one.                    *)

LEMMA SpellsFacts ==
  ASSUME IndInv, At("idle"), NEW g \in alive
  PROVE  Spells(cells(g), seqs[g]) /\ Known(cells(g), str[g].len)
<1>1. /\ seqs[g] \in Seq(Cell) /\ Len(seqs[g]) = str[g].len /\ str[g].len \in Nat
      /\ \A i \in 1 .. str[g].len : seqs[g][i] = cells(g)[i - 1]
  BY SeqsFacts
<1>2. \A i \in 0 .. str[g].len - 1 : cells(g)[i] = seqs[g][i + 1]
  <2> SUFFICES ASSUME NEW i \in 0 .. str[g].len - 1 PROVE cells(g)[i] = seqs[g][i + 1]
    OBVIOUS
  <2>1. i + 1 \in 1 .. str[g].len /\ (i + 1) - 1 = i
    BY <1>1
  <2> QED
    BY <1>1, <2>1
<1> QED
  BY <1>1, <1>2, HeldFacts DEF Spells

\* A text holds what its source spells.
LEMMA TextIs ==
  ASSUME NEW n \in Nat, NEW s, NEW u \in Seq(Cell), Len(u) = n, Spells(s, u)
  PROVE  Listed(Text(s, n), n) = u
<1>1. \A i \in 0 .. n - 1 : Text(s, n)[i] = u[i + 1]
  BY DEF Text, Spells
<1> QED
  BY <1>1, ListedIs

LEMMA CopyAssignStep ==
  ASSUME Calling, NEW self \in alive, NEW src \in alive, copy_assign(self, src)
  PROVE  Files!TextNext
<1>1. PICK n \in Nat, u \in Seq(Cell) : n = str[src].len /\ u = seqs[src] /\ Len(u) = n
  BY SeqsFacts DEF Calling
<1>2. /\ room[self] = str[self].cap /\ str[self].cap \in Nat /\ str[src].cap \in Nat
      /\ n <= str[src].cap /\ Files!alive = alive /\ str[self].len \in Nat
  BY <1>1, SeqsFacts DEF Calling
<1>3. u \in Files!Changed(seqs[self])
  BY <1>1, <1>2 DEF Files!Changed, Files!CopyAssign
<1>4. Spells(cells(src), u) /\ Known(cells(src), n)
  BY <1>1, SpellsFacts DEF Calling
<1>5. CASE self = src /\ ret' = "ok" /\ UNCHANGED <<str, heap>>
  BY <1>5, SameStep
<1>6. CASE Shortened(self, 0)
  BY <1>6, ClearStep
<1>7. CASE n <= str[self].cap /\ Store(self, Here(self), memcpy(cells(self), 0, cells(src), n), n)
  <2>1. PICK r : r = Here(self)
    OBVIOUS
  <2>2. HasRoom(r, self, n) /\ CellsIn(r.heap, r.v) = cells(self)
    BY <1>7, <2>1, HereFacts DEF Calling
  <2>3. Store(self, r, memcpy(CellsIn(r.heap, r.v), 0, cells(src), n), n)
    BY <1>7, <2>1, <2>2
  <2>4. HasBehind(self, 0, u, r.v.cap)
    <3>1. 0 \in Nat /\ 0 <= str[self].len /\ n = 0 + n
      BY <1>2
    <3> QED
      BY <3>1, <1>1, <1>4, <2>2, <2>3, CopiedIs
  <2>5. Files!Before(seqs[self], 0) \o u = u
    <3>1. Files!Before(seqs[self], 0) = <<>>
      BY SubSeqEmpty DEF Files!Before
    <3> QED
      BY <3>1, ConcatEmptySeq
  <2>6. /\ Files!Only(self) /\ seqs'[self] = u /\ Len(seqs'[self]) <= room'[self]
        /\ room'[self] # room[self] => Len(seqs'[self]) > room[self]
    BY <2>4, <2>5 DEF HasBehind
  <2> QED
    BY <1>3, <2>6, ChangedStep
<1>8. CASE n > str[self].cap /\ Fails
  BY <1>1, <1>2, <1>3, <1>8, FailsStep
<1>9. ASSUME n > str[self].cap,
             NEW o \in nx_al_alloc(heap, str[self].al, str[src].cap + 1, Text(cells(src), n)),
             heap' = nx_al_dealloc(o.heap, str[self].data), ret' = "ok",
             str' = [str EXCEPT ![self] = set_fields(o.data, n, str[src].cap, @.al)]
      PROVE  Files!TextNext
  <2>1. PICK c : c = Text(cells(src), n)
    OBVIOUS
  <2>2. /\ \A i \in DOMAIN c : c[i] \in Cell
        /\ 0 .. n \subseteq DOMAIN c /\ c[n] = Zero /\ Known(c, n)
    BY <1>1, <2>1, CopyFacts DEF Calling
  <2>3. PICK w : w = set_fields(o.data, n, str[src].cap, str[self].al)
    OBVIOUS
  <2>4. /\ IndInv /\ self \in Str /\ str[self].al \in Al /\ Owned(self) = str[self].data
        /\ str[src].cap \in Nat \ {0} /\ n \in 0 .. str[src].cap
    BY <1>1, <1>2, <1>9, HeldFacts DEF Calling, IndInv, TypeOK, Owned
  <2>5. Fits(w, heap', self) /\ Holds(w, heap', c)
    BY <1>9, <2>1, <2>2, <2>3, <2>4, ReplacedFits
  <2>6. str' = Has(str, self, w)
    <3>1. str' = [str EXCEPT ![self] = w]
      BY <1>9, <2>3
    <3> QED
      BY <3>1, <2>4, HasExcept
  <2>7. w.len = n /\ w.cap = str[src].cap
    BY <2>3 DEF set_fields
  <2>8. Files!Only(self) /\ seqs'[self] = Listed(c, n) /\ room'[self] = str[src].cap
    BY <1>9, <2>4, <2>5, <2>6, <2>7, Becomes
  <2>9. Listed(c, n) = u
    BY <1>1, <1>4, <2>1, TextIs
  <2>10. Len(seqs'[self]) <= room'[self] /\ Len(seqs'[self]) > room[self]
    BY <1>1, <1>2, <1>9, <2>8, <2>9
  <2> QED
    BY <1>3, <2>8, <2>9, <2>10, ChangedStep
<1> QED
  BY <1>1, <1>5, <1>6, <1>7, <1>8, <1>9 DEF copy_assign

\* A string h that a call makes from the characters c.
LEMMA MadeIs ==
  ASSUME Calling, NEW h \in Str \ alive, NEW al \in Al, NEW cap \in Nat, NEW len \in 0 .. cap,
         NEW c, \A i \in DOMAIN c : c[i] \in Cell,
         0 .. len \subseteq DOMAIN c, c[len] = Zero, Known(c, len),
         Created(h, len, cap, al, c)
  PROVE  /\ ret' = "ok" /\ DOMAIN room' = alive \union {h} /\ DOMAIN room = alive
         /\ Files!Lacks(room', h) = room /\ Files!Lacks(seqs', h) = seqs
         /\ seqs'[h] = Listed(c, len) /\ room'[h] = cap
         /\ Files!alive = alive /\ h \in Str \ Files!alive
<1>1. IndInv /\ At("idle")
  BY DEF Calling
<1>2. AppearsAs(h, len, cap, c) /\ ret' = "ok"
  BY <1>1, CreatedFits
<1>3. PICK w : /\ str' = Has(str, h, w) /\ Fits(w, heap', h) /\ Holds(w, heap', c)
               /\ w.len = len /\ w.cap = cap
  BY <1>2 DEF AppearsAs
<1>4. /\ DOMAIN room' = DOMAIN room \union {h}
      /\ Files!Lacks(room', h) = room /\ Files!Lacks(seqs', h) = seqs
      /\ seqs'[h] = Listed(c, len) /\ room'[h] = cap
  BY <1>2, <1>3, Becomes
<1>5. DOMAIN room = alive /\ Files!alive = alive
  BY <1>1, SeqsFacts
<1> QED
  BY <1>2, <1>4, <1>5

\* A call that cannot make a string.
LEMMA FailsToMake == ASSUME Calling, Fails, alive # Str PROVE Files!TextNext
BY FailsStep

LEMMA NewStep ==
  ASSUME Calling, NEW h \in Str \ alive, NEW al \in Al, NEW len \in Lens, NEW cap \in Lens,
         new_p(h, len, cap, al)
  PROVE  Files!TextNext
<1>1. PICK c : c = Zeros(cap + 1)
  OBVIOUS
<1>2. len \in 0 .. cap /\ cap \in Nat /\ len \in Nat /\ len <= cap
  BY StrSizeAssumption DEF new_p
<1>3. /\ \A i \in DOMAIN c : c[i] \in Cell
      /\ 0 .. len \subseteq DOMAIN c /\ c[len] = Zero /\ Known(c, len)
  BY <1>1, <1>2, ZerosFacts
<1>4. CASE Created(h, len, cap, al, c)
  <2>1. /\ ret' = "ok" /\ DOMAIN room' = DOMAIN room \union {h}
        /\ Files!Lacks(room', h) = room /\ Files!Lacks(seqs', h) = seqs
        /\ seqs'[h] = Listed(c, len) /\ room'[h] = cap /\ h \in Str \ Files!alive
    BY <1>2, <1>3, <1>4, MadeIs
  <2>2. Listed(c, len) = Files!Zeros(len)
    BY <1>1, <1>2 DEF Listed, Zeros, Files!Zeros
  <2>3. Files!Appears(h)
    BY <1>2, <2>1, <2>2 DEF Files!Appears
  <2> QED
    BY <2>1, <2>3 DEF Files!TextNext, Files!TextAppears
<1>5. CASE Fails
  BY <1>5, FailsToMake
<1> QED
  BY <1>1, <1>4, <1>5 DEF new_p

LEMMA FromCstrStep ==
  ASSUME Calling, NEW h \in Str \ alive, NEW al \in Al, NEW t \in Literals, from_cstr(h, t, al)
  PROVE  Files!TextNext
<1>1. PICK n \in Nat, u \in Seq(Cell) : n = Len(t) /\ u = t
  <2>1. t \in Seq(Char) /\ t \in Seq(Cell)
    BY StrSizeAssumption DEF Cell
  <2> QED
    BY <2>1
<1>2. t \in Seq(Char)
  BY StrSizeAssumption
<1>3. PICK c : c = Text(chars(t), n)
  OBVIOUS
<1>4. /\ \A i \in DOMAIN c : c[i] \in Cell
      /\ 0 .. n \subseteq DOMAIN c /\ c[n] = Zero /\ Known(c, n)
  BY <1>1, <1>2, <1>3, CharsFacts, TextFacts
<1>5. Listed(c, n) = t
  <2>1. Spells(chars(t), u)
    BY <1>1 DEF Spells, chars
  <2> QED
    BY <1>1, <1>3, <2>1, TextIs
<1>6. CASE Created(h, n, n, al, c)
  <2>1. /\ ret' = "ok" /\ DOMAIN room' = Files!alive \union {h}
        /\ Files!Lacks(room', h) = room /\ Files!Lacks(seqs', h) = seqs
        /\ seqs'[h] = t /\ room'[h] = n /\ h \in Str \ Files!alive
    <3>1. n \in 0 .. n
      OBVIOUS
    <3> QED
      BY <1>4, <1>5, <1>6, <3>1, MadeIs
  <2>2. Files!TextAppears(h)
    BY <1>1, <2>1 DEF Files!TextAppears
  <2> QED
    BY <2>1, <2>2 DEF Files!TextNext
<1>7. CASE Fails
  BY <1>7, FailsToMake
<1> QED
  BY <1>1, <1>3, <1>6, <1>7 DEF from_cstr

LEMMA CopyStep ==
  ASSUME Calling, NEW h \in Str \ alive, NEW al \in Al, NEW g \in alive, copy_a(h, g, al)
  PROVE  Files!TextNext
<1>1. PICK n \in Nat, u \in Seq(Cell) : n = str[g].len /\ u = seqs[g] /\ Len(u) = n
  BY SeqsFacts DEF Calling
<1>2. PICK cap \in Nat : cap = str[g].cap /\ n \in 0 .. cap /\ n <= cap
  BY <1>1, SeqsFacts DEF Calling
<1>3. PICK c : c = Text(cells(g), n)
  OBVIOUS
<1>4. /\ \A i \in DOMAIN c : c[i] \in Cell
      /\ 0 .. n \subseteq DOMAIN c /\ c[n] = Zero /\ Known(c, n)
  BY <1>1, <1>3, CopyFacts DEF Calling
<1>5. Listed(c, n) = u
  BY <1>1, <1>3, SpellsFacts, TextIs DEF Calling
<1>6. CASE Created(h, n, cap, al, c)
  <2>1. /\ ret' = "ok" /\ DOMAIN room' = DOMAIN room \union {h}
        /\ Files!Lacks(room', h) = room /\ Files!Lacks(seqs', h) = seqs
        /\ seqs'[h] = u /\ room'[h] = cap /\ h \in Str \ Files!alive /\ g \in Files!alive
    BY <1>2, <1>4, <1>5, <1>6, MadeIs
  <2>2. seqs'[h] \in Files!CopyAssign /\ Len(seqs'[h]) <= room'[h]
    BY <1>1, <1>2, <2>1 DEF Files!CopyAssign
  <2>3. Files!Appears(h)
    BY <2>1, <2>2 DEF Files!Appears
  <2> QED
    BY <2>1, <2>3 DEF Files!TextNext, Files!TextAppears
<1>7. CASE Fails
  BY <1>7, FailsToMake
<1> QED
  BY <1>1, <1>2, <1>3, <1>6, <1>7 DEF copy_a

\* The cells of the other strings when the buffer of h is given back.
LEMMA FreedCells ==
  ASSUME IndInv, NEW h \in alive, heap' = nx_al_dealloc(heap, str[h].data), NEW g \in alive \ {h}
  PROVE  CellsIn(heap', str[g]) = cells(g)
<1>1. str[g].data # Null => str[g].data \in DOMAIN heap /\ str[g].data # str[h].data
  BY DEF IndInv, OneOwner
<1>2. CASE str[h].data = Null
  BY <1>2 DEF nx_al_dealloc, cells
<1>3. CASE str[h].data # Null
  BY <1>1, <1>3 DEF nx_al_dealloc, Lacks, CellsIn, cells
<1> QED
  BY <1>2, <1>3

LEMMA DropStep == ASSUME Calling, NEW h \in alive, drop(h) PROVE Files!TextNext
<1>1. /\ alive' = alive \ {h} /\ \A g \in alive' : str'[g] = str[g]
      /\ ret' = "ok" /\ fs'.pc # "fread" /\ IndInv /\ At("idle")
  BY DEF drop, Lacks, alive, Calling, At
<1>2. \A g \in alive' : cells(g)' = cells(g)
  <2> SUFFICES ASSUME NEW g \in alive' PROVE CellsIn(heap', str'[g]) = cells(g)
    BY DEF cells
  <2> QED
    BY <1>1, FreedCells DEF drop
<1>3. /\ DOMAIN seqs' = alive' /\ DOMAIN room' = alive'
      /\ seqs' = [g \in alive' |-> seqs'[g]] /\ room' = [g \in alive' |-> room'[g]]
      /\ \A g \in alive' : seqs'[g] = Listed(cells(g)', str'[g].len) /\ room'[g] = str'[g].cap
  BY <1>1, SeqsAfter
<1>4. /\ DOMAIN seqs = alive /\ DOMAIN room = alive /\ Files!alive = alive
      /\ \A g \in alive : seqs[g] = Listed(cells(g), str[g].len) /\ room[g] = str[g].cap
  BY <1>1, SeqsFacts
<1>5. \A g \in alive' : seqs'[g] = seqs[g] /\ room'[g] = room[g]
  BY <1>1, <1>2, <1>3, <1>4
<1> HIDE DEF seqs, room
<1>6. Files!Drop(h) /\ h \in Files!alive
  BY <1>1, <1>3, <1>4, <1>5 DEF Files!Drop, Files!Lacks
<1> QED
  BY <1>6 DEF Files!TextNext

LEMMA MoveStep ==
  ASSUME Calling, NEW h \in Str \ alive, NEW g \in alive, move(h, g) PROVE Files!TextNext
<1>1. /\ alive' = (alive \ {g}) \union {h} /\ str'[h] = str[g] /\ heap' = heap
      /\ \A e \in alive \ {g} : str'[e] = str[e]
      /\ ret' = "ok" /\ fs'.pc # "fread" /\ IndInv /\ At("idle")
  BY DEF move, Has, Lacks, alive, Calling, At
<1>2. cells(h)' = cells(g) /\ \A e \in alive \ {g} : cells(e)' = cells(e)
  BY <1>1 DEF cells
<1>3. /\ DOMAIN seqs' = alive' /\ DOMAIN room' = alive'
      /\ seqs' = [e \in alive' |-> seqs'[e]] /\ room' = [e \in alive' |-> room'[e]]
      /\ \A e \in alive' : seqs'[e] = Listed(cells(e)', str'[e].len) /\ room'[e] = str'[e].cap
  BY <1>1, SeqsAfter
<1>4. /\ DOMAIN seqs = alive /\ DOMAIN room = alive /\ Files!alive = alive
      /\ \A e \in alive : seqs[e] = Listed(cells(e), str[e].len) /\ room[e] = str[e].cap
  BY <1>1, SeqsFacts
<1>5. /\ seqs'[h] = seqs[g] /\ room'[h] = room[g]
      /\ \A e \in alive \ {g} : seqs'[e] = seqs[e] /\ room'[e] = room[e]
  BY <1>1, <1>2, <1>3, <1>4
<1> HIDE DEF seqs, room
<1>6. Files!Move(h, g)
  BY <1>1, <1>3, <1>4, <1>5 DEF Files!Move, Files!Has, Files!Lacks
<1> QED
  BY <1>4, <1>6 DEF Files!TextNext

LEMMA MoveAssignStep ==
  ASSUME Calling, NEW self \in alive, NEW src \in alive, move_assign(self, src)
  PROVE  Files!TextNext
<1>1. CASE self = src
  BY <1>1, SameStep DEF move_assign
<1>2. CASE self # src
  <2>0. ret' = "ok" /\ fs'.pc # "fread" /\ IndInv /\ At("idle")
    BY DEF move_assign, Calling, At
  <2>1. /\ alive' = alive /\ str'[self] = str[src]
        /\ str'[src] = set_fields(Null, 0, 0, str[src].al)
        /\ \A g \in alive \ {self, src} : str'[g] = str[g]
        /\ heap' = nx_al_dealloc(heap, str[self].data)
    BY <1>2, <2>0 DEF move_assign, IndInv, TypeOK, alive
  <2>2. \A g \in alive \ {self} : CellsIn(heap', str[g]) = cells(g)
    BY <2>0, <2>1, FreedCells
  <2>3. cells(self)' = cells(src) /\ \A g \in alive \ {self, src} : cells(g)' = cells(g)
    BY <1>2, <2>1, <2>2 DEF cells
  <2>4. str'[src].len = 0 /\ str'[src].cap = 0 /\ Listed(cells(src)', 0) = <<>>
    BY <2>1 DEF set_fields, Listed
  <2>5. /\ DOMAIN seqs' = alive /\ DOMAIN room' = alive
        /\ seqs' = [e \in alive |-> seqs'[e]] /\ room' = [e \in alive |-> room'[e]]
        /\ \A e \in alive : seqs'[e] = Listed(cells(e)', str'[e].len) /\ room'[e] = str'[e].cap
    BY <2>0, <2>1, SeqsAfter
  <2>6. /\ DOMAIN seqs = alive /\ DOMAIN room = alive /\ Files!alive = alive
        /\ seqs = [e \in alive |-> seqs[e]] /\ room = [e \in alive |-> room[e]]
        /\ \A e \in alive : seqs[e] = Listed(cells(e), str[e].len) /\ room[e] = str[e].cap
    BY <2>0, SeqsFacts
  <2>7. /\ seqs'[self] = seqs[src] /\ room'[self] = room[src]
        /\ seqs'[src] = <<>> /\ room'[src] = 0
        /\ \A e \in alive \ {self, src} : seqs'[e] = seqs[e] /\ room'[e] = room[e]
    BY <1>2, <2>1, <2>3, <2>4, <2>5, <2>6
  <2> HIDE DEF seqs, room
  <2>8. Files!MoveAssign(self, src)
    BY <1>2, <2>0, <2>5, <2>6, <2>7 DEF Files!MoveAssign
  <2> QED
    BY <1>2, <2>6, <2>8 DEF Files!TextNext
<1> QED
  BY <1>1, <1>2

\* Each call of the client is one of NxTexts.
LEMMA CallsStep == ASSUME NoWrap, Calling, Calls PROVE Files!TextNext
<1>1. ASSUME NEW h \in Str \ alive, NEW al \in Al,
             \/ \E len, cap \in Lens : new_p(h, len, cap, al)
             \/ \E t \in Literals : from_cstr(h, t, al)
             \/ \E g \in alive : copy_a(h, g, al)
      PROVE  Files!TextNext
  BY <1>1, NewStep, FromCstrStep, CopyStep
<1>2. ASSUME NEW h \in Str \ alive, NEW g \in alive, move(h, g) PROVE Files!TextNext
  BY <1>2, MoveStep
<1>3. ASSUME NEW h \in alive, drop(h) \/ clear(h) PROVE Files!TextNext
  BY <1>3, DropStep, ClearStep DEF clear
<1>4. ASSUME NEW h \in alive, NEW x \in Chars,
             push(h, x) \/ \E idx \in 0 .. str[h].len - 1 : set(h, idx, x)
      PROVE  Files!TextNext
  BY <1>4, PushStep, SetStep
<1>5. ASSUME NEW h \in alive, NEW n \in Lens, reserve(h, n) \/ resize(h, n) PROVE Files!TextNext
  BY <1>5, ReserveStep, ResizeStep
<1>6. ASSUME NEW h \in alive, NEW g \in alive, NEW i \in 0 .. str[g].len,
             NEW k \in 0 .. str[g].len - i, append_str_view(h, view(str[g].data, i, k, NoText))
      PROVE  Files!TextNext
  <2>1. PICK sv : sv = view(str[g].data, i, k, NoText)
    OBVIOUS
  <2>2. PICK u : Shows(sv, u)
    BY <2>1, PartShows
  <2>3. GoodView(sv)
    BY <2>1, PartGood DEF Calling
  <2> QED
    BY <1>6, <2>1, <2>2, <2>3, AppendStep
<1>7. ASSUME NEW h \in alive, NEW g \in alive, append_cstr(h, CstrView(g)) PROVE Files!TextNext
  BY <1>7, CstrShows, CstrViewGood, AppendStep DEF Calling, append_cstr
<1>8. ASSUME NEW h \in alive, NEW t \in Literals, append_cstr(h, Literal(t)) PROVE Files!TextNext
  BY <1>8, LiteralShows, LiteralGood, AppendStep DEF append_cstr
<1>9. ASSUME NEW h \in alive, NEW g \in alive, copy_assign(h, g) \/ move_assign(h, g)
      PROVE  Files!TextNext
  BY <1>9, CopyAssignStep, MoveAssignStep
<1> QED
  BY <1>1, <1>2, <1>3, <1>4, <1>5, <1>6, <1>7, <1>8, <1>9 DEF Calls, Chars

-----------------------------------------------------------------------------
(* A call on a file, and the whole.                                        *)

\* A step that no string notices.
LEMMA ElsewhereStep ==
  ASSUME FsIndInv', Files!Watches, ret' = "oom" => ~At("idle") \/ ret = "oom",
         seqs' = seqs, room' = room
  PROVE  Files!FilesNext
<1>1. ret' \in {"ok", "oom", "io"}
  BY DEF FsIndInv, IndInv, TypeOK
<1> QED
  BY <1>1 DEF Files!FilesNext, Files!Elsewhere

\* No string is being read.
Whole == At("fread") => fs.op # "read_to_str"

LEMMA QuietStep ==
  ASSUME FsIndInv', Files!Watches, ret' = "oom" => ~At("idle") \/ ret = "oom",
         UNCHANGED <<str, heap>>, Whole, Whole'
  PROVE  Files!FilesNext
<1>1. Visible' = Visible
  BY DEF Visible, Whole, At, alive
<1> QED
  BY <1>1, SameSeqs, ElsewhereStep

\* A call that reads has seen each file there was since it began, and one that
\* ends forgets them.
LEMMA WatchesStep == ASSUME FsIndInv, FsNext PROVE Files!Watches
<1>1. fs \in Call /\ (At("idle") => fs.seen = {})
  BY DEF FsIndInv, FileOK
<1>2. CASE fs' = NoCall
  BY <1>2, NoCallFacts DEF Files!Watches, At
<1>3. CASE At("idle") /\ fs' = fs
  BY <1>1, <1>3 DEF Files!Watches, At
<1>4. ASSUME NEW pc \in {"size", "fwrite"}, NEW op, NEW h, NEW al, NEW text,
             Opens(pc, op, h, al, text), At("idle"), pc = "size" => file' = file
      PROVE  Files!Watches
  <2>1. fs'.pc = pc /\ fs'.seen = IF pc = "size" THEN {file} ELSE {}
    BY <1>4 DEF Opens, NoCall
  <2> QED
    BY <1>1, <1>4, <2>1 DEF Files!Watches, At
<1>5. CASE At("idle") /\ FsCall
  BY <1>3, <1>4, <1>5 DEF FsCall, fopen_fails, nx_fs_exists, nx_fs_file_size, nx_fs_read_bytes,
     nx_fs_read_to_str_a, fopen_rb, nx_fs_write, nx_fs_append
<1>6. ASSUME ~At("idle"), fs'.pc # "idle", fs'.seen = fs.seen,
             \/ At("fwrite")
             \/ (At("size") \/ At("alloc") \/ At("fread")) /\ file' = file
      PROVE  Files!Watches
  <2>1. CASE At("fwrite")
    BY <1>6, <2>1, WriteFacts DEF Files!Watches, At
  <2>2. CASE (At("size") \/ At("alloc") \/ At("fread")) /\ file' = file
    <3>1. file \in fs.seen
      BY <2>2 DEF FsIndInv, ReadOK
    <3> QED
      BY <1>6, <2>2, <3>1 DEF Files!Watches, At
  <2> QED
    BY <1>6, <2>1, <2>2
<1>7. CASE FsStep
  <2>1. CASE get_file_size \/ get_file_size_fails \/ alloc_str \/ alloc_bytes
    BY <1>1, <1>2, <1>6, <2>1 DEF get_file_size, get_file_size_fails, alloc_str, alloc_bytes,
       Returns, Goes, At, Call
  <2>2. CASE fread_part
    BY <1>1, <1>6, <2>2 DEF fread_part, At, Call
  <2>3. CASE fread_ends \/ fread_short
    BY <1>2, <2>3 DEF fread_ends, fread_short, Returns
  <2>4. CASE fwrite_part
    BY <1>1, <1>6, <2>4 DEF fwrite_part, At, Call
  <2>5. CASE fclose_after_write \/ fclose_loses
    BY <1>2, <2>5, ClosesFacts DEF Returns
  <2> QED
    BY <1>7, <2>1, <2>2, <2>3, <2>4, <2>5 DEF FsStep
<1>8. CASE free_bytes
  BY <1>3, <1>8 DEF free_bytes
<1>9. CASE Others
  <2>1. fs'.pc = fs.pc
    BY <1>1, <1>9 DEF Others, Call
  <2>2. CASE fs.seen # {}
    <3>1. fs'.seen = fs.seen \union {file'} /\ ~At("idle")
      BY <1>1, <1>9, <2>2 DEF Others, Call
    <3> QED
      BY <2>1, <2>2, <3>1 DEF Files!Watches, At
  <2>3. CASE fs.seen = {}
    <3>1. fs'.seen = {}
      BY <1>1, <1>9, <2>3 DEF Others, Call
    <3> QED
      BY <2>3, <3>1 DEF Files!Watches
  <2> QED
    BY <2>2, <2>3
<1> QED
  BY <1>3, <1>5, <1>7, <1>8, <1>9 DEF FsNext

LEMMA FsCallStep ==
  ASSUME FsIndInv', Files!Watches, At("idle"), FsCall PROVE Files!FilesNext
<1>1. CASE fopen_fails \/ nx_fs_exists
  <2>1. UNCHANGED <<str, heap, fs>> /\ ret' # "oom"
    BY <1>1 DEF fopen_fails, nx_fs_exists
  <2>2. Whole /\ Whole'
    BY <2>1 DEF Whole, At
  <2> QED
    BY <2>1, <2>2, QuietStep
<1>2. ASSUME NEW pc \in {"size", "fwrite"}, NEW op, NEW h, NEW al, NEW text,
             Opens(pc, op, h, al, text)
      PROVE  Files!FilesNext
  <2>1. UNCHANGED <<str, heap>> /\ ret' # "oom" /\ fs'.pc = pc
    BY <1>2 DEF Opens, NoCall
  <2>2. Whole /\ Whole'
    BY <2>1 DEF Whole, At
  <2> QED
    BY <2>1, <2>2, QuietStep
<1> QED
  BY <1>1, <1>2 DEF FsCall, nx_fs_file_size, nx_fs_read_bytes, nx_fs_read_to_str_a, fopen_rb,
     nx_fs_write, nx_fs_append

\* The string that a read makes is none until the characters have come.
LEMMA AllocStrStep ==
  ASSUME FsIndInv, FsIndInv', Files!Watches, alloc_str PROVE Files!FilesNext
<1>1. /\ At("alloc") /\ ~At("idle") /\ IndInv /\ fs.h \in Str \ alive /\ fs.al \in Al
      /\ fs.op = "read_to_str" /\ fs.size \in Nat /\ fs \in Call
      /\ new_p(fs.h, fs.size, fs.size, fs.al)
  BY DEF alloc_str, At, FsIndInv, ReadOK, Call
<1>2. CASE ret' # "ok" /\ fs' = NoCall
  <2>1. UNCHANGED <<str, heap>>
    BY <1>1, <1>2 DEF new_p, Created, Fails
  <2>2. Whole /\ Whole'
    BY <1>1, <1>2, NoCallFacts DEF Whole, At
  <2> QED
    BY <1>1, <2>1, <2>2, QuietStep
<1>3. CASE ret' = "ok" /\ Goes("fread")
  <2>1. fs'.pc = "fread" /\ fs'.op = "read_to_str" /\ fs'.h = fs.h
    BY <1>1, <1>3 DEF Goes, Call
  <2>2. PICK h \in Str \ alive, n \in Nat : h = fs.h /\ n = fs.size
    BY <1>1
  <2>3. PICK c : c = Zeros(n + 1)
    OBVIOUS
  <2>4. /\ \A i \in DOMAIN c : c[i] \in Cell /\ n \in 0 .. n
        /\ 0 .. n \subseteq DOMAIN c /\ c[n] = Zero /\ Known(c, n)
    BY <2>3, ZerosFacts
  <2>5. Created(h, n, n, fs.al, c)
    BY <1>1, <1>3, <2>2, <2>3 DEF new_p, Fails
  <2>6. AppearsAs(h, n, n, c)
    <3>1. (\A i \in DOMAIN c : c[i] \in Cell) /\ n \in 0 .. n
      BY <2>3, ZerosFacts
    <3> QED
      BY <1>1, <2>4, <2>5, <3>1, CreatedFits
  <2>7. PICK w : str' = Has(str, h, w) /\ Fits(w, heap', h)
    BY <2>6 DEF AppearsAs
  <2>8. /\ alive' = alive \union {h}
        /\ \A g \in alive \ {h} : str'[g] = str[g] /\ cells(g)' = cells(g)
    BY <1>1, <2>7, OtherStrings
  <2>9. Visible = alive /\ Visible' = alive
    BY <1>1, <2>1, <2>2, <2>8 DEF Visible, At
  <2>10. \A g \in alive : str'[g] = str[g] /\ cells(g)' = cells(g)
    BY <2>2, <2>8
  <2>11. seqs' = seqs /\ room' = room
    BY <2>9, <2>10 DEF seqs, room, Held
  <2> QED
    BY <1>1, <2>11, ElsewhereStep
<1> QED
  BY <1>2, <1>3 DEF alloc_str

\* Nor is one that could not be read.
LEMMA FreadShortStep ==
  ASSUME FsIndInv, FsIndInv', Files!Watches, fread_short PROVE Files!FilesNext
<1>1. /\ At("fread") /\ ~At("idle") /\ IndInv /\ fs'.pc = "idle"
  BY NoCallFacts DEF fread_short, At, FsIndInv, Returns
<1>2. CASE fs.op = "read_to_str"
  <2>1. PICK h \in alive : h = fs.h
    BY <1>1, <1>2 DEF FsIndInv, ReadOK
  <2>2. heap' = nx_al_dealloc(heap, str[h].data) /\ str' = Lacks(str, h)
    BY <1>2, <2>1 DEF fread_short
  <2>3. alive' = alive \ {h} /\ \A g \in alive \ {h} : str'[g] = str[g]
    BY <2>2 DEF alive, Lacks
  <2>4. Visible = alive \ {h} /\ Visible' = alive \ {h}
    BY <1>1, <1>2, <2>1, <2>3 DEF Visible, At
  <2>5. \A g \in alive \ {h} : cells(g)' = cells(g)
    BY <1>1, <2>2, <2>3, FreedCells DEF cells
  <2>6. seqs' = seqs /\ room' = room
    BY <2>3, <2>4, <2>5 DEF seqs, room, Held
  <2> QED
    BY <1>1, <2>6, ElsewhereStep
<1>3. CASE fs.op # "read_to_str"
  <2>1. UNCHANGED <<str, heap>>
    BY <1>3 DEF fread_short, Strings
  <2>2. Whole /\ Whole'
    BY <1>1, <1>3 DEF Whole, At
  <2> QED
    BY <1>1, <2>1, <2>2, QuietStep
<1> QED
  BY <1>2, <1>3

\* While the characters arrive no other string changes.
LEMMA FreadPartStep ==
  ASSUME FsIndInv, FsIndInv', Files!Watches, fread_part PROVE Files!FilesNext
<1>1. PICK f \in fs.seen, n \in Nat \ {0} :
        /\ f \in Seq(Chars) /\ Len(f) \in Nat
        /\ fs.done + n <= fs.size /\ fs.done + n <= Len(f) /\ Filled(f, n)
        /\ fs' = [fs EXCEPT !.done = @ + n]
  BY ReadFacts
<1>2. At("fread") /\ ~At("idle") /\ ret' = ret /\ fs \in Call /\ fs.op \in Reads /\ IndInv
  BY ReadFacts DEF FsIndInv
<1>3. fs'.pc = "fread" /\ fs'.op = fs.op /\ fs'.h = fs.h
  BY <1>1, <1>2 DEF Call, At
<1>4. CASE fs.op = "read_to_str"
  <2>1. /\ UNCHANGED str
        /\ \A g \in alive \ {fs.h} : CellsIn(heap', str[g]) = cells(g)
    BY <1>1, <1>2, <1>4, FilledInv DEF IndInv, TypeOK
  <2>2. Visible = alive \ {fs.h} /\ Visible' = alive \ {fs.h}
    BY <1>2, <1>3, <1>4, <2>1 DEF Visible, At, alive
  <2>3. \A g \in alive \ {fs.h} : cells(g)' = cells(g) /\ str'[g] = str[g]
    BY <2>1 DEF cells
  <2>4. seqs' = seqs /\ room' = room
    BY <2>2, <2>3 DEF seqs, room, Held
  <2> QED
    BY <1>2, <2>4, ElsewhereStep
<1>5. CASE fs.op # "read_to_str"
  <2>1. UNCHANGED <<str, heap>>
    BY <1>1, <1>5 DEF Filled, Strings
  <2>2. Whole /\ Whole'
    BY <1>3, <1>5 DEF Whole
  <2> QED
    BY <1>2, <2>1, <2>2, QuietStep
<1> QED
  BY <1>4, <1>5

\* The string appears when all characters have come.
LEMMA FreadEndsStep ==
  ASSUME FsIndInv, FsIndInv', Files!Watches, fread_ends PROVE Files!FilesNext
<1>1. /\ At("fread") /\ ~At("idle") /\ IndInv /\ fs.done = fs.size /\ UNCHANGED <<str, heap, file>>
      /\ fs'.pc = "idle" /\ fs'.seen = {} /\ ret' = "ok" /\ file \in Seq(Chars) /\ fs \in Call
  BY NoCallFacts DEF fread_ends, At, FsIndInv, FileOK, Returns
<1>2. CASE fs.op = "read_to_str"
  <2>1. PICK h \in alive, n \in Nat : h = fs.h /\ n = fs.size
    BY <1>1, <1>2 DEF FsIndInv, ReadOK, Call
  <2>2. /\ str[h].len = n /\ str[h].cap = n /\ Stood(cells(h), n, fs.seen)
        /\ fs.seen = {file} => n = Len(file)
    BY <1>1, <1>2, <2>1 DEF FsIndInv, ReadOK
  <2>3. alive' = alive /\ Visible = alive \ {h} /\ Visible' = alive
    BY <1>1, <1>2, <2>1 DEF Visible, At, alive
  <2>4. \A g \in alive : Held(g)' = Held(g)
    BY <1>1 DEF Held, cells
  <2>5. Held(h) = [i \in 1 .. n |-> cells(h)[i - 1]]
    BY <2>2 DEF Held
  <2>6. PICK r : r = Held(h)
    OBVIOUS
  <2>7. /\ Len(r) = n
        /\ \A i \in 1 .. n : \E g \in fs.seen : i <= Len(g) /\ r[i] = g[i]
        /\ fs.seen = {file} => r = file
    <3>1. PICK c, S : c = cells(h) /\ S = fs.seen
      OBVIOUS
    <3>2. /\ Stood(c, n, S) /\ r = FirstCells(c, n) /\ (S = {file} => n = Len(file))
          /\ file \in Seq(Chars) /\ n \in Nat
      BY <1>1, <2>1, <2>2, <2>5, <2>6, <3>1 DEF FirstCells
    <3>3. /\ Len(r) = n
          /\ \A i \in 1 .. n : \E g \in S : i <= Len(g) /\ r[i] = g[i]
          /\ S = {file} => r = file
      BY <3>2, StoodFacts
    <3> QED
      BY <3>1, <3>3
  <2>8. /\ DOMAIN room' = alive /\ Files!Lacks(room', h) = room /\ Files!Lacks(seqs', h) = seqs
        /\ room'[h] = n /\ seqs'[h] = r /\ Files!alive = alive \ {h}
    <3>1. room' = [g \in alive |-> str[g].cap] /\ room = [g \in alive \ {h} |-> str[g].cap]
      BY <1>1, <2>3 DEF room
    <3>2. /\ DOMAIN seqs' = alive /\ DOMAIN seqs = alive \ {h}
          /\ seqs = [g \in alive \ {h} |-> seqs[g]]
      BY <2>3 DEF seqs
    <3>3. \A g \in alive \ {h} : seqs'[g] = seqs[g]
      BY <2>3, <2>4 DEF seqs
    <3>4. seqs'[h] = r
      BY <2>3, <2>4, <2>6 DEF seqs
    <3> HIDE DEF seqs, room
    <3> QED
      BY <2>1, <2>2, <3>1, <3>2, <3>3, <3>4 DEF Files!Lacks, Files!alive
  <2>9. Files!ReadToStr(h)
    <3>1. ~At("idle") /\ At("idle")'
      BY <1>1 DEF At
    <3>2. alive = (alive \ {h}) \union {h}
      OBVIOUS
    <3> HIDE DEF seqs, room
    <3> QED
      BY <1>1, <2>7, <2>8, <3>1, <3>2 DEF Files!ReadToStr
  <2>10. h \in Str \ Files!alive
    BY <1>1, <2>8 DEF IndInv, TypeOK
  <2> QED
    BY <1>1, <2>9, <2>10 DEF Files!FilesNext
<1>3. CASE fs.op # "read_to_str"
  <2>1. Whole /\ Whole'
    BY <1>1, <1>3 DEF Whole, At
  <2> QED
    BY <1>1, <2>1, QuietStep
<1> QED
  BY <1>2, <1>3

LEMMA FsStepStep ==
  ASSUME FsIndInv, FsIndInv', Files!Watches, FsStep PROVE Files!FilesNext
<1>1. CASE get_file_size \/ get_file_size_fails
  <2>1. UNCHANGED <<str, heap>> /\ At("size") /\ fs \in Call
    BY <1>1 DEF get_file_size, get_file_size_fails, FsIndInv
  <2>2. fs'.pc # "fread"
    BY <1>1, <2>1, NoCallFacts DEF get_file_size, get_file_size_fails, Returns, Call
  <2>3. Whole /\ Whole' /\ ~At("idle")
    BY <2>1, <2>2 DEF Whole, At
  <2> QED
    BY <2>1, <2>3, QuietStep
<1>2. CASE alloc_bytes
  <2>1. UNCHANGED <<str, heap>> /\ At("alloc") /\ fs \in Call /\ fs.op = "read_bytes"
    BY <1>2 DEF alloc_bytes, FsIndInv
  <2>2. fs'.pc # "fread" \/ fs'.op = "read_bytes"
    BY <1>2, <2>1, NoCallFacts DEF alloc_bytes, Returns, Goes, Call
  <2>3. Whole /\ Whole' /\ ~At("idle")
    BY <2>1, <2>2 DEF Whole, At
  <2> QED
    BY <2>1, <2>3, QuietStep
<1>3. CASE fwrite_part
  <2>1. UNCHANGED <<str, heap>> /\ At("fwrite") /\ fs \in Call /\ ret' = ret
    BY <1>3 DEF fwrite_part, FsIndInv
  <2>2. fs'.pc # "fread"
    BY <1>3, <2>1 DEF fwrite_part, Call, At
  <2>3. Whole /\ Whole' /\ ~At("idle")
    BY <2>1, <2>2 DEF Whole, At
  <2> QED
    BY <2>1, <2>3, QuietStep
<1>4. CASE fclose_after_write \/ fclose_loses
  <2>1. UNCHANGED <<str, heap>> /\ At("fwrite") /\ fs'.pc # "fread"
    BY <1>4, ClosesFacts, NoCallFacts DEF Returns
  <2>2. Whole /\ Whole' /\ ~At("idle")
    BY <2>1 DEF Whole, At
  <2> QED
    BY <2>1, <2>2, QuietStep
<1> QED
  BY <1>1, <1>2, <1>3, <1>4, AllocStrStep, FreadPartStep, FreadEndsStep, FreadShortStep DEF FsStep

LEMMA FilesStep ==
  NoWrap /\ FsIndInv /\ [FsNext]_vars => [Files!FilesNext]_Files!fileVars
<1> SUFFICES ASSUME NoWrap, FsIndInv, [FsNext]_vars PROVE [Files!FilesNext]_Files!fileVars
  OBVIOUS
<1>0. FsIndInv' /\ (FsNext => Files!Watches)
  BY FsNextInv, WatchesStep
<1>1. CASE At("idle") /\ bytes = Null /\ Calls /\ UNCHANGED <<file, handles, bytes, fs>>
  <2>1. Calling
    BY <1>1 DEF Calling, FsIndInv
  <2>2. Files!TextNext
    BY <1>1, <2>1, CallsStep
  <2>3. At("idle")' = At("idle")
    BY <1>1 DEF At
  <2> QED
    BY <1>1, <2>2, <2>3 DEF Files!FilesNext
<1>2. CASE At("idle") /\ bytes = Null /\ FsCall
  BY <1>0, <1>2, FsCallStep DEF FsNext
<1>3. CASE FsStep
  BY <1>0, <1>3, FsStepStep DEF FsNext
<1>4. CASE free_bytes
  <2>1. UNCHANGED <<str, heap, ret, fs>> /\ Whole /\ Whole'
    BY <1>4 DEF free_bytes, Whole, At
  <2> QED
    BY <1>0, <1>4, <2>1, QuietStep DEF FsNext
<1>5. CASE Others
  <2>1. UNCHANGED <<str, heap, ret>> /\ fs \in Call
    BY <1>5 DEF Others, FsIndInv
  <2>2. fs'.pc = fs.pc /\ fs'.op = fs.op /\ fs'.h = fs.h
    BY <1>5, <2>1 DEF Others, Call
  <2>3. Visible' = Visible
    BY <2>1, <2>2 DEF Visible, At, alive
  <2>4. seqs' = seqs /\ room' = room
    BY <2>1, <2>3, SameSeqs
  <2> QED
    BY <1>0, <1>5, <2>1, <2>4, ElsewhereStep DEF FsNext
<1>6. CASE UNCHANGED vars
  <2>1. UNCHANGED <<str, heap, ret, file, fs>>
    BY <1>6 DEF vars
  <2>2. Visible' = Visible /\ At("idle")' = At("idle")
    BY <2>1 DEF Visible, At, alive
  <2>3. seqs' = seqs /\ room' = room
    BY <2>1, <2>2, SameSeqs
  <2> QED
    BY <2>1, <2>2, <2>3 DEF Files!fileVars
<1> QED
  BY <1>1, <1>2, <1>3, <1>4, <1>5, <1>6 DEF FsNext

LEMMA FilesInitStep == FsInit => Files!FilesInit
BY DEF FsInit, Init, NoCall, At, Files!FilesInit, Files!Init, seqs, room, Visible, alive

\* Strings and the file are those of NxFiles: no call changes another string,
\* what append adds is what the view showed when the call began, also when it
\* was of the string itself and its buffer moved, a call fails only for want of
\* room and then changes nothing, and a read makes a string of what the file has
\* held while the call was under way (str.c, fs.c).
THEOREM ImplementsFilesHolds == ASSUME NoWrap PROVE FsSpec => ImplementsFiles
BY FilesInitStep, FilesStep, FsIndInvHolds, PTL DEF FsSpec, ImplementsFiles, Files!FilesSpec
=============================================================================
