-------------------------- MODULE NxHashMap_proofs --------------------------
(***************************************************************************)
(* Proofs about NxHashMap, for every set of keys and values, every hash    *)
(* callback and every capacity: types and sizes; the Robin Hood order, and *)
(* that a search which gives up is right; that no call loses an entry or   *)
(* doubles one, in the middle of whichever loop, and that the map          *)
(* implements NxMapSpec.                                                   *)
(***************************************************************************)
EXTENDS NxHashMap, FiniteSetTheorems, TLAPS

-----------------------------------------------------------------------------
(* Arithmetic.                                                             *)

\* A remainder is smaller than its divisor: h & mask is a slot index.
LEMMA ModInRange ==
  ASSUME NEW h \in Nat, NEW c \in Nat \ {0}
  PROVE  h % c \in 0 .. c - 1
OBVIOUS

\* A product that does not reach USIZE is not changed by the wrap.
LEMMA ModSmall ==
  ASSUME NEW a \in Nat, NEW b \in Nat, a < b
  PROVE  a % b = a
OBVIOUS

\* make_layout never yields a slot smaller than the load factor's denominator.
LEMMA SlotSize == slot_size \in Nat /\ slot_size >= 4
BY SizeAssumption DEF slot_size, val_off, key_off, align_up, SLOT_ALIGN, HASH_SIZE

LEMMA MulMono ==
  ASSUME NEW a \in Nat, NEW b \in Nat, b >= 4
  PROVE  a * b >= a * 4
OBVIOUS

\* In a table that fits its buffer none of the products of needs_grow and
\* grow_and_rehash wraps.
LEMMA NoWrap ==
  ASSUME cap \in Nat, len \in Nat, TableFits, LoadFactor
  PROVE  /\ (len * LOAD_DEN) % USIZE = len * LOAD_DEN
         /\ (cap * LOAD_NUM) % USIZE = cap * LOAD_NUM
         /\ (cap * 2) % USIZE = cap * 2
<1>1. cap * slot_size < USIZE
  BY DEF TableFits
<1>2. cap * 4 <= cap * slot_size /\ cap * slot_size \in Nat
  BY SlotSize, MulMono
<1>3. USIZE \in Nat
  BY SizeAssumption
<1>4. cap * 4 < USIZE /\ len * 4 <= cap * 3
  BY <1>1, <1>2, <1>3 DEF LoadFactor, LOAD_DEN, LOAD_NUM
<1>5. /\ len * 4 \in Nat /\ len * 4 < USIZE
      /\ cap * 3 \in Nat /\ cap * 3 < USIZE
      /\ cap * 2 \in Nat /\ cap * 2 < USIZE
  BY <1>3, <1>4
<1> QED
  BY <1>3, <1>5, ModSmall DEF LOAD_DEN, LOAD_NUM

-----------------------------------------------------------------------------
(* Type correctness and the load factor.                                   *)

\* The index insert_no_grow and find_slot start from, and the next one, are
\* slots of the table.
LEMMA IdealInIdx ==
  ASSUME NEW h \in Nat, cap \in Nat \ {0}
  PROVE  ideal(cap, h) \in Idx
BY ModInRange DEF ideal, Idx

LEMMA SuccInIdx ==
  ASSUME cap \in Nat \ {0}, NEW i \in Idx
  PROVE  succ(cap, i) \in Idx
BY DEF succ, Idx

LEMMA FixHashType ==
  ASSUME NEW h \in Nat
  PROVE  fix_hash(h) \in Nat \ {EMPTY_HASH}
BY DEF fix_hash, EMPTY_HASH

\* The hash of a key is a hash the table may store.
LEMMA KeyHashType ==
  ASSUME hash \in HashFns, NEW k \in Key
  PROVE  fix_hash(hash[k]) \in Nat \ {EMPTY_HASH}
<1>1. hash[k] \in Nat
  BY HashAssumption
<1> QED
  BY <1>1, FixHashType

LEMMA InitTypeInv == Init => TypeInv
<1> SUFFICES ASSUME Init PROVE TypeInv
  OBVIOUS
<1>1. slots = [i \in {} |-> NoEntry] /\ 0 .. cap - 1 = {} /\ 0 .. 0 - 1 = {}
  BY DEF Init, NoTable
<1>2. slots \in [Idx -> Slot] /\ old \in [0 .. 0 - 1 -> Slot]
  BY <1>1 DEF Init, NoTable, Idx
<1>3. TypeOK
  BY <1>2, SizeAssumption DEF Init, TypeOK, Slot, Entry, CallRecord, NoCall, Results, Inserting, NoEntry, Loops, EMPTY_HASH
<1>4. CallOK /\ SizesOK /\ LoadFactor
  BY DEF Init, CallOK, SizesOK, LoadFactor, NoCall, LOAD_DEN, LOAD_NUM, Loops
<1> QED
  BY <1>3, <1>4 DEF TypeInv

\* What the action lemmas assume: the invariant before the step and what
\* follows from it for every action.
LEMMA TypeFacts ==
  ASSUME TypeInv
  PROVE  /\ cap \in Nat /\ len \in Nat /\ len * 4 <= cap * 3
         /\ len > 0 => cap > 0
         /\ \A p \in Idx : slots[p] \in Slot /\ (occ(p) => slots[p] \in Entry)
         /\ \A q \in OldIdx : old[q] \in Slot /\ (old[q].h # EMPTY_HASH => old[q] \in Entry)
         /\ NoEntry \in Slot
         /\ \A e \in Entry : e.h \in Nat \ {EMPTY_HASH} /\ e.k \in Key /\ e.v \in Val
<1> USE DEF TypeInv, TypeOK
<1>1. cap \in Nat /\ len \in Nat /\ len * 4 <= cap * 3
  BY DEF LoadFactor, LOAD_DEN, LOAD_NUM
<1>2. \A e \in Slot : e.h # EMPTY_HASH => e \in Entry
  BY DEF Slot, NoEntry
<1>3. \A e \in Entry : e.h \in Nat \ {EMPTY_HASH} /\ e.k \in Key /\ e.v \in Val
  BY DEF Entry
<1>4. \A p \in Idx : slots[p] \in Slot
  OBVIOUS
<1>5. \A q \in OldIdx : old[q] \in Slot
  BY DEF OldIdx
<1> QED
  BY <1>1, <1>2, <1>3, <1>4, <1>5 DEF occ, Slot

LEMMA DoubleMod ==
  ASSUME NEW a \in Nat, a % 4 = 0
  PROVE  (a * 2) % 4 = 0
OBVIOUS

LEMMA NoTableType == NoTable \in [0 .. 0 - 1 -> Slot]
<1>1. 0 .. 0 - 1 = {}
  OBVIOUS
<1> QED
  BY <1>1 DEF NoTable

LEMMA NoCallType == NoCall \in CallRecord
BY SizeAssumption DEF NoCall, CallRecord

\* A call that returns r, having left a well-formed map behind.
LEMMA LeaveType ==
  ASSUME TypeInv, NEW r \in Results, Leave(r),
         slots' \in [Idx' -> Slot], cap' \in Nat, cap' % 4 = 0, len' \in Nat, LoadFactor',
         hash' = hash, iter' = iter, visited' = visited, promised' \in Nat
  PROVE  TypeInv'
<1> USE DEF Leave
<1>1. old' \in [0 .. 0 - 1 -> Slot] /\ 0 \in 0 .. cap'
  BY NoTableType
<1>2. call' \in CallRecord
  BY NoCallType
<1>3. ret' \in Results /\ tmp' \in Slot
  BY DEF Slot
<1>4. TypeOK'
  BY <1>1, <1>2, <1>3 DEF TypeInv, TypeOK, Inserting, Loops
<1>5. CallOK' /\ SizesOK'
  BY DEF CallOK, SizesOK, Loops, NoCall
<1> QED
  BY <1>4, <1>5 DEF TypeInv

\* A step that keeps the sizes of the map.
LEMMA StayType ==
  ASSUME TypeInv, UNCHANGED <<cap, len, hash>>, slots' \in [Idx -> Slot],
         call' \in CallRecord, ret' \in Results,
         old' = old \/ old' = NoTable,
         pc' \in Loops \union {"none", "idle", "iter"},
         idx' \in Nat, dist' \in Nat, table_cap' \in Nat, ri' \in Nat,
         pc' \in {"find", "shift", "move", "insert"} => idx' \in Idx,
         tmp' \in Slot, pc' \in {"insert", "move"} => tmp' \in Entry,
         iter' \in Int, iter' >= -1, visited' \subseteq Key, promised' = promised
  PROVE  TypeOK' /\ cap' % 4 = 0 /\ LoadFactor'
<1>1. Idx' = Idx
  BY DEF Idx
<1>2. LoadFactor' /\ cap' % 4 = 0
  BY DEF LoadFactor, TypeInv, SizesOK
<1>3. cap' \in Nat /\ len' \in Nat /\ slots' \in [Idx' -> Slot] /\ hash' \in HashFns
  BY <1>1 DEF TypeInv, TypeOK
<1>4. promised' \in Nat
  BY DEF TypeInv, TypeOK
<1>5. \E c \in 0 .. cap' : old' \in [0 .. c - 1 -> Slot]
  <2>1. CASE old' = old
    BY <2>1 DEF TypeInv, TypeOK
  <2>2. CASE old' = NoTable
    <3>1. 0 \in 0 .. cap'
      BY <1>3
    <3> QED
      BY <2>2, <3>1, NoTableType
  <2> QED
    BY <2>1, <2>2
<1> QED
  BY <1>1, <1>2, <1>3, <1>4, <1>5 DEF TypeOK, Inserting

\* find_slot starts inside the table: it is only called on a map with entries.
LEMMA StartFindType ==
  ASSUME TypeInv, NEW r \in CallRecord, r.k \in Key, len > 0, StartFind(r)
  PROVE  idx' \in Idx /\ idx' \in Nat
<1>1. cap \in Nat \ {0}
  BY TypeFacts
<1>2. fix_hash(hash[r.k]) \in Nat
  BY KeyHashType DEF TypeInv, TypeOK
<1> QED
  BY <1>1, <1>2, IdealInIdx DEF StartFind, Idx

LEMMA StartInsertType ==
  ASSUME TypeInv, cap > 0, NEW e \in Entry, NEW l, StartInsert(e, l)
  PROVE  idx' \in Idx /\ idx' \in Nat /\ tmp' \in Entry
<1>1. cap \in Nat \ {0} /\ e.h \in Nat
  BY TypeFacts
<1> QED
  BY <1>1, IdealInIdx DEF StartInsert, Idx

LEMMA CallEntryType ==
  ASSUME TypeInv, call.op = "put"
  PROVE  CallEntry \in Entry
<1>1. call.k \in Key /\ call.v \in Val
  BY DEF TypeInv, CallOK
<1>2. fix_hash(hash[call.k]) \in Nat \ {EMPTY_HASH}
  BY <1>1, KeyHashType DEF TypeInv, TypeOK
<1> QED
  BY <1>1, <1>2 DEF CallEntry, Entry

\* alloc_slots succeeded: the old table waits to be moved to a larger one.
LEMMA NewTableType ==
  ASSUME TypeInv, NEW c \in Nat, c > cap, c % 4 = 0, len * 4 < c * 3,
         pc \in {"grow", "size"}, NewTable(c)
  PROVE  TypeInv'
<1> USE DEF NewTable
<1>1. slots' \in [Idx' -> Slot]
  BY DEF Idx, Slot
<1>2. /\ cap' \in Nat /\ len' \in Nat /\ hash' \in HashFns
      /\ pc' = "rehash" /\ call' \in CallRecord /\ tmp' \in Slot
      /\ idx' \in Nat /\ dist' \in Nat /\ table_cap' \in Nat /\ ri' \in Nat
      /\ ret' \in Results
      /\ iter' \in Int /\ iter' >= -1 /\ visited' \subseteq Key /\ promised' \in Nat
  BY DEF TypeInv, TypeOK, ghosts
<1>3. old' \in [0 .. cap - 1 -> Slot] /\ cap \in 0 .. cap'
  BY DEF TypeInv, TypeOK, Idx
<1>4. TypeOK'
  BY <1>1, <1>2, <1>3 DEF TypeOK, Inserting, Loops
<1>5. CallOK' /\ SizesOK' /\ LoadFactor'
  BY DEF TypeInv, TypeOK, CallOK, SizesOK, LoadFactor, Loops, LOAD_NUM, LOAD_DEN
<1> QED
  BY <1>4, <1>5 DEF TypeInv

LEMMA NextTypeInv == TypeInv /\ [Next]_vars => TypeInv'
<1>a. ASSUME TypeInv, UNCHANGED vars PROVE TypeInv'
  <2> USE <1>a DEF vars, TypeInv
  <2>1. TypeOK'
    BY DEF TypeOK, Idx, Inserting
  <2>2. CallOK'
    BY DEF CallOK
  <2>3. SizesOK'
    BY DEF SizesOK
  <2>4. LoadFactor'
    BY DEF LoadFactor
  <2> QED
    BY <2>1, <2>2, <2>3, <2>4
<1> SUFFICES ASSUME TypeInv, Next PROVE TypeInv'
  BY <1>a
<1> USE TypeFacts DEF TypeInv
<1>0. TableFits
  BY DEF Next
<1>1. ASSUME NEW f \in HashFns, new_p(f) PROVE TypeInv'
  <2>1. TypeOK'
    BY <1>1 DEF new_p, table, locals, ghosts, TypeOK, CallOK, Loops, Slot, Inserting, Idx, Results
  <2>2. CallOK' /\ SizesOK' /\ LoadFactor'
    BY <1>1 DEF new_p, table, locals, ghosts, TypeOK, CallOK, SizesOK, LoadFactor, Loops, Idx, LOAD_NUM, LOAD_DEN, NoCall
  <2> QED
    BY <2>1, <2>2
<1>2. CASE new_p_fails
  <2>1. TypeOK'
    BY <1>2 DEF new_p_fails, table, locals, ghosts, TypeOK, CallOK, Loops, Slot, Inserting, Idx, Results
  <2>2. CallOK' /\ SizesOK' /\ LoadFactor'
    BY <1>2 DEF new_p_fails, table, locals, ghosts, TypeOK, CallOK, SizesOK, LoadFactor, Loops, Idx, LOAD_NUM, LOAD_DEN, NoCall
  <2> QED
    BY <2>1, <2>2
<1>3. CASE drop
  <2>1. TypeOK'
    BY <1>3, NoTableType DEF drop, locals, TypeOK, CallOK, Loops, Slot, Inserting, Idx, Results
  <2>2. CallOK' /\ SizesOK' /\ LoadFactor'
    BY <1>3, NoTableType DEF drop, locals, TypeOK, CallOK, SizesOK, LoadFactor, Loops, Idx, LOAD_NUM, LOAD_DEN, NoCall
  <2> QED
    BY <2>1, <2>2
<1>4. ASSUME NEW k \in Key, get(k) PROVE TypeInv'
  <2> DEFINE r == Request("get", k, NoVal, 0)
  <2>0. r \in CallRecord /\ r.k \in Key /\ (r.op = "put" => r.v \in Val) /\ r.op = "get"
    BY SizeAssumption DEF CallRecord, Request
  <2>1. CASE len > 0 /\ StartFind(r)
    <3>1. idx' \in Idx /\ idx' \in Nat
      BY <2>0, <2>1, StartFindType
    <3>2. TypeOK' /\ cap' % 4 = 0 /\ LoadFactor'
      BY <2>0, <2>1, <3>1, StayType DEF StartFind, table, ghosts, TypeOK, Loops, Slot
    <3>3. CallOK' /\ SizesOK'
      BY <1>4, <2>0, <2>1, <3>2 DEF StartFind, get, MayCall, table, CallOK, SizesOK, Loops
    <3> QED
      BY <3>2, <3>3
  <2>2. CASE ~(len > 0 /\ StartFind(r))
    <3>1. TypeOK' /\ cap' % 4 = 0 /\ LoadFactor'
      BY <1>4, <2>0, <2>2, StayType DEF get, MayCall, table, locals, ghosts, TypeOK, Loops, Slot, Results, Inserting
    <3>2. CallOK' /\ SizesOK'
      BY <1>4, <2>0, <2>2, <3>1 DEF get, MayCall, table, locals, CallOK, SizesOK, Loops
    <3> QED
      BY <3>1, <3>2
  <2> QED
    BY <2>1, <2>2
<1>5. ASSUME NEW k \in Key, remove(k) PROVE TypeInv'
  <2> DEFINE r == Request("remove", k, NoVal, 0)
  <2>0. r \in CallRecord /\ r.k \in Key /\ (r.op = "put" => r.v \in Val) /\ r.op = "remove"
    BY SizeAssumption DEF CallRecord, Request
  <2>1. CASE len > 0 /\ StartFind(r)
    <3>1. idx' \in Idx /\ idx' \in Nat
      BY <2>0, <2>1, StartFindType
    <3>2. TypeOK' /\ cap' % 4 = 0 /\ LoadFactor'
      BY <2>0, <2>1, <3>1, StayType DEF StartFind, table, ghosts, TypeOK, Loops, Slot
    <3>3. CallOK' /\ SizesOK'
      BY <1>5, <2>0, <2>1, <3>2 DEF StartFind, remove, MayCall, table, CallOK, SizesOK, Loops
    <3> QED
      BY <3>2, <3>3
  <2>2. CASE ~(len > 0 /\ StartFind(r))
    <3>1. TypeOK' /\ cap' % 4 = 0 /\ LoadFactor'
      BY <1>5, <2>0, <2>2, StayType DEF remove, MayCall, table, locals, ghosts, TypeOK, Loops, Slot, Results, Inserting
    <3>2. CallOK' /\ SizesOK'
      BY <1>5, <2>0, <2>2, <3>1 DEF remove, MayCall, table, locals, CallOK, SizesOK, Loops
    <3> QED
      BY <3>1, <3>2
  <2> QED
    BY <2>1, <2>2
<1>6. ASSUME NEW k \in Key, NEW v \in Val, put(k, v) PROVE TypeInv'
  <2> DEFINE r == Request("put", k, v, 0)
  <2>0. r \in CallRecord /\ r.k \in Key /\ (r.op = "put" => r.v \in Val) /\ r.op = "put"
    BY SizeAssumption DEF CallRecord, Request
  <2>1. CASE len > 0 /\ StartFind(r)
    <3>1. idx' \in Idx /\ idx' \in Nat
      BY <2>0, <2>1, StartFindType
    <3>2. TypeOK' /\ cap' % 4 = 0 /\ LoadFactor'
      BY <2>0, <2>1, <3>1, StayType DEF StartFind, table, ghosts, TypeOK, Loops, Slot
    <3>3. CallOK' /\ SizesOK'
      BY <1>6, <2>0, <2>1, <3>2 DEF StartFind, put, MayCall, table, CallOK, SizesOK, Loops
    <3> QED
      BY <3>2, <3>3
  <2>2. CASE ~(len > 0 /\ StartFind(r))
    <3>1. TypeOK' /\ cap' % 4 = 0 /\ LoadFactor'
      BY <1>6, <2>0, <2>2, StayType DEF put, MayCall, table, locals, ghosts, TypeOK, Loops, Slot, Results, Inserting
    <3>2. CallOK' /\ SizesOK'
      BY <1>6, <2>0, <2>2, <3>1 DEF put, MayCall, table, locals, CallOK, SizesOK, Loops
    <3> QED
      BY <3>1, <3>2
  <2> QED
    BY <2>1, <2>2
<1>7. ASSUME NEW n \in ReserveArgs, reserve(n) PROVE TypeInv'
  <2>1. /\ table_cap' \in Nat /\ table_cap' % 4 = 0
        /\ call' \in CallRecord /\ call'.op = "reserve"
    BY <1>7, CapAssumption, ReserveAssumption DEF reserve, Request, CallRecord, SizesOK
  <2>2. TypeOK' /\ cap' % 4 = 0 /\ LoadFactor'
    BY <1>7, <2>1, StayType DEF reserve, MayCall, table, ghosts, TypeOK, Loops, Slot
  <2>3. CallOK' /\ SizesOK'
    BY <1>7, <2>1, <2>2 DEF reserve, MayCall, table, CallOK, SizesOK, Loops
  <2> QED
    BY <2>2, <2>3
<1>8. CASE clear
  <2>0. UNCHANGED <<cap, hash, pc, call, locals, ghosts>> /\ pc = "idle" /\ len' = 0 /\ 0 * 4 <= cap * 3
    BY <1>8 DEF clear, MayCall, TypeOK
  <2>1. slots' \in [Idx' -> Slot] /\ ret' \in Results
    BY <1>8, <2>0 DEF clear, Idx, Results, Slot
  <2>2. TypeOK'
    BY <2>0, <2>1 DEF locals, ghosts, TypeOK, Inserting, Loops
  <2>3. CallOK' /\ SizesOK' /\ LoadFactor'
    BY <2>0 DEF locals, CallOK, SizesOK, LoadFactor, Loops, LOAD_NUM, LOAD_DEN, NoCall
  <2> QED
    BY <2>2, <2>3
<1>9. CASE for_each
  <2>0. UNCHANGED <<cap, len, hash>> /\ slots' \in [Idx -> Slot] /\ (old' = old \/ old' = NoTable)
    BY <1>9 DEF for_each, table, locals, ghosts, TypeOK, Slot, Entry, Inserting, Idx
  <2>1. /\ call' \in CallRecord /\ ret' \in Results /\ promised' = promised
        /\ pc' \in Loops \union {"none", "idle", "iter"}
        /\ idx' \in Nat /\ dist' \in Nat /\ table_cap' \in Nat /\ ri' \in Nat
        /\ pc' \in {"find", "shift", "move", "insert"} => idx' \in Idx
        /\ tmp' \in Slot /\ (pc' \in {"insert", "move"} => tmp' \in Entry)
        /\ iter' \in Int /\ iter' >= -1 /\ visited' \subseteq Key
    BY <1>9 DEF for_each, table, locals, ghosts, TypeOK, CallOK, SizesOK, Loops, Slot, Inserting, Idx
  <2>2. TypeOK' /\ cap' % 4 = 0 /\ LoadFactor'
    BY <2>0, <2>1, StayType
  <2>3. CallOK' /\ SizesOK'
    BY <1>9, <2>2 DEF for_each, table, locals, ghosts, CallOK, SizesOK, Loops
  <2> QED
    BY <2>2, <2>3
<1>10. CASE callback_returns
  <2>0. UNCHANGED <<cap, len, hash>> /\ slots' \in [Idx -> Slot] /\ (old' = old \/ old' = NoTable)
    BY <1>10 DEF callback_returns, table, locals, ghosts, TypeOK, Slot, Entry, Inserting, Idx
  <2>1. /\ call' \in CallRecord /\ ret' \in Results /\ promised' = promised
        /\ pc' \in Loops \union {"none", "idle", "iter"}
        /\ idx' \in Nat /\ dist' \in Nat /\ table_cap' \in Nat /\ ri' \in Nat
        /\ pc' \in {"find", "shift", "move", "insert"} => idx' \in Idx
        /\ tmp' \in Slot /\ (pc' \in {"insert", "move"} => tmp' \in Entry)
        /\ iter' \in Int /\ iter' >= -1 /\ visited' \subseteq Key
    BY <1>10 DEF callback_returns, table, locals, ghosts, TypeOK, CallOK, SizesOK, Loops, Slot, Inserting, Idx
  <2>2. TypeOK' /\ cap' % 4 = 0 /\ LoadFactor'
    BY <2>0, <2>1, StayType
  <2>3. CallOK' /\ SizesOK'
    BY <1>10, <2>2 DEF callback_returns, table, locals, ghosts, CallOK, TypeOK, SizesOK, Loops
  <2> QED
    BY <2>2, <2>3
<1>11. CASE find_next
  <2>0. UNCHANGED <<cap, len, hash>> /\ slots' \in [Idx -> Slot] /\ (old' = old \/ old' = NoTable)
    BY <1>11, SuccInIdx DEF find_next, table, locals, ghosts, TypeOK, Slot, Entry, Inserting, Idx
  <2>1. /\ call' \in CallRecord /\ ret' \in Results /\ promised' = promised
        /\ pc' \in Loops \union {"none", "idle", "iter"}
        /\ idx' \in Nat /\ dist' \in Nat /\ table_cap' \in Nat /\ ri' \in Nat
        /\ pc' \in {"find", "shift", "move", "insert"} => idx' \in Idx
        /\ tmp' \in Slot /\ (pc' \in {"insert", "move"} => tmp' \in Entry)
        /\ iter' \in Int /\ iter' >= -1 /\ visited' \subseteq Key
    BY <1>11, SuccInIdx DEF find_next, table, locals, ghosts, TypeOK, CallOK, SizesOK, Loops, Slot, Inserting, Idx
  <2>2. TypeOK' /\ cap' % 4 = 0 /\ LoadFactor'
    BY <2>0, <2>1, StayType
  <2>3. CallOK' /\ SizesOK'
    BY <1>11, <2>2 DEF find_next, table, locals, ghosts, CallOK, SizesOK, Loops
  <2> QED
    BY <2>2, <2>3
<1>12. CASE get_found
  <2>1. slots[idx].v \in Results
    BY <1>12 DEF get_found, Results, TypeOK, Hits, Misses
  <2>2. slots' \in [Idx' -> Slot] /\ cap' \in Nat /\ cap' % 4 = 0 /\ len' \in Nat /\ LoadFactor'
    BY <1>12 DEF get_found, table, TypeOK, SizesOK, LoadFactor, Idx
  <2> QED
    BY <1>12, <2>1, <2>2, LeaveType DEF get_found, table, ghosts, TypeOK
<1>13. CASE get_absent
  <2>1. NoVal \in Results
    BY <1>13 DEF get_absent, Results, TypeOK, Hits, Misses
  <2>2. slots' \in [Idx' -> Slot] /\ cap' \in Nat /\ cap' % 4 = 0 /\ len' \in Nat /\ LoadFactor'
    BY <1>13 DEF get_absent, table, TypeOK, SizesOK, LoadFactor, Idx
  <2> QED
    BY <1>13, <2>1, <2>2, LeaveType DEF get_absent, table, ghosts, TypeOK
<1>14. CASE put_overwrites
  <2>1. "ok" \in Results /\ promised' \in Nat
    BY <1>14 DEF put_overwrites, Results, ghosts, TypeOK, Promise, CallRecord
  <2>4. idx \in Idx /\ slots[idx] \in Slot /\ occ(idx) /\ call.v \in Val
    BY <1>14 DEF put_overwrites, TypeOK, CallOK, Hits, Misses
  <2>5. [slots[idx] EXCEPT !.v = call.v] \in Entry
    BY <2>4 DEF Slot, Entry, NoEntry, occ
  <2>6. slots' \in [Idx -> Slot] /\ cap' = cap
    BY <1>14, <2>4, <2>5 DEF put_overwrites, TypeOK, Slot
  <2>2. slots' \in [Idx' -> Slot] /\ cap' \in Nat /\ cap' % 4 = 0
    BY <2>6 DEF TypeOK, SizesOK, Idx
  <2>3. len' \in Nat /\ LoadFactor'
    BY <1>14 DEF put_overwrites, table, TypeOK, CallOK, SizesOK, LoadFactor, LOAD_NUM, LOAD_DEN
  <2> QED
    BY <1>14, <2>1, <2>2, <2>3, LeaveType DEF put_overwrites, table, ghosts, TypeOK
<1>15. CASE put_absent
  <2>0. UNCHANGED <<cap, len, hash>> /\ slots' \in [Idx -> Slot] /\ (old' = old \/ old' = NoTable)
    BY <1>15 DEF put_absent, table, locals, ghosts, TypeOK, Slot, Entry, Inserting, Idx
  <2>1. /\ call' \in CallRecord /\ ret' \in Results /\ promised' = promised
        /\ pc' \in Loops \union {"none", "idle", "iter"}
        /\ idx' \in Nat /\ dist' \in Nat /\ table_cap' \in Nat /\ ri' \in Nat
        /\ pc' \in {"find", "shift", "move", "insert"} => idx' \in Idx
        /\ tmp' \in Slot /\ (pc' \in {"insert", "move"} => tmp' \in Entry)
        /\ iter' \in Int /\ iter' >= -1 /\ visited' \subseteq Key
    BY <1>15 DEF put_absent, table, locals, ghosts, TypeOK, CallOK, SizesOK, Loops, Slot, Inserting, Idx
  <2>2. TypeOK' /\ cap' % 4 = 0 /\ LoadFactor'
    BY <2>0, <2>1, StayType
  <2>3. CallOK' /\ SizesOK'
    BY <1>15, <2>2 DEF put_absent, table, locals, ghosts, CallOK, SizesOK, Loops
  <2> QED
    BY <2>2, <2>3
<1>16. CASE remove_absent
  <2>1. "false" \in Results
    BY <1>16 DEF remove_absent, Results, TypeOK, Hits, Misses
  <2>2. slots' \in [Idx' -> Slot] /\ cap' \in Nat /\ cap' % 4 = 0 /\ len' \in Nat /\ LoadFactor'
    BY <1>16 DEF remove_absent, table, TypeOK, SizesOK, LoadFactor, Idx
  <2> QED
    BY <1>16, <2>1, <2>2, LeaveType DEF remove_absent, table, ghosts, TypeOK
<1>17. CASE remove_found
  <2>0. UNCHANGED <<cap, len, hash>> /\ slots' \in [Idx -> Slot] /\ (old' = old \/ old' = NoTable)
    BY <1>17 DEF remove_found, table, locals, ghosts, TypeOK, Slot, Entry, Inserting, Idx
  <2>1. /\ call' \in CallRecord /\ ret' \in Results /\ promised' = promised
        /\ pc' \in Loops \union {"none", "idle", "iter"}
        /\ idx' \in Nat /\ dist' \in Nat /\ table_cap' \in Nat /\ ri' \in Nat
        /\ pc' \in {"find", "shift", "move", "insert"} => idx' \in Idx
        /\ tmp' \in Slot /\ (pc' \in {"insert", "move"} => tmp' \in Entry)
        /\ iter' \in Int /\ iter' >= -1 /\ visited' \subseteq Key
    BY <1>17 DEF remove_found, table, locals, ghosts, TypeOK, CallOK, SizesOK, Loops, Slot, Inserting, Idx
  <2>2. TypeOK' /\ cap' % 4 = 0 /\ LoadFactor'
    BY <2>0, <2>1, StayType
  <2>3. CallOK' /\ SizesOK'
    BY <1>17, <2>2 DEF remove_found, table, locals, ghosts, CallOK, SizesOK, Loops
  <2> QED
    BY <2>2, <2>3
<1>18. CASE shift_back
  <2>0. UNCHANGED <<cap, len, hash>> /\ slots' \in [Idx -> Slot] /\ (old' = old \/ old' = NoTable)
    BY <1>18, SuccInIdx DEF shift_back, ghosts, TypeOK, Slot, Entry, Inserting, Idx
  <2>1. /\ call' \in CallRecord /\ ret' \in Results /\ promised' = promised
        /\ pc' \in Loops \union {"none", "idle", "iter"}
        /\ idx' \in Nat /\ dist' \in Nat /\ table_cap' \in Nat /\ ri' \in Nat
        /\ pc' \in {"find", "shift", "move", "insert"} => idx' \in Idx
        /\ tmp' \in Slot /\ (pc' \in {"insert", "move"} => tmp' \in Entry)
        /\ iter' \in Int /\ iter' >= -1 /\ visited' \subseteq Key
    BY <1>18, SuccInIdx DEF shift_back, ghosts, TypeOK, CallOK, SizesOK, Loops, Slot, Inserting, Idx
  <2>2. TypeOK' /\ cap' % 4 = 0 /\ LoadFactor'
    BY <2>0, <2>1, StayType
  <2>3. CallOK' /\ SizesOK'
    BY <1>18, <2>2 DEF shift_back, ghosts, CallOK, SizesOK, Loops
  <2> QED
    BY <2>2, <2>3
<1>19. CASE shift_ends
  <2>1. "true" \in Results /\ promised' \in Nat
    BY <1>19 DEF shift_ends, Results, ghosts, TypeOK, Promise, CallRecord
  <2>2. slots' \in [Idx' -> Slot] /\ cap' \in Nat /\ cap' % 4 = 0
    BY <1>19 DEF shift_ends, table, TypeOK, CallOK, SizesOK, Idx, Slot, Entry, occ, Hits, Misses, NoEntry, Inserting
  <2>3. len' \in Nat /\ LoadFactor'
    BY <1>19 DEF shift_ends, table, TypeOK, CallOK, SizesOK, LoadFactor, LOAD_NUM, LOAD_DEN
  <2> QED
    BY <1>19, <2>1, <2>2, <2>3, LeaveType DEF shift_ends, table, ghosts, TypeOK
<1>20. CASE put_fits
  <2>0. call.op = "put" /\ cap > 0 /\ len * 4 < cap * 3
    BY <1>20, <1>0, NoWrap DEF put_fits, needs_grow, CallOK, LOAD_NUM, LOAD_DEN
  <2>1. tmp' \in Entry /\ idx' \in Idx /\ idx' \in Nat
    BY <1>20, <2>0, CallEntryType, StartInsertType DEF put_fits
  <2>2. /\ UNCHANGED <<cap, len, hash>> /\ slots' \in [Idx -> Slot] /\ (old' = old \/ old' = NoTable)
        /\ call' = call /\ ret' = ret /\ promised' = promised
        /\ pc' \in {"insert", "move"}
        /\ dist' \in Nat /\ table_cap' \in Nat /\ ri' \in Nat
        /\ iter' = iter /\ visited' = visited
    BY <1>20 DEF put_fits, StartInsert, table, ghosts, TypeOK, OldIdx
  <2>3. TypeOK' /\ cap' % 4 = 0 /\ LoadFactor'
    BY <2>1, <2>2, StayType DEF TypeOK, Loops, Slot
  <2>4. CallOK' /\ SizesOK'
    BY <1>20, <2>0, <2>2, <2>3 DEF put_fits, StartInsert, CallOK, SizesOK, Loops, LOAD_NUM, LOAD_DEN
  <2> QED
    BY <2>3, <2>4
<1>21. CASE grow_and_rehash
  <2>1. /\ new_cap \in Nat /\ new_cap > cap /\ new_cap % 4 = 0
        /\ len * 4 < new_cap * 3
    BY CapAssumption, <1>0, NoWrap, DoubleMod DEF new_cap, SizesOK
  <2> QED
    BY <1>21, <2>1, NewTableType DEF grow_and_rehash
<1>22. CASE grow_fails
  <2>1. "oom" \in Results
    BY <1>22 DEF grow_fails, Results, TypeOK, Hits, Misses
  <2>2. slots' \in [Idx' -> Slot] /\ cap' \in Nat /\ cap' % 4 = 0 /\ len' \in Nat /\ LoadFactor'
    BY <1>22 DEF grow_fails, table, TypeOK, SizesOK, LoadFactor, Idx
  <2> QED
    BY <1>22, <2>1, <2>2, LeaveType DEF grow_fails, table, ghosts, TypeOK
<1>23. CASE reserve_doubles
  <2>0. UNCHANGED <<cap, len, hash>> /\ slots' \in [Idx -> Slot] /\ (old' = old \/ old' = NoTable)
    BY <1>23 DEF reserve_doubles, table, locals, ghosts, TypeOK, Slot, Entry, Inserting, Idx
  <2>1. /\ call' \in CallRecord /\ ret' \in Results /\ promised' = promised
        /\ pc' \in Loops \union {"none", "idle", "iter"}
        /\ idx' \in Nat /\ dist' \in Nat /\ table_cap' \in Nat /\ ri' \in Nat
        /\ pc' \in {"find", "shift", "move", "insert"} => idx' \in Idx
        /\ tmp' \in Slot /\ (pc' \in {"insert", "move"} => tmp' \in Entry)
        /\ iter' \in Int /\ iter' >= -1 /\ visited' \subseteq Key
    BY <1>23 DEF reserve_doubles, table, locals, ghosts, TypeOK, CallOK, SizesOK, Loops, Slot, Inserting, Idx
  <2>2. TypeOK' /\ cap' % 4 = 0 /\ LoadFactor'
    BY <2>0, <2>1, StayType
  <2>3. CallOK' /\ SizesOK'
    BY <1>23, <2>2, DoubleMod DEF reserve_doubles, table, locals, ghosts, CallOK, SizesOK, Loops, TypeOK
  <2> QED
    BY <2>2, <2>3
<1>24. CASE reserve_overflows
  <2>1. "oom" \in Results
    BY <1>24 DEF reserve_overflows, Results, TypeOK, Hits, Misses
  <2>2. slots' \in [Idx' -> Slot] /\ cap' \in Nat /\ cap' % 4 = 0 /\ len' \in Nat /\ LoadFactor'
    BY <1>24 DEF reserve_overflows, table, TypeOK, SizesOK, LoadFactor, Idx
  <2> QED
    BY <1>24, <2>1, <2>2, LeaveType DEF reserve_overflows, table, ghosts, TypeOK
<1>25. CASE reserve_enough
  <2>1. "ok" \in Results /\ promised' \in Nat
    BY <1>25 DEF reserve_enough, Results, ghosts, TypeOK, Promise, CallRecord
  <2>2. slots' \in [Idx' -> Slot] /\ cap' \in Nat /\ cap' % 4 = 0
    BY <1>25 DEF reserve_enough, table, TypeOK, CallOK, SizesOK, Idx, Slot, Entry, occ, Hits, Misses, NoEntry, Inserting
  <2>3. len' \in Nat /\ LoadFactor'
    BY <1>25 DEF reserve_enough, table, TypeOK, CallOK, SizesOK, LoadFactor, LOAD_NUM, LOAD_DEN
  <2> QED
    BY <1>25, <2>1, <2>2, <2>3, LeaveType DEF reserve_enough, table, ghosts, TypeOK
<1>26. CASE reserve_allocs
  <2>1. table_cap \in Nat /\ table_cap > cap /\ table_cap % 4 = 0 /\ len * 4 < table_cap * 3
    BY <1>26 DEF reserve_allocs, TypeOK, SizesOK
  <2> QED
    BY <1>26, <2>1, NewTableType DEF reserve_allocs
<1>27. CASE reserve_fails
  <2>1. "oom" \in Results
    BY <1>27 DEF reserve_fails, Results, TypeOK, Hits, Misses
  <2>2. slots' \in [Idx' -> Slot] /\ cap' \in Nat /\ cap' % 4 = 0 /\ len' \in Nat /\ LoadFactor'
    BY <1>27 DEF reserve_fails, table, TypeOK, SizesOK, LoadFactor, Idx
  <2> QED
    BY <1>27, <2>1, <2>2, LeaveType DEF reserve_fails, table, ghosts, TypeOK
<1>28. CASE rehash_skips
  <2>0. UNCHANGED <<cap, len, hash>> /\ slots' \in [Idx -> Slot] /\ (old' = old \/ old' = NoTable)
    BY <1>28 DEF rehash_skips, table, locals, ghosts, TypeOK, Slot, Entry, Inserting, Idx
  <2>1. /\ call' \in CallRecord /\ ret' \in Results /\ promised' = promised
        /\ pc' \in Loops \union {"none", "idle", "iter"}
        /\ idx' \in Nat /\ dist' \in Nat /\ table_cap' \in Nat /\ ri' \in Nat
        /\ pc' \in {"find", "shift", "move", "insert"} => idx' \in Idx
        /\ tmp' \in Slot /\ (pc' \in {"insert", "move"} => tmp' \in Entry)
        /\ iter' \in Int /\ iter' >= -1 /\ visited' \subseteq Key
    BY <1>28 DEF rehash_skips, table, locals, ghosts, TypeOK, CallOK, SizesOK, Loops, Slot, Inserting, Idx
  <2>2. TypeOK' /\ cap' % 4 = 0 /\ LoadFactor'
    BY <2>0, <2>1, StayType
  <2>3. CallOK' /\ SizesOK'
    BY <1>28, <2>2 DEF rehash_skips, table, locals, ghosts, CallOK, SizesOK, Loops
  <2> QED
    BY <2>2, <2>3
<1>29. CASE rehash_moves
  <2>0. cap > 0 /\ (call.op = "put" => len * 4 < cap * 3) /\ old[ri] \in Entry /\ call.op \in {"put", "reserve"}
    BY <1>29 DEF rehash_moves, SizesOK, CallOK, LOAD_NUM, LOAD_DEN
  <2>1. tmp' \in Entry /\ idx' \in Idx /\ idx' \in Nat
    BY <1>29, <2>0, StartInsertType DEF rehash_moves
  <2>2. /\ UNCHANGED <<cap, len, hash>> /\ slots' \in [Idx -> Slot] /\ (old' = old \/ old' = NoTable)
        /\ call' = call /\ ret' = ret /\ promised' = promised
        /\ pc' \in {"insert", "move"}
        /\ dist' \in Nat /\ table_cap' \in Nat /\ ri' \in Nat
        /\ iter' = iter /\ visited' = visited
    BY <1>29 DEF rehash_moves, StartInsert, table, ghosts, TypeOK, OldIdx
  <2>3. TypeOK' /\ cap' % 4 = 0 /\ LoadFactor'
    BY <2>1, <2>2, StayType DEF TypeOK, Loops, Slot
  <2>4. CallOK' /\ SizesOK'
    BY <1>29, <2>0, <2>2, <2>3 DEF rehash_moves, StartInsert, CallOK, SizesOK, Loops, LOAD_NUM, LOAD_DEN
  <2> QED
    BY <2>3, <2>4
<1>30. CASE rehash_done_put
  <2>0. cap > 0 /\ len * 4 < cap * 3 /\ call.op = "put"
    BY <1>30 DEF rehash_done_put, SizesOK, LOAD_NUM, LOAD_DEN
  <2>1. tmp' \in Entry /\ idx' \in Idx /\ idx' \in Nat
    BY <1>30, <2>0, CallEntryType, StartInsertType DEF rehash_done_put
  <2>2. /\ UNCHANGED <<cap, len, hash>> /\ slots' \in [Idx -> Slot] /\ (old' = old \/ old' = NoTable)
        /\ call' = call /\ ret' = ret /\ promised' = promised
        /\ pc' \in {"insert", "move"}
        /\ dist' \in Nat /\ table_cap' \in Nat /\ ri' \in Nat
        /\ iter' = iter /\ visited' = visited
    BY <1>30 DEF rehash_done_put, StartInsert, table, ghosts, TypeOK, OldIdx
  <2>3. TypeOK' /\ cap' % 4 = 0 /\ LoadFactor'
    BY <2>1, <2>2, StayType DEF TypeOK, Loops, Slot
  <2>4. CallOK' /\ SizesOK'
    BY <1>30, <2>0, <2>2, <2>3 DEF rehash_done_put, StartInsert, CallOK, SizesOK, Loops, LOAD_NUM, LOAD_DEN
  <2> QED
    BY <2>3, <2>4
<1>31. CASE rehash_done_reserve
  <2>1. "ok" \in Results /\ promised' \in Nat
    BY <1>31 DEF rehash_done_reserve, Results, ghosts, TypeOK, Promise, CallRecord
  <2>2. slots' \in [Idx' -> Slot] /\ cap' \in Nat /\ cap' % 4 = 0
    BY <1>31 DEF rehash_done_reserve, table, TypeOK, CallOK, SizesOK, Idx, Slot, Entry, occ, Hits, Misses, NoEntry, Inserting
  <2>3. len' \in Nat /\ LoadFactor'
    BY <1>31 DEF rehash_done_reserve, table, TypeOK, CallOK, SizesOK, LoadFactor, LOAD_NUM, LOAD_DEN
  <2> QED
    BY <1>31, <2>1, <2>2, <2>3, LeaveType DEF rehash_done_reserve, table, ghosts, TypeOK
<1>32. CASE insert_advances
  <2>0. UNCHANGED <<cap, len, hash>> /\ slots' \in [Idx -> Slot] /\ (old' = old \/ old' = NoTable)
    BY <1>32, SuccInIdx DEF insert_advances, table, locals, ghosts, TypeOK, Slot, Entry, Inserting, Idx
  <2>1. /\ call' \in CallRecord /\ ret' \in Results /\ promised' = promised
        /\ pc' \in Loops \union {"none", "idle", "iter"}
        /\ idx' \in Nat /\ dist' \in Nat /\ table_cap' \in Nat /\ ri' \in Nat
        /\ pc' \in {"find", "shift", "move", "insert"} => idx' \in Idx
        /\ tmp' \in Slot /\ (pc' \in {"insert", "move"} => tmp' \in Entry)
        /\ iter' \in Int /\ iter' >= -1 /\ visited' \subseteq Key
    BY <1>32, SuccInIdx DEF insert_advances, table, locals, ghosts, TypeOK, CallOK, SizesOK, Loops, Slot, Inserting, Idx
  <2>2. TypeOK' /\ cap' % 4 = 0 /\ LoadFactor'
    BY <2>0, <2>1, StayType
  <2>3. CallOK' /\ SizesOK'
    BY <1>32, <2>2 DEF insert_advances, table, locals, ghosts, CallOK, SizesOK, Loops
  <2> QED
    BY <2>2, <2>3
<1>33. CASE insert_swaps
  <2>a. idx \in Idx /\ slots[idx] \in Entry /\ cap > 0
    BY <1>33 DEF insert_swaps, Inserting, TypeOK, SizesOK
  <2>b. succ(cap, idx) \in Idx /\ succ(cap, idx) \in Nat
    BY <2>a, SuccInIdx DEF Idx
  <2>0. UNCHANGED <<cap, len, hash>> /\ slots' \in [Idx -> Slot] /\ (old' = old \/ old' = NoTable)
    BY <1>33, SuccInIdx DEF insert_swaps, ghosts, TypeOK, Slot, Entry, Inserting, Idx
  <2>1. /\ call' \in CallRecord /\ ret' \in Results /\ promised' = promised
        /\ pc' \in Loops \union {"none", "idle", "iter"}
        /\ idx' \in Nat /\ dist' \in Nat /\ table_cap' \in Nat /\ ri' \in Nat
        /\ pc' \in {"find", "shift", "move", "insert"} => idx' \in Idx
        /\ tmp' \in Slot /\ (pc' \in {"insert", "move"} => tmp' \in Entry)
        /\ iter' \in Int /\ iter' >= -1 /\ visited' \subseteq Key
    BY <1>33, <2>a, <2>b DEF insert_swaps, ghosts, TypeOK, Loops, Slot, Inserting
  <2>2. TypeOK' /\ cap' % 4 = 0 /\ LoadFactor'
    BY <2>0, <2>1, StayType
  <2>3. CallOK' /\ SizesOK'
    BY <1>33, <2>2 DEF insert_swaps, ghosts, CallOK, SizesOK, Loops
  <2> QED
    BY <2>2, <2>3
<1>34. CASE move_places
  <2>0. UNCHANGED <<cap, len, hash>> /\ slots' \in [Idx -> Slot] /\ (old' = old \/ old' = NoTable)
    BY <1>34 DEF move_places, ghosts, TypeOK, Slot, Entry, Inserting, Idx
  <2>1. /\ call' \in CallRecord /\ ret' \in Results /\ promised' = promised
        /\ pc' \in Loops \union {"none", "idle", "iter"}
        /\ idx' \in Nat /\ dist' \in Nat /\ table_cap' \in Nat /\ ri' \in Nat
        /\ pc' \in {"find", "shift", "move", "insert"} => idx' \in Idx
        /\ tmp' \in Slot /\ (pc' \in {"insert", "move"} => tmp' \in Entry)
        /\ iter' \in Int /\ iter' >= -1 /\ visited' \subseteq Key
    BY <1>34 DEF move_places, ghosts, TypeOK, CallOK, SizesOK, Loops, Slot, Inserting, Idx
  <2>2. TypeOK' /\ cap' % 4 = 0 /\ LoadFactor'
    BY <2>0, <2>1, StayType
  <2>3. CallOK' /\ SizesOK'
    BY <1>34, <2>2 DEF move_places, ghosts, CallOK, SizesOK, Loops
  <2> QED
    BY <2>2, <2>3
<1>35. CASE put_places
  <2>1. "ok" \in Results /\ promised' \in Nat
    BY <1>35 DEF put_places, Results, ghosts, TypeOK, Promise, CallRecord
  <2>2. slots' \in [Idx' -> Slot] /\ cap' \in Nat /\ cap' % 4 = 0
    BY <1>35 DEF put_places, table, TypeOK, CallOK, SizesOK, Idx, Slot, Entry, occ, Hits, Misses, NoEntry, Inserting
  <2>3. len' \in Nat /\ LoadFactor'
    BY <1>35 DEF put_places, table, TypeOK, CallOK, SizesOK, LoadFactor, LOAD_NUM, LOAD_DEN
  <2> QED
    BY <1>35, <2>1, <2>2, <2>3, LeaveType DEF put_places, table, ghosts, TypeOK
<1>36. CASE iter_skips
  <2>0. UNCHANGED <<cap, len, hash>> /\ slots' \in [Idx -> Slot] /\ (old' = old \/ old' = NoTable)
    BY <1>36 DEF iter_skips, table, locals, ghosts, TypeOK, Slot, Entry, Inserting, Idx
  <2>1. /\ call' \in CallRecord /\ ret' \in Results /\ promised' = promised
        /\ pc' \in Loops \union {"none", "idle", "iter"}
        /\ idx' \in Nat /\ dist' \in Nat /\ table_cap' \in Nat /\ ri' \in Nat
        /\ pc' \in {"find", "shift", "move", "insert"} => idx' \in Idx
        /\ tmp' \in Slot /\ (pc' \in {"insert", "move"} => tmp' \in Entry)
        /\ iter' \in Int /\ iter' >= -1 /\ visited' \subseteq Key
    BY <1>36 DEF iter_skips, table, locals, ghosts, TypeOK, CallOK, SizesOK, Loops, Slot, Inserting, Idx
  <2>2. TypeOK' /\ cap' % 4 = 0 /\ LoadFactor'
    BY <2>0, <2>1, StayType
  <2>3. CallOK' /\ SizesOK'
    BY <1>36, <2>2 DEF iter_skips, table, locals, ghosts, CallOK, TypeOK, SizesOK, Loops
  <2> QED
    BY <2>2, <2>3
<1>37. CASE iter_ends
  <2>0. UNCHANGED <<cap, len, hash>> /\ slots' \in [Idx -> Slot] /\ (old' = old \/ old' = NoTable)
    BY <1>37 DEF iter_ends, table, locals, ghosts, TypeOK, Slot, Entry, Inserting, Idx
  <2>1. /\ call' \in CallRecord /\ ret' \in Results /\ promised' = promised
        /\ pc' \in Loops \union {"none", "idle", "iter"}
        /\ idx' \in Nat /\ dist' \in Nat /\ table_cap' \in Nat /\ ri' \in Nat
        /\ pc' \in {"find", "shift", "move", "insert"} => idx' \in Idx
        /\ tmp' \in Slot /\ (pc' \in {"insert", "move"} => tmp' \in Entry)
        /\ iter' \in Int /\ iter' >= -1 /\ visited' \subseteq Key
    BY <1>37 DEF iter_ends, table, locals, ghosts, TypeOK, CallOK, SizesOK, Loops, Slot, Inserting, Idx
  <2>2. TypeOK' /\ cap' % 4 = 0 /\ LoadFactor'
    BY <2>0, <2>1, StayType
  <2>3. CallOK' /\ SizesOK'
    BY <1>37, <2>2 DEF iter_ends, table, locals, ghosts, CallOK, SizesOK, Loops
  <2> QED
    BY <2>2, <2>3
<1>38. ASSUME NEW v \in Val, iter_calls(v) PROVE TypeInv'
  <2>a. slots[iter].k \in Key
    BY <1>38 DEF iter_calls, Idx, TypeOK, CallOK
  <2>b. iter \in Idx /\ slots[iter] \in Slot /\ occ(iter) /\ slots \in [Idx -> Slot]
    BY <1>38 DEF iter_calls, Idx, TypeOK, CallOK
  <2>c. [slots[iter] EXCEPT !.v = v] \in Slot
    BY <1>38, <2>b DEF Slot, Entry, NoEntry, occ
  <2>d. slots' \in [Idx -> Slot]
    BY <1>38, <2>b, <2>c DEF iter_calls
  <2>0. UNCHANGED <<cap, len, hash>> /\ slots' \in [Idx -> Slot] /\ (old' = old \/ old' = NoTable)
    BY <1>38, <2>d DEF iter_calls, locals
  <2>1. /\ call' \in CallRecord /\ ret' \in Results /\ promised' = promised
        /\ pc' \in Loops \union {"none", "idle", "iter"}
        /\ idx' \in Nat /\ dist' \in Nat /\ table_cap' \in Nat /\ ri' \in Nat
        /\ pc' \in {"find", "shift", "move", "insert"} => idx' \in Idx
        /\ tmp' \in Slot /\ (pc' \in {"insert", "move"} => tmp' \in Entry)
        /\ iter' \in Int /\ iter' >= -1 /\ visited' \subseteq Key
    BY <1>38, <2>a DEF iter_calls, locals, TypeOK, Loops, Slot, Inserting, Idx
  <2>2. TypeOK' /\ cap' % 4 = 0 /\ LoadFactor'
    BY <2>0, <2>1, StayType
  <2>3. CallOK' /\ SizesOK'
    BY <1>38, <2>2 DEF iter_calls, table, locals, CallOK, SizesOK, Loops
  <2> QED
    BY <2>2, <2>3
<1> QED
  BY <1>1, <1>2, <1>3, <1>4, <1>5, <1>6, <1>7, <1>8, <1>9, <1>10, <1>11, <1>12, <1>13, <1>14, <1>15, <1>16, <1>17, <1>18, <1>19, <1>20, <1>21, <1>22, <1>23, <1>24, <1>25, <1>26, <1>27, <1>28, <1>29, <1>30, <1>31, <1>32, <1>33, <1>34, <1>35, <1>36, <1>37, <1>38 DEF Next, Client, Step

\* Every field, local and argument has its type in every reachable state.
THEOREM TypeCorrect == Spec => []TypeOK
<1>1. TypeInv => TypeOK
  BY DEF TypeInv
<1> QED
  BY <1>1, InitTypeInv, NextTypeInv, PTL DEF Spec

\* The load factor never exceeds 3/4 ("max load factor 0.75"), whatever calls
\* fail, so that every probe meets an empty slot.
THEOREM LoadFactorHolds == Spec => []LoadFactor
<1>1. TypeInv => LoadFactor
  BY DEF TypeInv
<1> QED
  BY <1>1, InitTypeInv, NextTypeInv, PTL DEF Spec

-----------------------------------------------------------------------------
(* Distances along a probe sequence.                                       *)

LEMMA StepsType ==
  ASSUME NEW c \in Nat \ {0}, NEW i \in 0 .. c - 1, NEW j \in 0 .. c - 1
  PROVE  steps(c, i, j) \in Nat /\ steps(c, i, j) < c
BY DEF steps

\* Different slots are at different distances.
LEMMA StepsInjective ==
  ASSUME NEW c \in Nat \ {0}, NEW i \in 0 .. c - 1, NEW j \in 0 .. c - 1, NEW k \in 0 .. c - 1,
         steps(c, i, j) = steps(c, i, k)
  PROVE  j = k
BY DEF steps

LEMMA SuccType ==
  ASSUME NEW c \in Nat \ {0}, NEW j \in 0 .. c - 1
  PROVE  succ(c, j) \in 0 .. c - 1
BY DEF succ

\* The next slot is one step further, unless the sequence has come around.
LEMMA StepsSucc ==
  ASSUME NEW c \in Nat \ {0}, NEW i \in 0 .. c - 1, NEW j \in 0 .. c - 1
  PROVE  steps(c, i, succ(c, j)) = IF steps(c, i, j) + 1 = c THEN 0 ELSE steps(c, i, j) + 1
BY DEF steps, succ

LEMMA IdealType ==
  ASSUME NEW c \in Nat \ {0}, NEW h \in Nat
  PROVE  ideal(c, h) \in 0 .. c - 1
BY ModInRange DEF ideal

LEMMA ProbeType ==
  ASSUME NEW c \in Nat \ {0}, NEW h \in Nat, NEW j \in 0 .. c - 1
  PROVE  steps(c, ideal(c, h), j) \in Nat /\ steps(c, ideal(c, h), j) < c
BY IdealType, StepsType DEF probe_dist

LEMMA SlotHash ==
  ASSUME NEW e \in Slot
  PROVE  e.h \in Nat
BY DEF Slot, Entry, NoEntry, EMPTY_HASH

-----------------------------------------------------------------------------
(* What each write to the table does to the order.                         *)

\* Only the stored hashes matter.
LEMMA SameHashesOrder ==
  ASSUME NEW c \in Nat \ {0}, NEW s, NEW t,
         \A p \in 0 .. c - 1 : t[p].h = s[p].h, Ordered(s, c)
  PROVE  Ordered(t, c)
BY DEF Ordered, PassedUpTo, Passed

\* insert_no_grow writes the carried entry into a free slot, or over an entry
\* that is closer to home.
LEMMA PlaceOrder ==
  ASSUME NEW c \in Nat \ {0}, NEW s \in [0 .. c - 1 -> Slot], Ordered(s, c),
         NEW e \in Entry, NEW i \in 0 .. c - 1,
         PassedUpTo(s, c, e.h, probe_dist(c, e.h, i)),
         s[i].h = EMPTY_HASH \/ probe_dist(c, e.h, i) > probe_dist(c, s[i].h, i)
  PROVE  Ordered([s EXCEPT ![i] = e], c)
<1> DEFINE t == [s EXCEPT ![i] = e]
<1>1. SUFFICES ASSUME NEW p \in 0 .. c - 1, t[p].h # EMPTY_HASH,
                      NEW j \in 0 .. c - 1,
                      steps(c, ideal(c, t[p].h), j) < probe_dist(c, t[p].h, p)
               PROVE  Passed(t, c, t[p].h, j)
  BY DEF Ordered, PassedUpTo
<1>2. t[i] = e /\ \A q \in 0 .. c - 1 : q # i => t[q] = s[q]
  OBVIOUS
<1>3. e.h # EMPTY_HASH /\ e.h \in Nat /\ s[i].h \in Nat /\ s[p].h \in Nat /\ t[p].h \in Nat
  BY <1>2, SlotHash DEF Entry
<1>4. /\ steps(c, ideal(c, t[p].h), j) \in Nat
      /\ probe_dist(c, e.h, i) \in Nat /\ probe_dist(c, s[i].h, i) \in Nat
  BY <1>3, ProbeType DEF probe_dist
<1>5. CASE p = i /\ j = i
  BY <1>1, <1>2, <1>4, <1>5 DEF probe_dist
<1>6. CASE p = i /\ j # i
  BY <1>1, <1>2, <1>6 DEF PassedUpTo, Passed
<1>7. CASE p # i /\ j # i
  BY <1>1, <1>2, <1>7 DEF Ordered, PassedUpTo, Passed
<1>8. CASE p # i /\ j = i
  <2>1. Passed(s, c, s[p].h, i)
    BY <1>1, <1>2, <1>8 DEF Ordered, PassedUpTo
  <2>2. probe_dist(c, e.h, i) >= steps(c, ideal(c, s[p].h), i)
    BY <1>2, <1>4, <1>8, <2>1 DEF Passed
  <2> QED
    BY <1>2, <1>3, <1>8, <2>2 DEF Passed
<1> QED
  BY <1>5, <1>6, <1>7, <1>8

\* One step further, past a slot that holds an entry at least as far from home.
LEMMA AdvanceCarry ==
  ASSUME NEW c \in Nat \ {0}, NEW s, NEW h \in Nat, NEW i \in 0 .. c - 1,
         PassedUpTo(s, c, h, steps(c, ideal(c, h), i)),
         Passed(s, c, h, i)
  PROVE  PassedUpTo(s, c, h, steps(c, ideal(c, h), succ(c, i)))
<1> DEFINE home == ideal(c, h)
<1>1. home \in 0 .. c - 1
  BY IdealType
<1>2. SUFFICES ASSUME NEW j \in 0 .. c - 1, steps(c, home, j) < steps(c, home, succ(c, i))
               PROVE  Passed(s, c, h, j)
  BY DEF PassedUpTo
<1> HIDE DEF home
<1>3. /\ steps(c, home, j) \in Nat /\ steps(c, home, j) < c
      /\ steps(c, home, i) \in Nat /\ steps(c, home, i) < c
  BY <1>1, StepsType
<1>4. steps(c, home, j) < steps(c, home, i) \/ steps(c, home, j) = steps(c, home, i)
  BY <1>1, <1>2, <1>3, StepsSucc
<1>5. CASE steps(c, home, j) < steps(c, home, i)
  BY <1>5 DEF PassedUpTo, home
<1>6. CASE steps(c, home, j) = steps(c, home, i)
  <2>1. j = i
    BY <1>1, <1>6, StepsInjective
  <2> QED
    BY <2>1
<1> QED
  BY <1>4, <1>5, <1>6

\* The displaced entry goes on from the slot after the one it was taken from.
LEMMA SwapCarry ==
  ASSUME NEW c \in Nat \ {0}, NEW s \in [0 .. c - 1 -> Slot], Ordered(s, c),
         NEW e \in Entry, NEW i \in 0 .. c - 1, s[i].h # EMPTY_HASH,
         probe_dist(c, e.h, i) > probe_dist(c, s[i].h, i)
  PROVE  PassedUpTo([s EXCEPT ![i] = e], c, s[i].h, probe_dist(c, s[i].h, succ(c, i)))
<1> DEFINE t == [s EXCEPT ![i] = e]
           d == s[i].h
<1>1. d \in Nat /\ e.h \in Nat \ {EMPTY_HASH}
  BY SlotHash DEF Entry
<1>2. t[i] = e /\ \A q \in 0 .. c - 1 : q # i => t[q] = s[q]
  OBVIOUS
<1>3. PassedUpTo(s, c, d, steps(c, ideal(c, d), i))
  BY DEF Ordered, probe_dist
<1>4. PassedUpTo(t, c, d, steps(c, ideal(c, d), i))
  <2> SUFFICES ASSUME NEW j \in 0 .. c - 1, steps(c, ideal(c, d), j) < steps(c, ideal(c, d), i)
               PROVE  Passed(t, c, d, j)
    BY DEF PassedUpTo
  <2>0. steps(c, ideal(c, d), i) \in Nat
    BY <1>1, ProbeType
  <2>1. j # i
    BY <2>0
  <2> QED
    BY <1>2, <1>3, <2>1 DEF PassedUpTo, Passed
<1>5. Passed(t, c, d, i)
  <2>1. probe_dist(c, e.h, i) \in Nat /\ probe_dist(c, d, i) \in Nat
    BY <1>1, ProbeType DEF probe_dist
  <2> QED
    BY <1>1, <1>2, <2>1 DEF Passed, probe_dist
<1> HIDE DEF t, d
<1>6. PassedUpTo(t, c, d, steps(c, ideal(c, d), succ(c, i)))
  BY <1>1, <1>4, <1>5, AdvanceCarry
<1> QED
  BY <1>6 DEF t, d, probe_dist

\* remove moves the entry of the next slot one step back.
LEMMA ShiftOrder ==
  ASSUME NEW c \in Nat \ {0}, NEW s \in [0 .. c - 1 -> Slot], Ordered(s, c),
         NEW i \in 0 .. c - 1, s[succ(c, i)].h # EMPTY_HASH,
         probe_dist(c, s[succ(c, i)].h, succ(c, i)) # 0
  PROVE  Ordered([s EXCEPT ![i] = s[succ(c, i)]], c)
<1> DEFINE n == succ(c, i)
           t == [s EXCEPT ![i] = s[n]]
           home(q) == ideal(c, s[q].h)
<1>1. n \in 0 .. c - 1
  BY SuccType
<1>2. t[i] = s[n] /\ \A q \in 0 .. c - 1 : q # i => t[q] = s[q]
  BY <1>1
<1>3. \A q \in 0 .. c - 1 : home(q) \in 0 .. c - 1
  BY SlotHash, IdealType
<1>4. \A q, j \in 0 .. c - 1 : steps(c, home(q), j) \in Nat /\ steps(c, home(q), j) < c
  BY <1>3, StepsType
<1>5. \A q \in 0 .. c - 1 :
        steps(c, home(q), n) = IF steps(c, home(q), i) + 1 = c THEN 0 ELSE steps(c, home(q), i) + 1
  BY <1>3, StepsSucc
<1>6. steps(c, home(n), n) = steps(c, home(n), i) + 1
  BY <1>1, <1>4, <1>5 DEF probe_dist
<1>7. \A q, j \in 0 .. c - 1 :
        s[q].h # EMPTY_HASH /\ steps(c, home(q), j) < steps(c, home(q), q)
          => s[j].h # EMPTY_HASH /\ steps(c, home(j), j) >= steps(c, home(q), j)
  BY DEF Ordered, PassedUpTo, Passed, probe_dist
<1>8. SUFFICES ASSUME NEW p \in 0 .. c - 1, t[p].h # EMPTY_HASH,
                      NEW j \in 0 .. c - 1,
                      steps(c, ideal(c, t[p].h), j) < steps(c, ideal(c, t[p].h), p)
               PROVE  t[j].h # EMPTY_HASH /\ steps(c, ideal(c, t[j].h), j) >= steps(c, ideal(c, t[p].h), j)
  BY DEF Ordered, PassedUpTo, Passed, probe_dist
<1>a. \A q \in 0 .. c - 1 :
        /\ steps(c, home(q), i) \in Nat /\ steps(c, home(q), n) \in Nat
        /\ steps(c, home(q), q) \in Nat /\ steps(c, home(q), q) < c
  BY <1>1, <1>4
<1>b. /\ steps(c, home(p), j) \in Nat /\ steps(c, home(n), j) \in Nat
      /\ steps(c, home(n), i) \in Nat /\ steps(c, home(n), n) \in Nat
      /\ steps(c, home(p), i) \in Nat /\ steps(c, home(p), n) \in Nat
  BY <1>1, <1>4
<1>9. CASE p = i
  <2>1. t[p] = s[n] /\ steps(c, home(n), j) < steps(c, home(n), i)
    BY <1>2, <1>8, <1>9
  <2>2. j # i
    BY <1>b, <2>1
  <2>3. steps(c, home(n), j) < steps(c, home(n), n)
    BY <1>b, <1>6, <2>1
  <2> QED
    BY <1>1, <1>2, <1>7, <1>8, <2>1, <2>2, <2>3
<1>10. CASE p # i /\ j # i
  BY <1>2, <1>7, <1>8, <1>10
<1>11. CASE p # i /\ j = i
  <2>1. t[p] = s[p] /\ t[j] = s[n]
    BY <1>2, <1>11
  <2>2. steps(c, home(p), i) < steps(c, home(p), p)
    BY <1>8, <1>11, <2>1
  <2>3. steps(c, home(p), n) = steps(c, home(p), i) + 1
    <3>1. steps(c, home(p), i) + 1 # c
      BY <1>a, <2>2
    <3> QED
      BY <1>5, <3>1
  <2>4. CASE steps(c, home(p), n) < steps(c, home(p), p)
    <3>1. s[n].h # EMPTY_HASH /\ steps(c, home(n), n) >= steps(c, home(p), n)
      BY <1>1, <1>7, <2>1, <2>4, <1>8
    <3>2. steps(c, home(n), i) >= steps(c, home(p), i)
      BY <1>b, <1>6, <2>3, <3>1
    <3> QED
      BY <1>11, <2>1, <3>1, <3>2
  <2>5. CASE steps(c, home(p), n) = steps(c, home(p), p)
    <3>1. p = n
      BY <1>1, <1>3, <2>5, StepsInjective
    <3>2. steps(c, home(n), i) >= steps(c, home(p), i)
      BY <1>1, <1>a, <3>1
    <3> QED
      BY <1>8, <1>11, <2>1, <3>1, <3>2
  <2> QED
    BY <1>a, <2>2, <2>3, <2>4, <2>5
<1> QED
  BY <1>9, <1>10, <1>11

\* remove frees the slot before a free one, or before an entry that is home.
LEMMA FreeOrder ==
  ASSUME NEW c \in Nat \ {0}, NEW s \in [0 .. c - 1 -> Slot], Ordered(s, c),
         NEW i \in 0 .. c - 1,
         \/ s[succ(c, i)].h = EMPTY_HASH
         \/ probe_dist(c, s[succ(c, i)].h, succ(c, i)) = 0
  PROVE  Ordered([s EXCEPT ![i] = NoEntry], c)
<1> DEFINE n == succ(c, i)
           t == [s EXCEPT ![i] = NoEntry]
           home(q) == ideal(c, s[q].h)
<1>1. n \in 0 .. c - 1
  BY SuccType
<1>2. t[i].h = EMPTY_HASH /\ \A q \in 0 .. c - 1 : q # i => t[q] = s[q]
  BY DEF NoEntry
<1>3. \A q \in 0 .. c - 1 : home(q) \in 0 .. c - 1
  BY SlotHash, IdealType
<1>4. \A q, j \in 0 .. c - 1 : steps(c, home(q), j) \in Nat /\ steps(c, home(q), j) < c
  BY <1>3, StepsType
<1>5. \A q, j \in 0 .. c - 1 :
        s[q].h # EMPTY_HASH /\ steps(c, home(q), j) < steps(c, home(q), q)
          => s[j].h # EMPTY_HASH /\ steps(c, home(j), j) >= steps(c, home(q), j)
  BY DEF Ordered, PassedUpTo, Passed, probe_dist
<1>6. SUFFICES ASSUME NEW p \in 0 .. c - 1, t[p].h # EMPTY_HASH,
                      NEW j \in 0 .. c - 1,
                      steps(c, ideal(c, t[p].h), j) < steps(c, ideal(c, t[p].h), p)
               PROVE  t[j].h # EMPTY_HASH /\ steps(c, ideal(c, t[j].h), j) >= steps(c, ideal(c, t[p].h), j)
  BY DEF Ordered, PassedUpTo, Passed, probe_dist
<1>7. p # i /\ t[p] = s[p]
  BY <1>2, <1>6
<1>a. \A q \in 0 .. c - 1 :
        /\ steps(c, home(q), i) \in Nat /\ steps(c, home(q), n) \in Nat
        /\ steps(c, home(q), q) \in Nat /\ steps(c, home(q), q) < c
  BY <1>1, <1>4
<1>8. j # i
  <2> SUFFICES ASSUME j = i PROVE FALSE
    OBVIOUS
  <2>1. steps(c, home(p), i) < steps(c, home(p), p)
    BY <1>6, <1>7
  <2>2. steps(c, home(p), n) = steps(c, home(p), i) + 1
    <3>1. steps(c, home(p), i) + 1 # c
      BY <1>a, <2>1
    <3> QED
      BY <1>3, <3>1, StepsSucc
  <2>3. CASE steps(c, home(p), n) < steps(c, home(p), p)
    <3>1. s[n].h # EMPTY_HASH /\ steps(c, home(n), n) >= steps(c, home(p), n)
      BY <1>1, <1>5, <1>6, <1>7, <2>3
    <3>2. steps(c, home(n), n) = 0
      BY <3>1 DEF probe_dist
    <3>3. steps(c, home(p), i) \in Nat
      BY <1>a
    <3> QED
      BY <2>2, <3>1, <3>2, <3>3
  <2>4. CASE steps(c, home(p), n) = steps(c, home(p), p)
    <3>1. p = n
      BY <1>1, <1>3, <2>4, StepsInjective
    <3>2. steps(c, home(n), n) = 0
      BY <1>6, <1>7, <3>1 DEF probe_dist
    <3>3. steps(c, home(p), i) \in Nat
      BY <1>a
    <3> QED
      BY <2>2, <2>4, <3>1, <3>2, <3>3
  <2> QED
    BY <1>a, <2>1, <2>2, <2>3, <2>4
<1> QED
  BY <1>2, <1>5, <1>6, <1>7, <1>8

-----------------------------------------------------------------------------
(* The steps of the map keep TableOK.                                      *)

LEMMA InitTableOK == Init => TableOK
BY DEF Init, TableOK, RobinHood, Ordered, CarryOK, SearchOK, Inserting, Idx, OldIdx, NoTable

\* Steps that write no slot and begin no probe.
LEMMA QuietKeeps ==
  ASSUME TableOK, UNCHANGED <<slots, cap, hash>>, old' = old \/ old' = NoTable,
         pc' \notin {"find", "insert", "move"}
  PROVE  TableOK'
<1>1. \A q \in OldIdx' : HashOK(old[q])'
  BY DEF TableOK, HashOK, OldIdx, NoTable
<1>2. RobinHood' /\ \A p \in Idx' : HashOK(slots[p])'
  BY DEF TableOK, RobinHood, HashOK, Idx
<1> QED
  BY <1>1, <1>2 DEF TableOK, CarryOK, SearchOK, Inserting

\* A search begins at the ideal slot, no step from home.
LEMMA StartFindKeeps ==
  ASSUME TypeInv, TableOK, NEW r \in CallRecord, r.k \in Key, len > 0, StartFind(r)
  PROVE  TableOK'
<1>0. hash \in HashFns
  BY DEF TypeInv, TypeOK
<1>1. cap \in Nat \ {0} /\ fix_hash(hash[r.k]) \in Nat
  BY <1>0, TypeFacts, KeyHashType
<1> DEFINE home == ideal(cap, fix_hash(hash[r.k]))
<1>2. home \in 0 .. cap - 1 /\ steps(cap, home, home) = 0
  BY <1>1, IdealType DEF steps
<1>3. \A j \in 0 .. cap - 1 : steps(cap, home, j) >= 0
  BY <1>1, <1>2, StepsType
<1>4. SearchOK'
  BY <1>2, <1>3 DEF StartFind, SearchOK, Idx, table
<1>5. RobinHood' /\ (\A p \in Idx' : HashOK(slots[p])') /\ (\A q \in OldIdx' : HashOK(old[q])')
  BY DEF StartFind, table, TableOK, RobinHood, HashOK, Idx, OldIdx
<1> QED
  BY <1>4, <1>5 DEF TableOK, CarryOK, Inserting, StartFind

\* So does an insertion.
LEMMA StartInsertKeeps ==
  ASSUME TypeInv, TableOK, cap > 0, UNCHANGED <<slots, cap, hash>>, old' = old \/ old' = NoTable,
         NEW e \in Entry, HashOK(e), StartInsert(e, "insert") \/ StartInsert(e, "move")
  PROVE  TableOK'
<1>1. cap \in Nat \ {0} /\ e.h \in Nat
  BY TypeFacts
<1>2. probe_dist(cap, e.h, ideal(cap, e.h)) = 0
  BY <1>1, IdealType DEF probe_dist, steps
<1>3. CarryOK'
  <2>1. PassedUpTo(slots, cap, e.h, 0)
    <3> SUFFICES ASSUME NEW j \in 0 .. cap - 1, steps(cap, ideal(cap, e.h), j) < 0 PROVE FALSE
      BY DEF PassedUpTo
    <3>1. steps(cap, ideal(cap, e.h), j) \in Nat
      BY <1>1, ProbeType
    <3> QED
      BY <3>1
  <2> QED
    BY <1>2, <2>1 DEF CarryOK, StartInsert
<1>4. RobinHood' /\ \A p \in Idx' : HashOK(slots[p])'
  BY DEF TableOK, RobinHood, HashOK, Idx
<1>5. \A q \in OldIdx' : HashOK(old[q])'
  BY DEF TableOK, HashOK, OldIdx, NoTable
<1> QED
  BY <1>3, <1>4, <1>5 DEF TableOK, SearchOK, HashOK, StartInsert

\* A table of free slots.
LEMMA EmptyTableOrdered ==
  ASSUME NEW c \in Nat
  PROVE  Ordered([p \in 0 .. c - 1 |-> NoEntry], c)
BY DEF Ordered, NoEntry

LEMMA NewTableKeeps ==
  ASSUME TypeInv, TableOK, NEW c \in Nat, NewTable(c)
  PROVE  TableOK'
<1>1. RobinHood'
  BY EmptyTableOrdered DEF NewTable, RobinHood
<1>2. (\A p \in Idx' : HashOK(slots[p])') /\ \A q \in OldIdx' : HashOK(old[q])'
  BY DEF NewTable, TableOK, TypeInv, TypeOK, HashOK, Idx, OldIdx, NoEntry
<1> QED
  BY <1>1, <1>2 DEF NewTable, TableOK, CarryOK, SearchOK, Inserting

\* Writing a value changes no hash and no key.
LEMMA WriteValueKeeps ==
  ASSUME TypeInv, TableOK, UNCHANGED <<cap, hash, old>>, NEW i \in Idx, NEW v,
         slots' = [slots EXCEPT ![i].v = v], slots' \in [Idx -> Slot],
         pc' \notin {"find", "insert", "move"}
  PROVE  TableOK'
<1>1. \A p \in Idx : slots'[p].h = slots[p].h /\ slots'[p].k = slots[p].k
  BY DEF TypeInv, TypeOK, Slot, Entry, NoEntry
<1>2. RobinHood'
  <2>1. CASE cap = 0
    BY <2>1 DEF RobinHood, Ordered
  <2>2. CASE cap # 0
    BY <1>1, <2>2, TypeFacts, SameHashesOrder DEF RobinHood, TableOK, Idx
  <2> QED
    BY <2>1, <2>2
<1>3. (\A p \in Idx' : HashOK(slots[p])') /\ \A q \in OldIdx' : HashOK(old[q])'
  BY <1>1 DEF TableOK, HashOK, Idx, OldIdx
<1> QED
  BY <1>2, <1>3 DEF TableOK, CarryOK, SearchOK, Inserting

\* What find_slot knows when it goes on: the slot it leaves is not the key's,
\* and it is not closer to home than the search.
LEMMA FindNextKeeps ==
  ASSUME TypeInv, TableOK, find_next
  PROVE  TableOK'
<1> DEFINE h == fix_hash(hash[call.k])
           home == ideal(cap, h)
<1>1. /\ cap \in Nat \ {0} /\ h \in Nat /\ idx \in 0 .. cap - 1 /\ dist \in Nat
      /\ call.k \in Key /\ idx' = succ(cap, idx)
  BY TypeFacts, KeyHashType DEF find_next, TypeInv, TypeOK, CallOK, SizesOK, Idx
<1>2. home \in 0 .. cap - 1
  BY <1>1, IdealType
<1>3. /\ occ(idx) /\ slots[idx].h \in Nat
      /\ dist <= probe_dist(cap, slots[idx].h, idx)
      /\ ~(slots[idx].h = h /\ slots[idx].k = call.k)
  <2>1. slots[idx].h \in Nat
    BY <1>1, SlotHash DEF TypeInv, TypeOK, Idx
  <2>2. probe_dist(cap, slots[idx].h, idx) \in Nat
    BY <1>1, <2>1, ProbeType DEF probe_dist
  <2> QED
    BY <1>1, <2>1, <2>2 DEF find_next, Misses, Hits
<1>4. dist < cap
  <2>1. probe_dist(cap, slots[idx].h, idx) \in Nat /\ probe_dist(cap, slots[idx].h, idx) < cap
    BY <1>1, <1>3, ProbeType DEF probe_dist
  <2> QED
    BY <1>1, <1>3, <2>1
<1>5. dist = steps(cap, home, idx)
  BY <1>1, <1>4 DEF TableOK, SearchOK, find_next
<1>6. /\ \A j \in 0 .. cap - 1 : occ(j) /\ slots[j].k = call.k => steps(cap, home, j) >= dist
      /\ \A p \in 0 .. cap - 1 : HashOK(slots[p])
  BY DEF TableOK, SearchOK, find_next, Idx
<1>7. slots[idx].k # call.k
  BY <1>1, <1>3, <1>6 DEF HashOK, occ
<1>8. \A j \in 0 .. cap - 1 : occ(j) /\ slots[j].k = call.k => steps(cap, home, j) >= dist + 1
  <2> SUFFICES ASSUME NEW j \in 0 .. cap - 1, occ(j), slots[j].k = call.k
               PROVE  steps(cap, home, j) >= dist + 1
    OBVIOUS
  <2>1. steps(cap, home, j) \in Nat /\ steps(cap, home, j) >= dist
    BY <1>1, <1>2, <1>6, StepsType
  <2>2. steps(cap, home, j) # dist
    BY <1>1, <1>2, <1>5, <1>7, StepsInjective
  <2> QED
    BY <1>1, <2>1, <2>2
<1>9. dist + 1 = steps(cap, home, succ(cap, idx)) \/ dist + 1 = cap
  BY <1>1, <1>2, <1>5, StepsSucc
<1>10. SearchOK'
  BY <1>1, <1>8, <1>9 DEF find_next, SearchOK, table, Idx, occ
<1>11. RobinHood' /\ (\A p \in Idx' : HashOK(slots[p])') /\ (\A q \in OldIdx' : HashOK(old[q])')
  BY DEF find_next, table, TableOK, RobinHood, HashOK, Idx, OldIdx
<1> QED
  BY <1>10, <1>11 DEF TableOK, CarryOK, Inserting, find_next

\* What the loop of insert_no_grow starts each iteration with.
LEMMA InsertFacts ==
  ASSUME TypeInv, TableOK, Inserting
  PROVE  /\ cap \in Nat \ {0} /\ idx \in 0 .. cap - 1 /\ tmp \in Entry /\ tmp.h \in Nat
         /\ slots \in [0 .. cap - 1 -> Slot] /\ Ordered(slots, cap) /\ slots[idx].h \in Nat
         /\ PassedUpTo(slots, cap, tmp.h, probe_dist(cap, tmp.h, idx))
         /\ HashOK(tmp) /\ HashOK(slots[idx])
         /\ probe_dist(cap, tmp.h, idx) \in Nat /\ probe_dist(cap, slots[idx].h, idx) \in Nat
<1>1. /\ cap \in Nat \ {0} /\ idx \in 0 .. cap - 1 /\ tmp \in Entry /\ tmp.h \in Nat
      /\ slots \in [0 .. cap - 1 -> Slot]
  BY TypeFacts DEF TypeInv, TypeOK, SizesOK, Inserting, Idx
<1>2. slots[idx].h \in Nat
  BY <1>1, SlotHash
<1>3. probe_dist(cap, tmp.h, idx) \in Nat /\ probe_dist(cap, slots[idx].h, idx) \in Nat
  BY <1>1, <1>2, ProbeType DEF probe_dist
<1> QED
  BY <1>1, <1>2, <1>3 DEF TableOK, CarryOK, RobinHood, Idx

LEMMA AdvanceKeeps ==
  ASSUME TypeInv, TableOK, insert_advances
  PROVE  TableOK'
<1>1. Passed(slots, cap, tmp.h, idx)
  BY InsertFacts DEF insert_advances, Richer, occ, Passed, probe_dist
<1>2. PassedUpTo(slots, cap, tmp.h, probe_dist(cap, tmp.h, succ(cap, idx)))
  BY <1>1, InsertFacts, AdvanceCarry DEF insert_advances, probe_dist
<1>3. CarryOK'
  BY <1>2 DEF CarryOK, insert_advances, table
<1>4. RobinHood' /\ (\A p \in Idx' : HashOK(slots[p])') /\ (\A q \in OldIdx' : HashOK(old[q])')
  BY DEF insert_advances, table, TableOK, RobinHood, HashOK, Idx, OldIdx
<1> QED
  BY <1>3, <1>4 DEF TableOK, SearchOK, Inserting, HashOK, insert_advances

\* The carried entry is written into slot idx.
LEMMA WriteEntryKeeps ==
  ASSUME TypeInv, TableOK, Inserting, ~occ(idx) \/ Richer,
         UNCHANGED <<cap, hash>>, old' = old \/ old' = NoTable, slots' = [slots EXCEPT ![idx] = tmp]
  PROVE  RobinHood' /\ (\A p \in Idx' : HashOK(slots[p])') /\ (\A q \in OldIdx' : HashOK(old[q])')
<1>1. Ordered([slots EXCEPT ![idx] = tmp], cap)
  BY InsertFacts, PlaceOrder DEF occ, Richer
<1>2. \A p \in 0 .. cap - 1 : slots'[p] = IF p = idx THEN tmp ELSE slots[p]
  BY InsertFacts
<1>3. \A p \in Idx' : HashOK(slots[p])'
  BY <1>2, InsertFacts DEF TableOK, HashOK, Idx
<1>4. \A q \in OldIdx' : HashOK(old[q])'
  BY DEF TableOK, HashOK, OldIdx, NoTable
<1> QED
  BY <1>1, <1>3, <1>4 DEF RobinHood

LEMMA SwapKeeps ==
  ASSUME TypeInv, TableOK, insert_swaps
  PROVE  TableOK'
<1>1. RobinHood' /\ (\A p \in Idx' : HashOK(slots[p])') /\ (\A q \in OldIdx' : HashOK(old[q])')
  BY WriteEntryKeeps DEF insert_swaps
<1>2. PassedUpTo([slots EXCEPT ![idx] = tmp], cap, slots[idx].h,
                 probe_dist(cap, slots[idx].h, succ(cap, idx)))
  BY InsertFacts, SwapCarry DEF insert_swaps, occ, Richer
<1>3. CarryOK'
  BY <1>2 DEF CarryOK, insert_swaps
<1>4. (Inserting => HashOK(tmp))'
  BY InsertFacts DEF insert_swaps, HashOK
<1> QED
  BY <1>1, <1>3, <1>4 DEF TableOK, SearchOK, Inserting, insert_swaps

LEMMA ShiftBackKeeps ==
  ASSUME TypeInv, TableOK, shift_back
  PROVE  TableOK'
<1>1. /\ cap \in Nat \ {0} /\ idx \in 0 .. cap - 1 /\ slots \in [0 .. cap - 1 -> Slot]
      /\ succ(cap, idx) \in 0 .. cap - 1
  <2>1. pc = "shift"
    BY DEF shift_back
  <2>2. cap \in Nat \ {0}
    BY <2>1, TypeFacts DEF TypeInv, SizesOK
  <2>3. idx \in 0 .. cap - 1 /\ slots \in [0 .. cap - 1 -> Slot]
    BY <2>1 DEF TypeInv, TypeOK, Idx
  <2> QED
    BY <2>2, <2>3, SuccType
<1>2. Ordered([slots EXCEPT ![idx] = slots[succ(cap, idx)]], cap)
  BY <1>1, ShiftOrder DEF shift_back, ShiftStops, occ, TableOK, RobinHood
<1>3. \A p \in 0 .. cap - 1 : HashOK(slots[p])
  BY DEF TableOK, Idx
<1>4. \A p \in Idx' : HashOK(slots[p])'
  BY <1>1, <1>3 DEF shift_back, HashOK, Idx
<1>5. \A q \in OldIdx' : HashOK(old[q])'
  BY DEF shift_back, TableOK, HashOK, OldIdx
<1> QED
  BY <1>2, <1>4, <1>5 DEF TableOK, RobinHood, CarryOK, SearchOK, Inserting, shift_back

LEMMA ShiftEndsKeeps ==
  ASSUME TypeInv, TableOK, shift_ends
  PROVE  TableOK'
<1>1. /\ cap \in Nat \ {0} /\ idx \in 0 .. cap - 1 /\ slots \in [0 .. cap - 1 -> Slot]
      /\ succ(cap, idx) \in 0 .. cap - 1
  <2>1. pc = "shift"
    BY DEF shift_ends
  <2>2. cap \in Nat \ {0}
    BY <2>1, TypeFacts DEF TypeInv, SizesOK
  <2>3. idx \in 0 .. cap - 1 /\ slots \in [0 .. cap - 1 -> Slot]
    BY <2>1 DEF TypeInv, TypeOK, Idx
  <2> QED
    BY <2>2, <2>3, SuccType
<1>2. Ordered([slots EXCEPT ![idx] = NoEntry], cap)
  BY <1>1, FreeOrder DEF shift_ends, ShiftStops, occ, TableOK, RobinHood
<1>3. \A p \in 0 .. cap - 1 : HashOK(slots[p])
  BY DEF TableOK, Idx
<1>4. \A p \in Idx' : HashOK(slots[p])'
  BY <1>1, <1>3 DEF shift_ends, HashOK, Idx, NoEntry
<1>5. \A q \in OldIdx' : HashOK(old[q])'
  BY DEF shift_ends, Leave, HashOK, OldIdx, NoTable
<1> QED
  BY <1>2, <1>4, <1>5 DEF TableOK, RobinHood, CarryOK, SearchOK, Inserting, shift_ends, Leave

LEMMA NextTableOK == TypeInv /\ TableOK /\ [Next]_vars => TableOK'
<1> SUFFICES ASSUME TypeInv, TableOK, Next PROVE TableOK'
  BY DEF vars, TableOK, RobinHood, CarryOK, SearchOK, Inserting, HashOK, Idx, OldIdx, occ
<1>0. TableFits
  BY DEF Next
<1> DEFINE Quiet == /\ UNCHANGED <<slots, cap, hash>> /\ (old' = old \/ old' = NoTable)
                    /\ pc' \notin {"find", "insert", "move"}
<1>q. ASSUME Quiet PROVE TableOK'
  BY <1>q, QuietKeeps
<1>1. CASE \E f \in HashFns : new_p(f)
  <2>1. cap = 0 /\ old = NoTable /\ UNCHANGED <<slots, cap, old>> /\ pc' = "idle"
    BY <1>1 DEF new_p, table, locals, TypeInv, SizesOK, CallOK
  <2> QED
    BY <2>1 DEF TableOK, RobinHood, Ordered, CarryOK, SearchOK, Inserting, Idx, OldIdx, NoTable
<1>2. CASE drop
  BY <1>2 DEF drop, locals, TypeInv, CallOK, TableOK, RobinHood, Ordered, CarryOK, SearchOK,
              Inserting, Idx, OldIdx, NoTable, HashOK, Loops
<1>3. CASE new_p_fails \/ for_each \/ callback_returns
  <2>1. Quiet
    BY <1>3 DEF new_p_fails, for_each, callback_returns, table, locals
  <2> QED
    BY <2>1, <1>q
<1>4. ASSUME NEW k \in Key, get(k) PROVE TableOK'
  <2> DEFINE r == Request("get", k, NoVal, 0)
  <2>1. r \in CallRecord /\ r.k \in Key
    BY SizeAssumption DEF CallRecord, Request
  <2>2. CASE len > 0 /\ StartFind(r)
    BY <2>1, <2>2, StartFindKeeps
  <2>3. CASE ~(len > 0 /\ StartFind(r))
    <3>1. Quiet
      BY <1>4, <2>3 DEF get, MayCall, table, locals
    <3> QED
      BY <3>1, <1>q
  <2> QED
    BY <2>2, <2>3
<1>5. ASSUME NEW k \in Key, remove(k) PROVE TableOK'
  <2> DEFINE r == Request("remove", k, NoVal, 0)
  <2>1. r \in CallRecord /\ r.k \in Key
    BY SizeAssumption DEF CallRecord, Request
  <2>2. CASE len > 0 /\ StartFind(r)
    BY <2>1, <2>2, StartFindKeeps
  <2>3. CASE ~(len > 0 /\ StartFind(r))
    <3>1. Quiet
      BY <1>5, <2>3 DEF remove, MayCall, table, locals
    <3> QED
      BY <3>1, <1>q
  <2> QED
    BY <2>2, <2>3
<1>6. ASSUME NEW k \in Key, NEW v \in Val, put(k, v) PROVE TableOK'
  <2> DEFINE r == Request("put", k, v, 0)
  <2>1. r \in CallRecord /\ r.k \in Key
    BY SizeAssumption DEF CallRecord, Request
  <2>2. CASE len > 0 /\ StartFind(r)
    BY <2>1, <2>2, StartFindKeeps
  <2>3. CASE ~(len > 0 /\ StartFind(r))
    <3>1. Quiet
      BY <1>6, <2>3 DEF put, table, locals
    <3> QED
      BY <3>1, <1>q
  <2> QED
    BY <2>2, <2>3
<1>7. ASSUME NEW n \in ReserveArgs, reserve(n) PROVE TableOK'
  <2>1. Quiet
    BY <1>7 DEF reserve, table
  <2> QED
    BY <2>1, <1>q
<1>8. CASE clear
  <2>1. UNCHANGED <<cap, hash, pc, old>> /\ pc = "idle" /\ slots' = [p \in 0 .. cap - 1 |-> NoEntry]
    BY <1>8 DEF clear, MayCall, locals, Idx
  <2>2. RobinHood' /\ \A p \in Idx' : HashOK(slots[p])'
    BY <2>1, EmptyTableOrdered DEF RobinHood, HashOK, Idx, NoEntry, TypeInv, TypeOK
  <2> QED
    BY <2>1, <2>2 DEF TableOK, CarryOK, SearchOK, Inserting, HashOK, OldIdx
<1>9. CASE find_next
  BY <1>9, FindNextKeeps
<1>10. CASE get_found \/ get_absent \/ put_absent \/ remove_absent \/ remove_found
  <2>1. Quiet
    BY <1>10 DEF get_found, get_absent, put_absent, remove_absent, remove_found, Leave, table
  <2> QED
    BY <2>1, <1>q
<1>11. CASE put_overwrites
  <2>1. /\ idx \in Idx /\ call.v \in Val /\ occ(idx) /\ pc' = "idle"
        /\ UNCHANGED <<cap, hash>> /\ old = NoTable /\ old' = NoTable
        /\ slots' = [slots EXCEPT ![idx].v = call.v]
    BY <1>11 DEF put_overwrites, Leave, TypeInv, TypeOK, CallOK, Hits, Misses
  <2>2. slots' \in [Idx -> Slot]
    BY <2>1, TypeFacts DEF TypeInv, TypeOK, Slot, Entry
  <2> QED
    BY <2>1, <2>2, WriteValueKeeps
<1>12. CASE shift_back
  BY <1>12, ShiftBackKeeps
<1>13. CASE shift_ends
  BY <1>13, ShiftEndsKeeps
<1>14. CASE put_fits
  <2>1. call.op = "put" /\ cap > 0
    BY <1>14, TypeFacts DEF put_fits, needs_grow, TypeInv, CallOK
  <2> QED
    BY <1>14, <2>1, CallEntryType, StartInsertKeeps DEF put_fits, table, CallEntry, HashOK
<1>15. CASE grow_and_rehash
  <2>1. new_cap \in Nat
    BY <1>0, TypeFacts, CapAssumption, NoWrap DEF new_cap, TypeInv
  <2> QED
    BY <1>15, <2>1, NewTableKeeps DEF grow_and_rehash
<1>16. CASE reserve_allocs
  BY <1>16, NewTableKeeps DEF reserve_allocs, TypeInv, TypeOK
<1>17. CASE grow_fails \/ reserve_doubles \/ reserve_overflows \/ reserve_enough \/ reserve_fails
            \/ rehash_skips \/ rehash_done_reserve
  <2>1. Quiet
    BY <1>17 DEF grow_fails, reserve_doubles, reserve_overflows, reserve_enough, reserve_fails,
                 rehash_skips, rehash_done_reserve, Leave, table
  <2> QED
    BY <2>1, <1>q
<1>18. CASE rehash_moves
  <2>1. cap > 0 /\ old[ri] \in Entry /\ HashOK(old[ri])
    BY <1>18, TypeFacts DEF rehash_moves, TypeInv, SizesOK, TableOK
  <2> QED
    BY <1>18, <2>1, StartInsertKeeps DEF rehash_moves, table
<1>19. CASE rehash_done_put
  <2>1. cap > 0 /\ call.op = "put"
    BY <1>19 DEF rehash_done_put, TypeInv, SizesOK
  <2> QED
    BY <1>19, <2>1, CallEntryType, StartInsertKeeps DEF rehash_done_put, table, CallEntry, HashOK
<1>20. CASE insert_advances
  BY <1>20, AdvanceKeeps
<1>21. CASE insert_swaps
  BY <1>21, SwapKeeps
<1>22. CASE move_places \/ put_places
  <2>1. RobinHood' /\ (\A p \in Idx' : HashOK(slots[p])') /\ (\A q \in OldIdx' : HashOK(old[q])')
    BY <1>22, WriteEntryKeeps DEF move_places, put_places, Inserting, Leave
  <2>2. pc' \notin {"find", "insert", "move"}
    BY <1>22 DEF move_places, put_places, Leave
  <2> QED
    BY <2>1, <2>2 DEF TableOK, CarryOK, SearchOK, Inserting
<1>23. CASE iter_skips \/ iter_ends
  <2>1. Quiet
    BY <1>23 DEF iter_skips, iter_ends, table, locals
  <2> QED
    BY <2>1, <1>q
<1>24. ASSUME NEW v \in Val, iter_calls(v) PROVE TableOK'
  <2>1. /\ iter \in Idx /\ occ(iter) /\ pc' = "idle" /\ UNCHANGED <<cap, hash, old>>
        /\ slots' = [slots EXCEPT ![iter].v = v]
    BY <1>24 DEF iter_calls, locals, TypeInv, TypeOK, CallOK, Idx
  <2>2. slots' \in [Idx -> Slot]
    BY <2>1, TypeFacts DEF TypeInv, TypeOK, Slot, Entry
  <2> QED
    BY <2>1, <2>2, WriteValueKeeps
<1> QED
  BY <1>1, <1>2, <1>3, <1>4, <1>5, <1>6, <1>7, <1>8, <1>9, <1>10, <1>11, <1>12, <1>13, <1>14,
     <1>15, <1>16, <1>17, <1>18, <1>19, <1>20, <1>21, <1>22, <1>23, <1>24 DEF Next, Client, Step

\* The invariant is inductive.
THEOREM IndInvHolds == Spec => []IndInv
<1>1. Init => IndInv
  BY InitTypeInv, InitTableOK DEF IndInv
<1>2. IndInv /\ [Next]_vars => IndInv'
  BY NextTypeInv, NextTableOK DEF IndInv
<1> QED
  BY <1>1, <1>2, PTL DEF Spec

\* The Robin Hood order holds in every reachable state, also in the middle of
\* a put, of a remove and of a rehash.
THEOREM RobinHoodHolds == Spec => []RobinHood
<1>1. IndInv => RobinHood
  BY DEF IndInv, TableOK
<1> QED
  BY <1>1, IndInvHolds, PTL

\* What a search that gives up has seen excludes the slots it has not.
LEMMA MissAbsent == IndInv => MissIsAbsence
<1> SUFFICES ASSUME IndInv, pc = "find", Misses PROVE call.k \notin HeldKeys
  BY DEF MissIsAbsence
<1> DEFINE h == fix_hash(hash[call.k])
           home == ideal(cap, h)
<1>1. TypeInv /\ TableOK
  BY DEF IndInv
<1>2. /\ cap \in Nat \ {0} /\ h \in Nat /\ idx \in 0 .. cap - 1 /\ dist \in Nat
      /\ slots \in [0 .. cap - 1 -> Slot] /\ old = NoTable /\ ~Inserting
  BY <1>1, TypeFacts, KeyHashType DEF TypeInv, TypeOK, CallOK, SizesOK, Idx, Inserting
<1>3. SUFFICES ASSUME NEW p \in 0 .. cap - 1, occ(p), slots[p].k = call.k PROVE FALSE
  BY <1>2 DEF HeldKeys, Entries, Stored, Unmoved, Idx, OldIdx, NoTable
<1>4. slots[p].h = h
  BY <1>1, <1>3 DEF TableOK, HashOK, occ, Idx
<1>5. /\ steps(cap, home, p) >= dist
      /\ dist = steps(cap, home, idx) \/ dist = cap
  BY <1>1, <1>3 DEF TableOK, SearchOK, Idx
<1>6. /\ steps(cap, home, p) \in Nat /\ steps(cap, home, p) < cap
      /\ steps(cap, home, idx) \in Nat
  BY <1>2, ProbeType
<1>7. dist = steps(cap, home, idx)
  BY <1>2, <1>5, <1>6
<1>8. slots[idx].h \in Nat
  BY <1>2, SlotHash
<1>9. probe_dist(cap, slots[idx].h, idx) \in Nat
  BY <1>2, <1>8, ProbeType DEF probe_dist
<1>10. CASE p = idx
  BY <1>3, <1>4, <1>6, <1>7, <1>9, <1>10 DEF Misses, probe_dist
<1>11. CASE p # idx
  <2>1. steps(cap, home, p) # steps(cap, home, idx)
    BY <1>2, <1>11, IdealType, StepsInjective
  <2>2. steps(cap, home, idx) < probe_dist(cap, slots[p].h, p)
    BY <1>4, <1>5, <1>6, <1>7, <2>1 DEF probe_dist
  <2>3. Passed(slots, cap, h, idx)
    BY <1>1, <1>2, <1>3, <1>4, <2>2 DEF TableOK, RobinHood, Ordered, PassedUpTo, occ
  <2> QED
    BY <1>2, <1>6, <1>7, <1>9, <2>3 DEF Misses, Passed, occ
<1> QED
  BY <1>10, <1>11

\* find_slot answers "not found" only when the key is nowhere in the map,
\* although it stops at the first slot whose entry is closer to home.
THEOREM MissIsAbsenceHolds == Spec => []MissIsAbsence
BY MissAbsent, IndInvHolds, PTL

-----------------------------------------------------------------------------
(* Where the entries are.                                                  *)

LEMMA PlacesType ==
  ASSUME TypeInv
  PROVE  /\ Stored \subseteq 0 .. cap - 1 /\ Unmoved \subseteq OldIdx
         /\ IsFiniteSet(Stored) /\ Cardinality(Stored) \in Nat
         /\ IsFiniteSet(Unmoved) /\ Cardinality(Unmoved) \in Nat
         /\ \A p \in Stored : slots[p] \in Entry
         /\ \A q \in Unmoved : old[q] \in Entry
<1>1. Stored \subseteq 0 .. cap - 1 /\ \A p \in Stored : slots[p] \in Entry
  BY TypeFacts DEF Stored, Idx
<1>2. Unmoved \subseteq OldIdx /\ \A q \in Unmoved : old[q] \in Entry
  BY TypeFacts DEF Unmoved
<1>3. PICK c \in 0 .. cap : old \in [0 .. c - 1 -> Slot]
  BY DEF TypeInv, TypeOK
<1>4. IsFiniteSet(0 .. cap - 1) /\ IsFiniteSet(0 .. c - 1)
  <2>1. cap - 1 \in Int /\ c - 1 \in Int /\ 0 \in Int
    BY TypeFacts
  <2> QED
    BY <2>1, FS_Interval
<1>5. IsFiniteSet(Stored) /\ IsFiniteSet(Unmoved)
  BY <1>1, <1>2, <1>3, <1>4, FS_Subset DEF OldIdx
<1> QED
  BY <1>1, <1>2, <1>5, FS_CardinalityType

\* Only while a table is being rehashed is there an old one.
LEMMA NothingUnmoved ==
  ASSUME old = NoTable
  PROVE  Unmoved = {}
BY DEF Unmoved, OldIdx, NoTable

LEMMA StoredAll ==
  ASSUME pc # "shift"
  PROVE  Stored = {p \in Idx : occ(p)}
BY DEF Stored

\* What a step does that moves no entry.
Calm == {"none", "idle", "iter", "find", "size", "grow"}

LEMMA CalmPlaces ==
  ASSUME TypeInv, pc \in Calm, pc' \in Calm,
         UNCHANGED <<slots, cap>>, old' = old \/ old' = NoTable
  PROVE  Stored' = Stored /\ Unmoved' = {} /\ Unmoved = {} /\ ~Inserting /\ ~Inserting'
<1>1. old = NoTable /\ old' = NoTable
  BY DEF TypeInv, CallOK, Calm
<1>2. Unmoved = {} /\ Unmoved' = {}
  BY <1>1 DEF Unmoved, OldIdx, NoTable
<1>3. Stored' = Stored
  BY DEF Stored, Idx, occ, Calm
<1> QED
  BY <1>2, <1>3 DEF Inserting, Calm

LEMMA CalmKeeps ==
  ASSUME TypeInv, KeysUnique, CountOK, pc \in Calm, pc' \in Calm,
         UNCHANGED <<slots, cap, len>>, old' = old \/ old' = NoTable
  PROVE  KeysUnique' /\ CountOK' /\ Entries' = Entries
<1>1. KeysUnique'
  BY CalmPlaces DEF KeysUnique
<1>2. CountOK'
  BY CalmPlaces DEF CountOK, Calm
<1>3. Entries' = Entries
  BY CalmPlaces DEF Entries
<1> QED
  BY <1>1, <1>2, <1>3

\* Nothing is stored in a map without entries.
LEMMA EmptyMap ==
  ASSUME TypeInv, CountOK, len = 0, pc \in Calm
  PROVE  Entries = {} /\ HeldKeys = {} /\ Stored = {}
<1>1. Unmoved = {} /\ ~Inserting
  BY NothingUnmoved DEF TypeInv, CallOK, Calm, Inserting
<1>2. Cardinality(Stored) = 0
  BY PlacesType DEF CountOK, Calm
<1>3. Stored = {}
  BY <1>2, PlacesType, FS_EmptySet
<1> QED
  BY <1>1, <1>3 DEF Entries, HeldKeys

-----------------------------------------------------------------------------
(* Steps that write one slot.                                              *)

\* put over an entry, and the callback of for_each.
LEMMA WriteValuePlaces ==
  ASSUME TypeInv, KeysUnique, CountOK, pc \in Calm, pc' \in Calm,
         UNCHANGED <<cap, len>>, old' = old \/ old' = NoTable,
         NEW i \in Idx, occ(i), NEW v \in Val, slots' = [slots EXCEPT ![i].v = v]
  PROVE  /\ KeysUnique' /\ CountOK'
         /\ slots[i] \in Entries
         /\ Entries' = {e \in Entries : e.k # slots[i].k} \union {[slots[i] EXCEPT !.v = v]}
<1>1. /\ slots \in [0 .. cap - 1 -> Slot] /\ slots[i] \in Entry
      /\ Unmoved = {} /\ ~Inserting /\ old' = NoTable /\ ~Inserting'
  BY TypeFacts, NothingUnmoved DEF TypeInv, TypeOK, CallOK, Calm, Inserting, Idx
<1>2. Unmoved' = {}
  BY <1>1 DEF Unmoved, OldIdx, NoTable
<1>3. /\ slots'[i] = [slots[i] EXCEPT !.v = v] /\ slots'[i].h = slots[i].h /\ slots'[i].k = slots[i].k
      /\ \A p \in 0 .. cap - 1 : p # i => slots'[p] = slots[p]
  BY <1>1 DEF Entry, Idx
<1>4. Stored = {p \in 0 .. cap - 1 : occ(p)} /\ Stored' = {p \in 0 .. cap - 1 : slots'[p].h # EMPTY_HASH}
  BY DEF Stored, Idx, Calm, occ
<1>5. Stored' = Stored /\ i \in Stored
  BY <1>3, <1>4 DEF occ, Idx
<1>6. KeysUnique'
  BY <1>1, <1>2, <1>3, <1>4, <1>5 DEF KeysUnique
<1>7. CountOK'
  BY <1>1, <1>2, <1>5 DEF CountOK, Calm
<1>8. Entries = {slots[p] : p \in Stored} /\ Entries' = {slots'[p] : p \in Stored}
  BY <1>1, <1>2, <1>5 DEF Entries
<1>9. \A p \in Stored : p # i => slots[p].k # slots[i].k
  BY <1>5 DEF KeysUnique
<1>10. Entries' = {e \in Entries : e.k # slots[i].k} \union {[slots[i] EXCEPT !.v = v]}
  BY <1>3, <1>4, <1>5, <1>8, <1>9
<1> QED
  BY <1>5, <1>6, <1>7, <1>8, <1>10

\* A removed entry is none as soon as it is found.
LEMMA RemoveFoundPlaces ==
  ASSUME TypeInv, KeysUnique, CountOK, remove_found
  PROVE  /\ KeysUnique' /\ CountOK'
         /\ slots[idx] \in Entries /\ Entries' = {e \in Entries : e.k # slots[idx].k}
<1>1. /\ pc = "find" /\ pc' = "shift" /\ occ(idx) /\ UNCHANGED <<slots, cap, len, old, idx, tmp>>
      /\ idx \in 0 .. cap - 1 /\ old = NoTable /\ ~Inserting /\ ~Inserting'
  BY DEF remove_found, Hits, Misses, table, TypeInv, TypeOK, CallOK, Idx, Inserting
<1>2. Unmoved = {} /\ Unmoved' = {}
  BY <1>1, NothingUnmoved DEF Unmoved, OldIdx, NoTable
<1>3. Stored = {p \in 0 .. cap - 1 : occ(p)} /\ Stored' = Stored \ {idx} /\ idx \in Stored
  BY <1>1 DEF Stored, Idx, occ
<1>4. KeysUnique'
  BY <1>1, <1>2, <1>3 DEF KeysUnique
<1>5. CountOK'
  <2>1. Cardinality(Stored') = Cardinality(Stored) - 1
    BY <1>3, PlacesType, FS_RemoveElement
  <2> QED
    BY <1>1, <1>2, <2>1, PlacesType, TypeFacts, FS_EmptySet DEF CountOK
<1>6. Entries = {slots[p] : p \in Stored} /\ Entries' = {slots[p] : p \in Stored \ {idx}}
  BY <1>1, <1>2, <1>3 DEF Entries
<1>7. \A p \in Stored : p # idx => slots[p].k # slots[idx].k
  BY <1>3 DEF KeysUnique
<1> QED
  BY <1>3, <1>4, <1>5, <1>6, <1>7

\* What the loop of remove starts each iteration with.
LEMMA ShiftFacts ==
  ASSUME TypeInv, pc = "shift"
  PROVE  /\ cap \in Nat \ {0} /\ idx \in 0 .. cap - 1 /\ slots \in [0 .. cap - 1 -> Slot]
         /\ succ(cap, idx) \in 0 .. cap - 1 /\ succ(cap, idx) # idx
         /\ len \in Nat \ {0} /\ old = NoTable
         /\ Stored = {p \in 0 .. cap - 1 : occ(p)} \ {idx}
<1>1. /\ cap \in Nat \ {0} /\ cap % 4 = 0 /\ idx \in 0 .. cap - 1 /\ slots \in [0 .. cap - 1 -> Slot]
      /\ len \in Nat \ {0} /\ old = NoTable
  BY TypeFacts DEF TypeInv, TypeOK, CallOK, SizesOK, Idx
<1>2. cap # 1
  BY <1>1
<1>3. succ(cap, idx) \in 0 .. cap - 1 /\ succ(cap, idx) # idx
  BY <1>1, <1>2 DEF succ
<1>4. Stored = {p \in 0 .. cap - 1 : occ(p)} \ {idx}
  BY DEF Stored, Idx
<1> QED
  BY <1>1, <1>3, <1>4

\* The entry of the next slot moves to this one: the next is the free one now.
LEMMA ShiftBackPlaces ==
  ASSUME TypeInv, KeysUnique, CountOK, shift_back
  PROVE  KeysUnique' /\ CountOK' /\ Entries' = Entries
<1> DEFINE n == succ(cap, idx)
<1>1. /\ pc = "shift" /\ pc' = "shift" /\ UNCHANGED <<cap, len, old>> /\ idx' = n
      /\ slots' = [slots EXCEPT ![idx] = slots[n]] /\ occ(n) /\ ~Inserting /\ ~Inserting'
  BY DEF shift_back, ShiftStops, Inserting
<1>2. /\ cap \in Nat \ {0} /\ idx \in 0 .. cap - 1 /\ slots \in [0 .. cap - 1 -> Slot]
      /\ n \in 0 .. cap - 1 /\ n # idx /\ old = NoTable
      /\ Stored = {p \in 0 .. cap - 1 : occ(p)} \ {idx}
  BY <1>1, ShiftFacts
<1> HIDE DEF n
<1>3. Unmoved = {} /\ Unmoved' = {}
  BY <1>1, <1>2, NothingUnmoved DEF Unmoved, OldIdx, NoTable
<1>4. slots'[idx] = slots[n] /\ \A p \in 0 .. cap - 1 : p # idx => slots'[p] = slots[p]
  BY <1>1, <1>2
<1>5. Stored' = {p \in 0 .. cap - 1 : slots'[p].h # EMPTY_HASH} \ {n}
  BY <1>1 DEF Stored, Idx, occ
<1>6. Stored' = (Stored \ {n}) \union {idx} /\ n \in Stored /\ idx \notin Stored
  BY <1>1, <1>2, <1>4, <1>5 DEF occ
<1>7. KeysUnique'
  BY <1>1, <1>2, <1>3, <1>4, <1>6 DEF KeysUnique
<1>8. CountOK'
  <2>1. IsFiniteSet(Stored \ {n}) /\ Cardinality(Stored \ {n}) = Cardinality(Stored) - 1
    BY <1>6, PlacesType, FS_RemoveElement
  <2>2. Cardinality(Stored') = Cardinality(Stored \ {n}) + 1
    BY <1>6, <2>1, FS_AddElement
  <2>3. Cardinality(Stored') = Cardinality(Stored)
    BY <2>1, <2>2, PlacesType
  <2> QED
    BY <1>1, <1>3, <2>3 DEF CountOK
<1>9. Entries = {slots[p] : p \in Stored} /\ Entries' = {slots'[p] : p \in Stored'}
  BY <1>1, <1>3 DEF Entries
<1>10. Entries' = Entries
  BY <1>2, <1>4, <1>6, <1>9
<1> QED
  BY <1>7, <1>8, <1>10

LEMMA ShiftEndsPlaces ==
  ASSUME TypeInv, KeysUnique, CountOK, shift_ends
  PROVE  KeysUnique' /\ CountOK' /\ Entries' = Entries
<1>1. /\ pc = "shift" /\ pc' = "idle" /\ UNCHANGED cap /\ len' = len - 1 /\ old' = NoTable
      /\ slots' = [slots EXCEPT ![idx] = NoEntry] /\ ~Inserting /\ ~Inserting'
  BY DEF shift_ends, Leave, Inserting
<1>2. /\ cap \in Nat \ {0} /\ idx \in 0 .. cap - 1 /\ slots \in [0 .. cap - 1 -> Slot]
      /\ old = NoTable /\ len \in Nat \ {0}
      /\ Stored = {p \in 0 .. cap - 1 : occ(p)} \ {idx}
  BY <1>1, ShiftFacts
<1>3. Unmoved = {} /\ Unmoved' = {}
  BY <1>1, <1>2, NothingUnmoved DEF Unmoved, OldIdx, NoTable
<1>4. slots'[idx] = NoEntry /\ \A p \in 0 .. cap - 1 : p # idx => slots'[p] = slots[p]
  BY <1>1, <1>2
<1>5. Stored' = {p \in 0 .. cap - 1 : slots'[p].h # EMPTY_HASH}
  BY <1>1 DEF Stored, Idx, occ
<1>6. Stored' = Stored /\ idx \notin Stored
  BY <1>2, <1>4, <1>5 DEF occ, NoEntry
<1>7. KeysUnique'
  BY <1>1, <1>2, <1>3, <1>4, <1>6 DEF KeysUnique
<1>8. CountOK'
  BY <1>1, <1>2, <1>3, <1>6, PlacesType, FS_EmptySet DEF CountOK
<1>9. Entries = {slots[p] : p \in Stored} /\ Entries' = {slots'[p] : p \in Stored}
  BY <1>1, <1>3, <1>6 DEF Entries
<1>10. Entries' = Entries
  BY <1>2, <1>4, <1>6, <1>9
<1> QED
  BY <1>7, <1>8, <1>10

\* drop and clear.
LEMMA EmptiedPlaces ==
  ASSUME pc' \in Calm, old' = NoTable, len' = 0, \A p \in Idx' : ~occ(p)'
  PROVE  KeysUnique' /\ CountOK' /\ Entries' = {}
<1>1. Stored' = {} /\ Unmoved' = {} /\ ~Inserting'
  BY DEF Stored, Unmoved, OldIdx, NoTable, Inserting, Calm
<1>2. CountOK'
  BY <1>1, FS_EmptySet DEF CountOK, Calm
<1>3. KeysUnique'
  BY <1>1 DEF KeysUnique
<1>4. Entries' = {}
  BY <1>1 DEF Entries
<1> QED
  BY <1>2, <1>3, <1>4

-----------------------------------------------------------------------------
(* Rehashing.                                                              *)

\* All entries are in what is now the old table.
LEMMA NewTablePlaces ==
  ASSUME TypeInv, KeysUnique, CountOK, pc \in {"grow", "size"}, NEW c \in Nat, NewTable(c)
  PROVE  KeysUnique' /\ CountOK' /\ Entries' = Entries
<1>1. /\ pc' = "rehash" /\ old' = slots /\ ri' = 0 /\ cap' = c /\ len' = len
      /\ slots' = [p \in 0 .. c - 1 |-> NoEntry]
      /\ slots \in [0 .. cap - 1 -> Slot] /\ old = NoTable /\ ~Inserting /\ ~Inserting'
  BY DEF NewTable, TypeInv, TypeOK, CallOK, Inserting, Idx
<1>2. Unmoved = {} /\ Stored = {p \in 0 .. cap - 1 : occ(p)}
  BY <1>1, NothingUnmoved DEF Stored, Idx
<1>3. Stored' = {}
  BY <1>1 DEF Stored, Idx, occ, NoEntry
<1>4. Unmoved' = Stored
  BY <1>1, <1>2 DEF Unmoved, OldIdx, occ
<1>5. KeysUnique'
  BY <1>1, <1>3, <1>4 DEF KeysUnique
<1>6. CountOK'
  BY <1>1, <1>2, <1>3, <1>4, PlacesType, FS_EmptySet DEF CountOK
<1>7. Entries' = Entries
  BY <1>1, <1>2, <1>3, <1>4 DEF Entries
<1> QED
  BY <1>5, <1>6, <1>7

\* The rehash loop has come to the end of the old table.
LEMMA RehashDone ==
  ASSUME TypeInv, ri \notin OldIdx
  PROVE  Unmoved = {}
<1>1. PICK c \in 0 .. cap : old \in [0 .. c - 1 -> Slot]
  BY DEF TypeInv, TypeOK
<1>2. ri \in Nat /\ cap \in Nat
  BY DEF TypeInv, TypeOK
<1> QED
  BY <1>1, <1>2 DEF Unmoved, OldIdx

LEMMA RehashSkipsPlaces ==
  ASSUME TypeInv, KeysUnique, CountOK, rehash_skips
  PROVE  KeysUnique' /\ CountOK' /\ Entries' = Entries
<1>1. /\ pc = "rehash" /\ pc' = "rehash" /\ UNCHANGED <<slots, cap, len, old>> /\ ri' = ri + 1
      /\ old[ri].h = EMPTY_HASH /\ ri \in Nat /\ ~Inserting /\ ~Inserting'
  BY DEF rehash_skips, table, TypeInv, TypeOK, Inserting
<1>2. OldIdx \subseteq Nat
  BY DEF TypeInv, TypeOK, OldIdx
<1>3. Unmoved' = Unmoved
  BY <1>1, <1>2 DEF Unmoved, OldIdx
<1>4. Stored' = Stored
  BY <1>1 DEF Stored, Idx, occ
<1> QED
  BY <1>1, <1>3, <1>4 DEF KeysUnique, CountOK, Entries

\* The next entry of the old table is in the hand of insert_no_grow.
LEMMA RehashMovesPlaces ==
  ASSUME TypeInv, KeysUnique, CountOK, rehash_moves
  PROVE  KeysUnique' /\ CountOK' /\ Entries' = Entries
<1>1. /\ pc = "rehash" /\ pc' = "move" /\ UNCHANGED <<slots, cap, len, old>> /\ ri' = ri + 1
      /\ ri \in OldIdx /\ old[ri].h # EMPTY_HASH /\ ri \in Nat /\ tmp' = old[ri]
      /\ ~Inserting /\ Inserting'
  BY DEF rehash_moves, StartInsert, table, TypeInv, TypeOK, Inserting
<1>2. OldIdx \subseteq Nat
  BY DEF TypeInv, TypeOK, OldIdx
<1>3. Unmoved' = Unmoved \ {ri} /\ ri \in Unmoved
  BY <1>1, <1>2 DEF Unmoved, OldIdx
<1>4. Stored' = Stored
  BY <1>1 DEF Stored, Idx, occ
<1>5. KeysUnique'
  BY <1>1, <1>3, <1>4 DEF KeysUnique
<1>6. CountOK'
  <2>1. Cardinality(Unmoved') = Cardinality(Unmoved) - 1
    BY <1>3, PlacesType, FS_RemoveElement
  <2> QED
    BY <1>1, <1>4, <2>1, PlacesType DEF CountOK
<1>7. Entries' = Entries
  BY <1>1, <1>3, <1>4 DEF Entries
<1> QED
  BY <1>5, <1>6, <1>7

LEMMA RehashDoneReservePlaces ==
  ASSUME TypeInv, KeysUnique, CountOK, rehash_done_reserve
  PROVE  KeysUnique' /\ CountOK' /\ Entries' = Entries
<1>1. /\ pc = "rehash" /\ pc' = "idle" /\ UNCHANGED <<slots, cap, len>> /\ old' = NoTable
      /\ ~Inserting /\ ~Inserting' /\ Unmoved = {}
  BY RehashDone DEF rehash_done_reserve, Leave, table, Inserting
<1>2. Unmoved' = {}
  BY <1>1 DEF Unmoved, OldIdx, NoTable
<1>3. Stored' = Stored
  BY <1>1 DEF Stored, Idx, occ
<1> QED
  BY <1>1, <1>2, <1>3 DEF KeysUnique, CountOK, Entries

-----------------------------------------------------------------------------
(* Inserting.                                                              *)

\* put hands its entry to insert_no_grow: from here on the map holds it.
LEMMA PutEntryPlaces ==
  ASSUME TypeInv, KeysUnique, CountOK, KeyAbsent, put_fits \/ rehash_done_put
  PROVE  /\ KeysUnique' /\ CountOK'
         /\ call.k \notin HeldKeys /\ Entries' = Entries \union {CallEntry}
<1>1. /\ pc \in {"grow", "rehash"} /\ pc' = "insert" /\ UNCHANGED <<slots, cap, len>>
      /\ tmp' = CallEntry /\ ~Inserting /\ Inserting'
      /\ pc = "rehash" => call.op = "put"
      /\ old' = NoTable
  BY DEF put_fits, rehash_done_put, StartInsert, table, Inserting, TypeInv, CallOK
<1>2. Unmoved = {} /\ Unmoved' = {}
  <2>1. CASE put_fits
    BY <1>1, <2>1, NothingUnmoved DEF put_fits, TypeInv, CallOK, Unmoved, OldIdx, NoTable
  <2>2. CASE rehash_done_put
    BY <1>1, <2>2, RehashDone DEF rehash_done_put, Unmoved, OldIdx, NoTable
  <2> QED
    BY <2>1, <2>2
<1>3. Stored' = Stored
  BY <1>1 DEF Stored, Idx, occ
<1>4. call.k \notin HeldKeys
  BY <1>1 DEF KeyAbsent
<1>5. \A p \in Stored : slots[p].k # call.k
  BY <1>4 DEF HeldKeys, Entries
<1>6. CallEntry.k = call.k
  BY DEF CallEntry
<1>7. KeysUnique'
  BY <1>1, <1>2, <1>3, <1>5, <1>6 DEF KeysUnique
<1>8. CountOK'
  BY <1>1, <1>2, <1>3 DEF CountOK
<1>9. Entries' = Entries \union {CallEntry}
  BY <1>1, <1>2, <1>3 DEF Entries
<1> QED
  BY <1>4, <1>7, <1>8, <1>9

LEMMA AdvancePlaces ==
  ASSUME KeysUnique, CountOK, insert_advances
  PROVE  KeysUnique' /\ CountOK' /\ Entries' = Entries
<1>1. UNCHANGED <<slots, cap, len, pc, old, ri, tmp>> /\ pc # "shift" /\ (Inserting' <=> Inserting)
  BY DEF insert_advances, table, Inserting
<1>2. Unmoved' = Unmoved /\ Stored' = Stored
  BY <1>1 DEF Unmoved, OldIdx, Stored, Idx, occ
<1> QED
  BY <1>1, <1>2 DEF KeysUnique, CountOK, Entries

\* What an iteration that writes the carried entry into slot idx changes.
LEMMA InsertPlaces ==
  ASSUME TypeInv, Inserting, UNCHANGED cap, slots' = [slots EXCEPT ![idx] = tmp], pc' # "shift"
  PROVE  /\ idx \in 0 .. cap - 1 /\ tmp \in Entry
         /\ slots'[idx] = tmp /\ \A p \in Stored \ {idx} : slots'[p] = slots[p]
         /\ Stored' = Stored \union {idx} /\ (idx \in Stored <=> occ(idx))
<1>1. idx \in 0 .. cap - 1 /\ tmp \in Entry /\ slots \in [0 .. cap - 1 -> Slot] /\ pc # "shift"
  BY DEF TypeInv, TypeOK, Inserting, Idx
<1>2. slots'[idx] = tmp /\ \A p \in 0 .. cap - 1 : p # idx => slots'[p] = slots[p]
  BY <1>1
<1>3. tmp.h # EMPTY_HASH
  BY <1>1 DEF Entry
<1>4. /\ Stored = {p \in 0 .. cap - 1 : slots[p].h # EMPTY_HASH}
      /\ Stored' = {p \in 0 .. cap - 1 : slots'[p].h # EMPTY_HASH}
  BY <1>1 DEF Stored, Idx, occ
<1>5. Stored' = Stored \union {idx}
  BY <1>1, <1>2, <1>3, <1>4
<1>6. \A p \in Stored \ {idx} : slots'[p] = slots[p]
  BY <1>2, <1>4
<1>7. idx \in Stored <=> occ(idx)
  BY <1>1, <1>4 DEF occ
<1> QED
  BY <1>1, <1>2, <1>5, <1>6, <1>7

LEMMA SwapPlaces ==
  ASSUME TypeInv, KeysUnique, CountOK, insert_swaps
  PROVE  KeysUnique' /\ CountOK' /\ Entries' = Entries
<1>1. /\ UNCHANGED <<cap, len, pc, old, ri>> /\ Inserting /\ Inserting' /\ pc' # "shift"
      /\ slots' = [slots EXCEPT ![idx] = tmp] /\ tmp' = slots[idx] /\ occ(idx)
  BY DEF insert_swaps, Inserting
<1>2. /\ slots'[idx] = tmp /\ \A p \in Stored \ {idx} : slots'[p] = slots[p]
      /\ Stored' = Stored /\ idx \in Stored
  BY <1>1, InsertPlaces
<1>3. Unmoved' = Unmoved
  BY <1>1 DEF Unmoved, OldIdx
<1>4. KeysUnique'
  BY <1>1, <1>2, <1>3 DEF KeysUnique
<1>5. CountOK'
  BY <1>1, <1>2, <1>3 DEF CountOK
<1>6. Entries' = Entries
  <2>1. /\ Entries = {slots[p] : p \in Stored} \union {old[q] : q \in Unmoved} \union {tmp}
        /\ Entries' = {slots'[p] : p \in Stored} \union {old[q] : q \in Unmoved} \union {slots[idx]}
    BY <1>1, <1>2, <1>3 DEF Entries
  <2>2. {slots'[p] : p \in Stored} \union {slots[idx]} = {slots[p] : p \in Stored} \union {tmp}
    BY <1>2
  <2> QED
    BY <2>1, <2>2
<1> QED
  BY <1>4, <1>5, <1>6

LEMMA PlacesPlaces ==
  ASSUME TypeInv, KeysUnique, CountOK, move_places \/ put_places
  PROVE  KeysUnique' /\ CountOK' /\ Entries' = Entries
<1>1. /\ UNCHANGED cap /\ Inserting /\ ~Inserting' /\ pc' # "shift"
      /\ slots' = [slots EXCEPT ![idx] = tmp] /\ ~occ(idx)
  BY DEF move_places, put_places, Leave, Inserting
<1>2. /\ slots'[idx] = tmp /\ \A p \in Stored \ {idx} : slots'[p] = slots[p]
      /\ Stored' = Stored \union {idx} /\ idx \notin Stored
  BY <1>1, InsertPlaces
<1>3. Unmoved' = Unmoved
  <2>1. CASE move_places
    BY <2>1 DEF move_places, Unmoved, OldIdx
  <2>2. CASE put_places
    <3>1. old = NoTable /\ old' = NoTable
      BY <2>2 DEF put_places, Leave, TypeInv, CallOK
    <3> QED
      BY <3>1 DEF Unmoved, OldIdx, NoTable
  <2> QED
    BY <2>1, <2>2
<1>4. \A q \in Unmoved : old'[q] = old[q]
  <2>1. CASE move_places
    BY <2>1 DEF move_places
  <2>2. CASE put_places
    BY <2>2, NothingUnmoved DEF put_places, TypeInv, CallOK
  <2> QED
    BY <2>1, <2>2
<1>5. KeysUnique'
  BY <1>1, <1>2, <1>3, <1>4 DEF KeysUnique
<1>6. CountOK'
  <2>1. Cardinality(Stored') = Cardinality(Stored) + 1
    BY <1>2, PlacesType, FS_AddElement
  <2>2. CASE move_places
    BY <1>3, <2>1, <2>2, PlacesType DEF move_places, CountOK
  <2>3. CASE put_places
    BY <1>3, <2>1, <2>3, PlacesType DEF put_places, Leave, CountOK
  <2> QED
    BY <2>2, <2>3
<1>7. Entries' = Entries
  BY <1>1, <1>2, <1>3, <1>4 DEF Entries
<1> QED
  BY <1>5, <1>6, <1>7

-----------------------------------------------------------------------------
(* Every step keeps the entries' invariant.                                *)

\* A step that moves entries about cannot bring in the key of the put.
LEMMA AbsentStays ==
  ASSUME KeyAbsent, Entries' = Entries, call' = call,
         pc' = "grow" => pc = "grow",
         pc' \in {"rehash", "move"} /\ call.op = "put" => pc \in {"grow", "rehash", "move"}
  PROVE  KeyAbsent'
BY DEF KeyAbsent, HeldKeys

LEMMA NotAbsent ==
  ASSUME pc' # "grow", pc' \notin {"rehash", "move"} \/ call'.op # "put"
  PROVE  KeyAbsent'
BY DEF KeyAbsent

\* The steps that leave the table alone and are not in the middle of anything.
Looks ==
  \/ \E f \in HashFns : new_p(f)
  \/ new_p_fails \/ for_each \/ callback_returns
  \/ \E k \in Key : get(k) \/ remove(k)
  \/ \E k \in Key, v \in Val : put(k, v)
  \/ \E n \in ReserveArgs : reserve(n)
  \/ find_next \/ get_found \/ get_absent \/ put_absent \/ remove_absent
  \/ grow_fails \/ reserve_doubles \/ reserve_overflows \/ reserve_enough \/ reserve_fails
  \/ iter_skips \/ iter_ends

LEMMA LooksCalm ==
  ASSUME TypeInv, Looks
  PROVE  /\ pc \in Calm /\ pc' \in Calm /\ UNCHANGED <<slots, cap, len>>
         /\ old' = old \/ old' = NoTable
<1>1. CASE \/ \E f \in HashFns : new_p(f)
           \/ new_p_fails \/ for_each \/ callback_returns \/ iter_skips \/ iter_ends
  BY <1>1 DEF new_p, new_p_fails, for_each, callback_returns, iter_skips, iter_ends, table, locals, Calm
<1>2. CASE \E k \in Key : get(k) \/ remove(k)
  BY <1>2 DEF get, remove, StartFind, MayCall, table, locals, Calm
<1>3. CASE \/ \E k \in Key, v \in Val : put(k, v)
           \/ \E n \in ReserveArgs : reserve(n)
  BY <1>3 DEF put, reserve, StartFind, MayCall, table, locals, Calm
<1>4. CASE find_next \/ get_found \/ get_absent \/ put_absent \/ remove_absent
  BY <1>4 DEF find_next, get_found, get_absent, put_absent, remove_absent, Leave, table, Calm
<1>5. CASE grow_fails \/ reserve_doubles \/ reserve_overflows \/ reserve_enough \/ reserve_fails
  BY <1>5 DEF grow_fails, reserve_doubles, reserve_overflows, reserve_enough, reserve_fails,
              Leave, table, Calm
<1> QED
  BY <1>1, <1>2, <1>3, <1>4, <1>5 DEF Looks

\* A put that begins the loop of "grow" has searched for its key or had no
\* need to.
LEMMA LooksKeep ==
  ASSUME EntriesInv, Looks
  PROVE  KeysUnique' /\ CountOK' /\ KeyAbsent' /\ Entries' = Entries
<1>1. TypeInv /\ KeysUnique /\ CountOK /\ KeyAbsent
  BY DEF EntriesInv, IndInv
<1>2. /\ pc \in Calm /\ pc' \in Calm /\ UNCHANGED <<slots, cap, len>>
      /\ old' = old \/ old' = NoTable
  BY <1>1, LooksCalm
<1>3. KeysUnique' /\ CountOK' /\ Entries' = Entries
  BY <1>1, <1>2, CalmKeeps
<1>4. CASE pc' # "grow"
  BY <1>2, <1>3, <1>4, NotAbsent DEF Calm
<1>5. CASE pc' = "grow"
  <2>1. \/ put_absent
        \/ \E k \in Key, v \in Val : put(k, v) /\ len = 0
    <3>1. CASE \/ \E f \in HashFns : new_p(f)
               \/ new_p_fails \/ for_each \/ callback_returns \/ iter_skips \/ iter_ends
      BY <1>5, <3>1 DEF new_p, new_p_fails, for_each, callback_returns, iter_skips, iter_ends
    <3>2. CASE \E k \in Key : get(k) \/ remove(k)
      BY <1>5, <3>2 DEF get, remove, StartFind, MayCall
    <3>3. CASE \E k \in Key, v \in Val : put(k, v)
      BY <1>5, <3>3 DEF put, StartFind, MayCall
    <3>4. CASE \E n \in ReserveArgs : reserve(n)
      BY <1>5, <3>4 DEF reserve
    <3>5. CASE find_next \/ get_found \/ get_absent \/ put_absent \/ remove_absent
      BY <1>5, <3>5 DEF find_next, get_found, get_absent, remove_absent, Leave
    <3>6. CASE grow_fails \/ reserve_doubles \/ reserve_overflows \/ reserve_enough \/ reserve_fails
      BY <1>5, <3>6 DEF grow_fails, reserve_doubles, reserve_overflows, reserve_enough, reserve_fails,
                        Leave
    <3> QED
      BY <3>1, <3>2, <3>3, <3>4, <3>5, <3>6 DEF Looks
  <2>2. CASE put_absent
    <3>1. call.k \notin HeldKeys
      BY <2>2, MissAbsent DEF put_absent, MissIsAbsence, EntriesInv
    <3>2. call' = call
      BY <2>2 DEF put_absent
    <3> QED
      BY <1>3, <3>1, <3>2 DEF KeyAbsent, HeldKeys
  <2>3. CASE \E k \in Key, v \in Val : put(k, v) /\ len = 0
    <3>1. Entries = {}
      BY <1>1, <1>2, <2>3, EmptyMap
    <3> QED
      BY <1>3, <3>1 DEF KeyAbsent, HeldKeys
  <2> QED
    BY <2>1, <2>2, <2>3
<1> QED
  BY <1>3, <1>4, <1>5

\* The steps that move entries and change none.
Shuffles ==
  \/ shift_back \/ shift_ends \/ grow_and_rehash \/ reserve_allocs
  \/ rehash_skips \/ rehash_moves \/ rehash_done_reserve
  \/ insert_advances \/ insert_swaps \/ move_places \/ put_places

LEMMA NewCapType ==
  ASSUME TypeInv, TableFits
  PROVE  new_cap \in Nat
BY TypeFacts, CapAssumption, NoWrap DEF new_cap, TypeInv

LEMMA ShufflesKeep ==
  ASSUME EntriesInv, TableFits, Shuffles
  PROVE  KeysUnique' /\ CountOK' /\ KeyAbsent' /\ Entries' = Entries
<1>1. TypeInv /\ KeysUnique /\ CountOK /\ KeyAbsent
  BY DEF EntriesInv, IndInv
<1>2. CASE shift_back \/ shift_ends
  <2>1. pc' \in {"shift", "idle"}
    BY <1>2 DEF shift_back, shift_ends, Leave
  <2> QED
    BY <1>1, <1>2, <2>1, ShiftBackPlaces, ShiftEndsPlaces, NotAbsent
<1>3. CASE grow_and_rehash
  <2>1. NewTable(new_cap) /\ pc = "grow" /\ new_cap \in Nat
    BY <1>1, <1>3, NewCapType DEF grow_and_rehash
  <2>2. KeysUnique' /\ CountOK' /\ Entries' = Entries
    BY <1>1, <2>1, NewTablePlaces
  <2>3. call' = call /\ pc' = "rehash"
    BY <2>1 DEF NewTable
  <2> QED
    BY <1>1, <2>1, <2>2, <2>3, AbsentStays
<1>4. CASE reserve_allocs
  <2>1. NewTable(table_cap) /\ pc = "size" /\ table_cap \in Nat /\ call.op = "reserve"
    BY <1>1, <1>4 DEF reserve_allocs, TypeInv, TypeOK, CallOK
  <2>2. KeysUnique' /\ CountOK' /\ Entries' = Entries
    BY <1>1, <2>1, NewTablePlaces
  <2>3. call' = call /\ pc' = "rehash"
    BY <2>1 DEF NewTable
  <2> QED
    BY <2>1, <2>2, <2>3, NotAbsent
<1>5. CASE rehash_skips \/ rehash_moves
  <2>1. KeysUnique' /\ CountOK' /\ Entries' = Entries
    BY <1>1, <1>5, RehashSkipsPlaces, RehashMovesPlaces
  <2>2. call' = call /\ pc = "rehash" /\ pc' # "grow"
    BY <1>5 DEF rehash_skips, rehash_moves, StartInsert
  <2> QED
    BY <1>1, <2>1, <2>2, AbsentStays
<1>6. CASE rehash_done_reserve \/ put_places
  <2>1. pc' = "idle"
    BY <1>6 DEF rehash_done_reserve, put_places, Leave
  <2> QED
    BY <1>1, <1>6, <2>1, RehashDoneReservePlaces, PlacesPlaces, NotAbsent
<1>7. CASE insert_advances \/ insert_swaps \/ move_places
  <2>1. KeysUnique' /\ CountOK' /\ Entries' = Entries
    BY <1>1, <1>7, AdvancePlaces, SwapPlaces, PlacesPlaces
  <2>2. call' = call /\ pc \in {"insert", "move"} /\ pc' \in {pc, "rehash"} /\ (pc' = "rehash" => pc = "move")
    <3>1. CASE insert_advances
      BY <3>1 DEF insert_advances, Inserting
    <3>2. CASE insert_swaps
      BY <3>2 DEF insert_swaps, Inserting
    <3>3. CASE move_places
      BY <3>3 DEF move_places
    <3> QED
      BY <1>7, <3>1, <3>2, <3>3
  <2> QED
    BY <1>1, <2>1, <2>2, AbsentStays
<1> QED
  BY <1>2, <1>3, <1>4, <1>5, <1>6, <1>7 DEF Shuffles

\* The steps that change what the map holds.
Changes ==
  \/ drop \/ clear \/ put_overwrites \/ remove_found \/ put_fits \/ rehash_done_put
  \/ \E v \in Val : iter_calls(v)

LEMMA NextCases == Next => TableFits /\ (Looks \/ Shuffles \/ Changes)
BY DEF Next, Client, Step, Looks, Shuffles, Changes

\* What the writes of a value change.
LEMMA OverwriteFacts ==
  ASSUME TypeInv, put_overwrites
  PROVE  /\ pc = "find" /\ pc' = "idle" /\ UNCHANGED <<cap, len>> /\ old' = NoTable
         /\ idx \in Idx /\ occ(idx) /\ slots[idx].k = call.k /\ call.v \in Val
         /\ slots' = [slots EXCEPT ![idx].v = call.v]
BY DEF put_overwrites, Leave, TypeInv, TypeOK, CallOK, Hits, Misses

LEMMA IterCallsFacts ==
  ASSUME TypeInv, NEW v \in Val, iter_calls(v)
  PROVE  /\ pc = "iter" /\ pc' = "idle" /\ UNCHANGED <<cap, len, old, call, ret>>
         /\ iter \in Idx /\ occ(iter) /\ slots' = [slots EXCEPT ![iter].v = v]
BY DEF iter_calls, locals, TypeInv, TypeOK, CallOK, Idx

LEMMA EmptiedFacts ==
  ASSUME TypeInv, drop \/ clear
  PROVE  KeysUnique' /\ CountOK' /\ Entries' = {}
<1>1. old = NoTable
  BY DEF drop, clear, MayCall, TypeInv, CallOK
<1>2. pc' \in Calm /\ old' = NoTable /\ len' = 0
  BY <1>1 DEF drop, clear, MayCall, locals, Calm
<1>3. \A p \in Idx' : ~occ(p)'
  BY DEF drop, clear, Idx, occ, NoEntry, TypeInv, TypeOK
<1> QED
  BY <1>2, <1>3, EmptiedPlaces

LEMMA ChangesKeep ==
  ASSUME EntriesInv, Changes
  PROVE  KeysUnique' /\ CountOK' /\ KeyAbsent'
<1>1. TypeInv /\ KeysUnique /\ CountOK /\ KeyAbsent
  BY DEF EntriesInv, IndInv
<1>2. KeyAbsent'
  <2>1. pc' \notin {"grow", "rehash", "move"}
    BY DEF Changes, drop, clear, MayCall, put_overwrites, remove_found, put_fits, rehash_done_put,
           iter_calls, StartInsert, Leave
  <2> QED
    BY <2>1, NotAbsent
<1>3. CASE drop \/ clear
  BY <1>1, <1>2, <1>3, EmptiedFacts
<1>4. CASE put_overwrites
  BY <1>1, <1>2, <1>4, OverwriteFacts, WriteValuePlaces DEF Calm
<1>5. CASE remove_found
  BY <1>1, <1>2, <1>5, RemoveFoundPlaces
<1>6. CASE put_fits \/ rehash_done_put
  BY <1>1, <1>2, <1>6, PutEntryPlaces
<1>7. CASE \E v \in Val : iter_calls(v)
  BY <1>1, <1>2, <1>7, IterCallsFacts, WriteValuePlaces DEF Calm
<1> QED
  BY <1>3, <1>4, <1>5, <1>6, <1>7 DEF Changes

LEMMA InitEntriesInv == Init => EntriesInv
<1> SUFFICES ASSUME Init PROVE EntriesInv
  OBVIOUS
<1>1. IndInv
  BY InitTypeInv, InitTableOK DEF IndInv
<1>2. Stored = {} /\ Unmoved = {} /\ ~Inserting
  BY DEF Init, Stored, Unmoved, Inserting, Idx, OldIdx, NoTable
<1>3. CountOK
  BY <1>2, FS_EmptySet DEF CountOK, Init
<1> QED
  BY <1>1, <1>2, <1>3 DEF EntriesInv, KeysUnique, KeyAbsent, Init

LEMMA NextEntriesInv == EntriesInv /\ [Next]_vars => EntriesInv'
<1> SUFFICES ASSUME EntriesInv, [Next]_vars PROVE EntriesInv'
  OBVIOUS
<1>1. IndInv'
  BY NextTypeInv, NextTableOK DEF EntriesInv, IndInv
<1>2. CASE Next
  BY <1>1, <1>2, NextCases, LooksKeep, ShufflesKeep, ChangesKeep DEF EntriesInv
<1>3. CASE UNCHANGED vars
  <2>1. Stored' = Stored /\ Unmoved' = Unmoved /\ HeldKeys' = HeldKeys
    BY <1>3 DEF vars, Stored, Unmoved, Idx, OldIdx, occ, HeldKeys, Entries, Inserting
  <2> QED
    BY <1>1, <1>3, <2>1 DEF EntriesInv, KeysUnique, KeyAbsent, CountOK, Inserting, vars
<1> QED
  BY <1>2, <1>3

\* The invariant is inductive.
THEOREM EntriesInvHolds == Spec => []EntriesInv
BY InitEntriesInv, NextEntriesInv, PTL DEF Spec

\* No key is in two places, whatever loop the code is in.
THEOREM KeysUniqueHolds == Spec => []KeysUnique
<1>1. EntriesInv => KeysUnique
  BY DEF EntriesInv
<1> QED
  BY <1>1, EntriesInvHolds, PTL

\* len is the number of entries whenever the client can see it: no failed,
\* interrupted or repeated step leaves it one off.
THEOREM LenCountsHolds == Spec => []LenCounts
<1>1. EntriesInv => LenCounts
  <2> SUFFICES ASSUME EntriesInv, pc = "idle" PROVE len = Cardinality({p \in Idx : occ(p)})
    BY DEF LenCounts
  <2>1. TypeInv /\ CountOK
    BY DEF EntriesInv, IndInv
  <2>2. Unmoved = {} /\ Stored = {p \in Idx : occ(p)}
    BY <2>1, NothingUnmoved, StoredAll DEF TypeInv, CallOK
  <2>3. len = Cardinality(Stored) + 0 + 0
    BY <2>1, <2>2, FS_EmptySet DEF CountOK
  <2> QED
    BY <2>1, <2>2, <2>3, PlacesType
<1> QED
  BY <1>1, EntriesInvHolds, PTL

\* Of the entries the table holds len counts all, and no more than three
\* quarters of the slots may be taken.
LEMMA SlotRemains == EntriesInv => EmptySlotRemains
<1> SUFFICES ASSUME EntriesInv, cap > 0, \A p \in Idx : occ(p) PROVE FALSE
  BY DEF EmptySlotRemains
<1>1. TypeInv /\ CountOK
  BY DEF EntriesInv, IndInv
<1>2. cap \in Nat /\ len \in Nat /\ cap % 4 = 0 /\ len * 4 <= cap * 3
  BY <1>1, TypeFacts DEF TypeInv, LoadFactor, LOAD_DEN, LOAD_NUM, SizesOK
<1>3. Stored = IF pc = "shift" THEN Idx \ {idx} ELSE Idx
  BY DEF Stored
<1>4. IsFiniteSet(Idx) /\ Cardinality(Idx) = cap
  <2>1. 0 \in Int /\ cap - 1 \in Int /\ (cap - 1) - 0 + 1 = cap /\ ~(0 > cap - 1)
    BY <1>2
  <2> QED
    BY <2>1, FS_Interval DEF Idx
<1>5. Cardinality(Stored) + (IF pc \in {"move", "shift"} THEN 1 ELSE 0) >= cap
  <2>1. CASE pc = "shift"
    <3>1. idx \in Idx
      BY <1>1, <2>1 DEF TypeInv, TypeOK
    <3> QED
      BY <1>2, <1>3, <1>4, <2>1, <3>1, FS_RemoveElement
  <2>2. CASE pc # "shift"
    BY <1>2, <1>3, <1>4, <2>2
  <2> QED
    BY <2>1, <2>2
<1>6. len >= cap
  BY <1>1, <1>2, <1>5, PlacesType DEF CountOK
<1> QED
  BY <1>2, <1>6

\* The table never becomes full, not even while an entry is being placed in it.
THEOREM EmptySlotHolds == Spec => []EmptySlotRemains
BY SlotRemains, EntriesInvHolds, PTL

-----------------------------------------------------------------------------
(* for_each, when its callback may write values and call get.              *)

InForEach == iter >= 0 => pc \in {"idle", "iter"} \/ (pc = "find" /\ call.op = "get")
IterAll   == InForEach /\ IterInv /\ ForEachOnce

LEMMA OutsideForEach ==
  ASSUME TypeInv, iter < 0
  PROVE  IterAll
BY DEF TypeInv, TypeOK, CallOK, IterAll, InForEach, IterInv, ForEachOnce

\* What may happen inside for_each.
LEMMA InsideSteps ==
  ASSUME TypeInv, InForEach, iter >= 0, CallbackOps \subseteq {"get"}, Next
  PROVE  \/ \E k \in Key : get(k)
         \/ find_next \/ get_found \/ get_absent
         \/ iter_skips \/ (\E v \in Val : iter_calls(v)) \/ callback_returns \/ iter_ends
<1>1. pc \in {"idle", "iter", "find"} /\ (pc = "find" => call.op = "get") /\ iter # -1
  BY DEF InForEach, TypeInv, TypeOK
<1>2. /\ ~(\E f \in HashFns : new_p(f)) /\ ~new_p_fails /\ ~drop /\ ~clear /\ ~for_each
      /\ ~(\E k \in Key : remove(k)) /\ ~(\E k \in Key, v \in Val : put(k, v))
      /\ ~(\E n \in ReserveArgs : reserve(n))
  BY <1>1 DEF new_p, new_p_fails, drop, clear, for_each, remove, put, reserve, MayCall
<1>3. ~put_overwrites /\ ~put_absent /\ ~remove_absent /\ ~remove_found /\ ~shift_back /\ ~shift_ends
  BY <1>1 DEF put_overwrites, put_absent, remove_absent, remove_found, shift_back, shift_ends
<1>4. ~put_fits /\ ~grow_and_rehash /\ ~grow_fails /\ ~reserve_doubles /\ ~reserve_overflows
      /\ ~reserve_enough /\ ~reserve_allocs /\ ~reserve_fails
  BY <1>1 DEF put_fits, grow_and_rehash, grow_fails, reserve_doubles, reserve_overflows,
              reserve_enough, reserve_allocs, reserve_fails
<1>5. /\ ~rehash_skips /\ ~rehash_moves /\ ~rehash_done_put /\ ~rehash_done_reserve
      /\ ~insert_advances /\ ~insert_swaps /\ ~move_places /\ ~put_places
  BY <1>1 DEF rehash_skips, rehash_moves, rehash_done_put, rehash_done_reserve,
              insert_advances, insert_swaps, move_places, put_places, Inserting
<1> QED
  BY <1>2, <1>3, <1>4, <1>5 DEF Next, Client, Step

\* Only for_each begins one.
LEMMA Begins ==
  ASSUME TypeInv, iter < 0, iter' >= 0, Next
  PROVE  for_each
<1>1. iter = -1
  BY DEF TypeInv, TypeOK
<1>2. iter' # iter
  BY <1>1
<1>3. CASE Client
  BY <1>1, <1>2, <1>3 DEF Client, new_p, new_p_fails, drop, get, remove, put, reserve, clear,
     callback_returns, StartFind, ghosts
<1>4. CASE Step
  <2>1. ~iter_skips /\ ~iter_ends /\ ~(\E v \in Val : iter_calls(v))
    BY <1>1, <1>2 DEF iter_skips, iter_ends, iter_calls, TypeInv, CallOK
  <2>2. ~(find_next \/ get_found \/ get_absent \/ put_overwrites \/ put_absent
          \/ remove_absent \/ remove_found \/ shift_back \/ shift_ends)
    BY <1>2 DEF find_next, get_found, get_absent, put_overwrites, put_absent, remove_absent,
       remove_found, shift_back, shift_ends, ghosts
  <2>3. ~(put_fits \/ grow_and_rehash \/ grow_fails \/ reserve_doubles \/ reserve_overflows
          \/ reserve_enough \/ reserve_allocs \/ reserve_fails)
    BY <1>2 DEF put_fits, grow_and_rehash, grow_fails, reserve_doubles, reserve_overflows,
       reserve_enough, reserve_allocs, reserve_fails, NewTable, ghosts
  <2>4. ~(rehash_skips \/ rehash_moves \/ rehash_done_put \/ rehash_done_reserve
          \/ insert_advances \/ insert_swaps \/ move_places \/ put_places)
    BY <1>2 DEF rehash_skips, rehash_moves, rehash_done_put, rehash_done_reserve,
       insert_advances, insert_swaps, move_places, put_places, ghosts
  <2> QED
    BY <1>4, <2>1, <2>2, <2>3, <2>4 DEF Step
<1> QED
  BY <1>3, <1>4 DEF Next

LEMMA InitIterAll == Init => IterAll
BY DEF Init, IterAll, InForEach, IterInv, ForEachOnce

LEMMA NextIterAll ==
  ASSUME CallbackOps \subseteq {"get"}, TypeInv, TypeInv', KeysUnique, IterAll, Next
  PROVE  IterAll'
<1>1. CASE iter' < 0
  BY <1>1 DEF TypeInv, TypeOK, CallOK, IterAll, InForEach, IterInv, ForEachOnce
<1>2. CASE iter' >= 0 /\ iter < 0
  <2>1. pc' = "iter" /\ iter' = 0 /\ visited' = {} /\ UNCHANGED <<slots, cap>>
    BY <1>2, Begins DEF for_each, table
  <2>2. cap \in Nat
    BY TypeFacts
  <2> QED
    BY <2>1, <2>2 DEF IterAll, InForEach, IterInv, ForEachOnce, Idx, occ
<1>3. CASE iter' >= 0 /\ iter >= 0
  <2>1. /\ InForEach /\ IterInv /\ ForEachOnce /\ cap \in Nat /\ iter \in Nat
        /\ slots \in [0 .. cap - 1 -> Slot]
    <3>1. InForEach /\ IterInv /\ ForEachOnce
      BY DEF IterAll
    <3>2. cap \in Nat /\ iter \in Nat /\ slots \in [0 .. cap - 1 -> Slot]
      BY <1>3 DEF TypeInv, TypeOK, Idx
    <3> QED
      BY <3>1, <3>2
  <2>2. CASE (\E k \in Key : get(k)) \/ find_next \/ get_found \/ get_absent
    <3>1. pc # "iter" /\ pc' # "iter" /\ UNCHANGED <<slots, cap, iter, visited>>
      BY <2>2 DEF get, MayCall, StartFind, Request, find_next, get_found, get_absent, Leave, table, ghosts
    <3>2. pc' = "idle" \/ (pc' = "find" /\ call'.op = "get")
      <4>1. CASE \E k \in Key : get(k)
        BY <4>1 DEF get, MayCall, StartFind, Request
      <4>2. CASE find_next
        BY <1>3, <2>1, <4>2 DEF find_next, InForEach
      <4>3. CASE get_found \/ get_absent
        BY <4>3 DEF get_found, get_absent, Leave
      <4> QED
        BY <2>2, <4>1, <4>2, <4>3
    <3>3. IterInv'
      BY <1>3, <2>1, <3>1 DEF IterInv, Idx, occ
    <3> QED
      BY <3>1, <3>2, <3>3 DEF IterAll, InForEach, ForEachOnce
  <2>3. CASE iter_skips
    <3>1. /\ pc = "iter" /\ pc' = "iter" /\ UNCHANGED <<slots, cap, visited>> /\ iter' = iter + 1
          /\ ~occ(iter)
      BY <2>3 DEF iter_skips, table
    <3>2. ForEachOnce'
      BY <2>1, <3>1 DEF ForEachOnce, Idx, occ
    <3> QED
      BY <3>1, <3>2 DEF IterAll, InForEach, IterInv
  <2>4. CASE \E v \in Val : iter_calls(v)
    <3>1. PICK v \in Val : iter_calls(v)
      BY <2>4
    <3>2. /\ pc = "iter" /\ pc' = "idle" /\ UNCHANGED <<cap, iter>>
          /\ visited' = visited \union {slots[iter].k}
          /\ iter \in 0 .. cap - 1 /\ occ(iter) /\ slots' = [slots EXCEPT ![iter].v = v]
      BY <2>1, <3>1 DEF iter_calls
    <3>3. slots[iter] \in Entry
      BY <2>1, <3>2 DEF Slot, NoEntry, occ
    <3>4. \A p \in 0 .. cap - 1 : slots'[p].k = slots[p].k /\ slots'[p].h = slots[p].h
      BY <2>1, <3>2, <3>3 DEF Entry
    <3>5. \A p \in 0 .. cap - 1 : occ(p) /\ slots[p].k = slots[iter].k => p = iter
      BY <3>2 DEF KeysUnique, Stored, Idx
    <3>6. \A p \in 0 .. cap - 1 : occ(p) => (slots[p].k \in visited' <=> p <= iter)
      BY <2>1, <3>2, <3>5 DEF ForEachOnce, Idx
    <3>7. IterInv'
      BY <3>2, <3>4, <3>6 DEF IterInv, Idx, occ
    <3> QED
      BY <3>2, <3>7 DEF IterAll, InForEach, ForEachOnce
  <2>5. CASE callback_returns
    <3>1. pc = "idle" /\ pc' = "iter" /\ UNCHANGED <<slots, cap, visited>> /\ iter' = iter + 1
      BY <2>5 DEF callback_returns, table
    <3>2. ForEachOnce'
      BY <1>3, <2>1, <3>1 DEF IterInv, ForEachOnce, Idx, occ
    <3> QED
      BY <3>1, <3>2 DEF IterAll, InForEach, IterInv
  <2>6. ~iter_ends
    BY <1>3 DEF iter_ends
  <2> QED
    BY <1>3, <2>1, <2>2, <2>3, <2>4, <2>5, <2>6, InsideSteps
<1>4. iter' \in Int /\ iter \in Int
  BY DEF TypeInv, TypeOK
<1> QED
  BY <1>1, <1>2, <1>3, <1>4

\* for_each calls fn exactly once for each entry, as long as the callback only
\* writes values and calls get.
THEOREM ForEachOnceHolds ==
  ASSUME CallbackOps \subseteq {"get"}
  PROVE  Spec => []ForEachOnce
<1>1. Init => IterAll
  BY InitIterAll
<1>2. EntriesInv /\ EntriesInv' /\ IterAll /\ [Next]_vars => IterAll'
  <2> SUFFICES ASSUME EntriesInv, EntriesInv', IterAll, [Next]_vars PROVE IterAll'
    OBVIOUS
  <2>1. CASE Next
    BY <2>1, NextIterAll DEF EntriesInv, IndInv
  <2>2. CASE UNCHANGED vars
    BY <2>2 DEF vars, IterAll, InForEach, IterInv, ForEachOnce, Idx, occ
  <2> QED
    BY <2>1, <2>2
<1>3. IterAll => ForEachOnce
  BY DEF IterAll
<1> QED
  BY <1>1, <1>2, <1>3, EntriesInvHolds, PTL DEF Spec

-----------------------------------------------------------------------------
(* The map implements NxMapSpec.                                           *)

LEMMA EntriesType ==
  ASSUME TypeInv
  PROVE  \A e \in Entries : e.k \in Key /\ e.v \in Val
<1>1. \A e \in Entries : e \in Entry
  BY PlacesType DEF Entries, TypeInv, TypeOK
<1> QED
  BY <1>1 DEF Entry

\* The operators of NxMapSpec on what the map holds.
LEMMA ContentsFacts ==
  ASSUME TypeInv
  PROVE  /\ \A k : MapSpec!Held(contents, k) <=> k \in HeldKeys
         /\ \A k : MapSpec!Without(contents, k) = {<<e.k, e.v>> : e \in {f \in Entries : f.k # k}}
         /\ \A k : k \notin HeldKeys => MapSpec!Without(contents, k) = contents
<1>1. \A k : MapSpec!Held(contents, k) <=> k \in HeldKeys
  BY EntriesType DEF MapSpec!Held, contents, HeldKeys
<1>2. \A k : MapSpec!Without(contents, k) = {<<e.k, e.v>> : e \in {f \in Entries : f.k # k}}
  <2> SUFFICES ASSUME NEW k
               PROVE  MapSpec!Without(contents, k) = {<<e.k, e.v>> : e \in {f \in Entries : f.k # k}}
    OBVIOUS
  <2> QED
    BY DEF MapSpec!Without, contents
<1>3. \A k : k \notin HeldKeys => MapSpec!Without(contents, k) = contents
  <2> SUFFICES ASSUME NEW k, k \notin HeldKeys PROVE MapSpec!Without(contents, k) = contents
    OBVIOUS
  <2>1. \A e \in Entries : e.k # k
    BY DEF HeldKeys
  <2> QED
    BY <2>1 DEF MapSpec!Without, contents
<1> QED
  BY <1>1, <1>2, <1>3

\* What a client sees of a call, by the loop it is in.
LEMMA OutcomeFacts ==
  ASSUME TypeInv
  PROVE  /\ pc \notin Loops => call = NoCall /\ outcome = ret
         /\ pc \in Loops => call # NoCall
         /\ pc \in {"find", "size", "grow", "rehash", "move"} => outcome = "pending"
         /\ pc = "insert" => outcome = "ok"
         /\ pc = "shift" => outcome = "true"
<1>1. pc \notin Loops => call = NoCall /\ call.op = "none"
  BY DEF TypeInv, CallOK, NoCall
<1>2. pc \in Loops => call.op # "none" /\ call # NoCall
  BY DEF TypeInv, CallOK, NoCall, Loops
<1> QED
  BY <1>1, <1>2 DEF outcome, Loops

\* A step the client cannot see.
LEMMA IsStutter ==
  ASSUME contents' = contents, outcome' = outcome, call' = call, pc # "none", pc' # "none"
  PROVE  UNCHANGED MapSpec!mapVars
BY DEF MapSpec!mapVars

\* A call begins.
LEMMA IsBegin ==
  ASSUME TypeInv, TypeInv', pc = "idle", pc' \in {"find", "grow", "size"}, contents' = contents
  PROVE  MapSpec!Next
<1>1. call = NoCall /\ call' # NoCall /\ outcome' = "pending"
  BY OutcomeFacts DEF TypeInv, CallOK, NoCall, Loops, outcome
<1>2. MapSpec!Begin
  BY <1>1 DEF MapSpec!Begin, MapSpec!NoCall, NoCall, MapSpec!Pending
<1> QED
  BY <1>2 DEF MapSpec!Next

\* It takes effect.
LEMMA IsApply ==
  ASSUME TypeInv, pc \in {"find", "size", "grow", "rehash", "move"}, pc' # "none",
         outcome' # "pending", MapSpec!Effect(call, contents, contents', outcome'),
         call' \in {call, NoCall}
  PROVE  MapSpec!Next
<1>1. call # NoCall /\ outcome = "pending" /\ pc # "none"
  BY OutcomeFacts DEF Loops
<1>2. MapSpec!Apply
  BY <1>1 DEF MapSpec!Apply, MapSpec!NoCall, NoCall, MapSpec!Pending
<1> QED
  BY <1>2 DEF MapSpec!Next

\* It returns what it has done already.
LEMMA IsReturn ==
  ASSUME TypeInv, pc \in {"insert", "shift"}, pc' # "none", outcome' = outcome,
         contents' = contents, call' = NoCall
  PROVE  MapSpec!Next
<1>1. call # NoCall /\ outcome # "pending" /\ pc # "none"
  BY OutcomeFacts DEF Loops
<1>2. MapSpec!Return
  BY <1>1 DEF MapSpec!Return, MapSpec!NoCall, NoCall, MapSpec!Pending
<1> QED
  BY <1>2 DEF MapSpec!Next

\* A call that is served at once.
LEMMA IsAtOnce ==
  ASSUME TypeInv, TypeInv', pc = "idle", pc' = "idle", NEW r \in MapSpec!Calls,
         MapSpec!Effect(r, contents, contents', ret')
  PROVE  MapSpec!Next
<1>1. call = NoCall /\ call' = NoCall /\ outcome' = ret'
  BY DEF TypeInv, CallOK, NoCall, Loops, outcome
<1>2. MapSpec!AtOnce(r)
  BY <1>1 DEF MapSpec!AtOnce, MapSpec!NoCall, NoCall
<1> QED
  BY <1>2 DEF MapSpec!Next

\* Calls on a map that is empty, and calls that search.
LEMMA GetRefines ==
  ASSUME EntriesInv, TypeInv', contents' = contents, NEW k \in Key, get(k) \/ remove(k)
  PROVE  MapSpec!Next
<1>1. TypeInv /\ CountOK /\ pc = "idle"
  BY DEF EntriesInv, IndInv, get, remove, MayCall
<1>2. CASE len > 0
  BY <1>1, <1>2, IsBegin DEF get, remove, StartFind
<1>3. CASE len = 0
  <2>1. k \notin HeldKeys
    BY <1>1, <1>3, EmptyMap DEF Calm
  <2>2. ~MapSpec!Held(contents, k) /\ MapSpec!Without(contents, k) = contents /\ pc' = "idle"
    BY <1>1, <1>3, <2>1, ContentsFacts DEF get, remove
  <2>3. CASE get(k)
    <3>1. ret' = NoVal /\ [op |-> "get", k |-> k, v |-> NoVal, n |-> 0] \in MapSpec!Calls
      BY <1>3, <2>3 DEF get, MapSpec!Calls
    <3> QED
      BY <1>1, <2>2, <3>1, IsAtOnce DEF MapSpec!Effect
  <2>4. CASE remove(k)
    <3>1. ret' = "false" /\ [op |-> "remove", k |-> k, v |-> NoVal, n |-> 0] \in MapSpec!Calls
      BY <1>3, <2>4 DEF remove, MapSpec!Calls
    <3> QED
      BY <1>1, <2>2, <3>1, IsAtOnce DEF MapSpec!Effect
  <2> QED
    BY <2>3, <2>4
<1>4. len \in Nat
  BY <1>1, TypeFacts
<1> QED
  BY <1>2, <1>3, <1>4

\* The searches that end without a change.
LEMMA FindRefines ==
  ASSUME "pending" \notin Val \union {NoVal},
         EntriesInv, TypeInv', contents' = contents, get_found \/ get_absent \/ remove_absent
  PROVE  MapSpec!Next
<1>1. /\ TypeInv /\ pc = "find" /\ pc' = "idle" /\ call' = NoCall
      /\ slots \in [Idx -> Slot] /\ idx \in Idx
  BY DEF EntriesInv, IndInv, TypeInv, TypeOK, get_found, get_absent, remove_absent, Leave
<1>2. outcome' = ret'
  BY <1>1 DEF outcome, NoCall
<1>3. CASE get_found
  <2>1. call.op = "get" /\ occ(idx) /\ slots[idx].k = call.k /\ ret' = slots[idx].v
    BY <1>3 DEF get_found, Hits, Misses, Leave
  <2>2. slots[idx] \in Entries /\ slots[idx].v \in Val
    BY <1>1, <2>1, PlacesType DEF Stored, Entries, Entry
  <2>3. <<call.k, ret'>> \in contents /\ MapSpec!Held(contents, call.k)
    BY <1>1, <2>1, <2>2, ContentsFacts DEF contents, HeldKeys
  <2> QED
    BY <1>1, <1>2, <2>1, <2>2, <2>3, IsApply DEF MapSpec!Effect
<1>4. CASE get_absent \/ remove_absent
  <2>1. call.k \notin HeldKeys
    BY <1>4, MissAbsent DEF EntriesInv, MissIsAbsence, get_absent, remove_absent
  <2>2. ~MapSpec!Held(contents, call.k) /\ MapSpec!Without(contents, call.k) = contents
    BY <1>1, <2>1, ContentsFacts
  <2>3. \/ call.op = "get" /\ ret' = NoVal
        \/ call.op = "remove" /\ ret' = "false"
    BY <1>4 DEF get_absent, remove_absent, Leave
  <2> QED
    BY <1>1, <1>2, <2>2, <2>3, IsApply DEF MapSpec!Effect
<1> QED
  BY <1>3, <1>4

\* A put without memory, and what reserve answers.
LEMMA FailRefines ==
  ASSUME EntriesInv, TypeInv', contents' = contents,
         \/ grow_fails \/ reserve_overflows \/ reserve_enough \/ reserve_fails
         \/ rehash_done_reserve
  PROVE  MapSpec!Next
<1>1. /\ TypeInv /\ pc \in {"grow", "size", "rehash"} /\ pc' = "idle" /\ call' = NoCall
      /\ call.op = (IF grow_fails THEN "put" ELSE "reserve")
  BY DEF EntriesInv, IndInv, TypeInv, CallOK, grow_fails, reserve_overflows, reserve_enough,
         reserve_fails, rehash_done_reserve, Leave
<1>2. outcome' = ret'
  BY <1>1 DEF outcome, NoCall
<1>3. CASE grow_fails
  <2>1. call.k \notin HeldKeys /\ ret' = "oom" /\ call.op = "put"
    BY <1>1, <1>3 DEF EntriesInv, KeyAbsent, grow_fails, Leave
  <2>2. ~MapSpec!Held(contents, call.k)
    BY <1>1, <2>1, ContentsFacts
  <2> QED
    BY <1>1, <1>2, <2>1, <2>2, IsApply DEF MapSpec!Effect
<1>4. CASE reserve_overflows \/ reserve_enough \/ reserve_fails \/ rehash_done_reserve
  <2>1. call.op = "reserve" /\ ret' \in {"ok", "oom"}
    BY <1>4 DEF reserve_overflows, reserve_enough, reserve_fails, rehash_done_reserve, Leave,
                EntriesInv, IndInv, TypeInv, CallOK
  <2> QED
    BY <1>1, <1>2, <2>1, IsApply DEF MapSpec!Effect
<1> QED
  BY <1>3, <1>4

\* A map comes into being, empty.
LEMMA NewRefines ==
  ASSUME EntriesInv, TypeInv', contents' = contents,
         (\E f \in HashFns : new_p(f)) \/ new_p_fails
  PROVE  MapSpec!Next
<1>1. /\ TypeInv /\ CountOK /\ pc = "none" /\ len = 0
  <2>1. TypeInv /\ CountOK /\ pc = "none"
    BY DEF EntriesInv, IndInv, new_p, new_p_fails
  <2> QED
    BY <2>1, TypeFacts DEF TypeInv, SizesOK
<1>2. contents = {}
  BY <1>1, EmptyMap DEF Calm, contents
<1>3. call = NoCall /\ call' = NoCall /\ outcome' = ret'
  <2>1. call = NoCall
    BY <1>1 DEF TypeInv, CallOK, Loops
  <2>2. call' = call
    BY DEF new_p, new_p_fails
  <2> QED
    BY <2>1, <2>2 DEF outcome, NoCall
<1>4. CASE \E f \in HashFns : new_p(f)
  <2>1. pc' # "none" /\ ret' = "ok"
    BY <1>4 DEF new_p
  <2>2. MapSpec!New
    BY <1>1, <1>2, <1>3, <2>1 DEF MapSpec!New, MapSpec!NoCall, NoCall
  <2> QED
    BY <2>2 DEF MapSpec!Next
<1>5. CASE new_p_fails
  <2>1. pc' = pc /\ ret' = "oom"
    BY <1>5 DEF new_p_fails
  <2>2. MapSpec!NewFails
    BY <1>1, <1>3, <2>1 DEF MapSpec!NewFails
  <2> QED
    BY <2>2 DEF MapSpec!Next
<1> QED
  BY <1>4, <1>5

\* The steps of for_each but its calls, and the iterations of the loops that
\* only look.
LEMMA QuietRefines ==
  ASSUME TypeInv, TypeInv', contents' = contents,
         \/ for_each \/ callback_returns \/ iter_skips \/ iter_ends
         \/ find_next \/ put_absent \/ reserve_doubles
  PROVE  UNCHANGED MapSpec!mapVars
<1>1. call' = call /\ ret' = ret
  BY DEF for_each, callback_returns, iter_skips, iter_ends, find_next, put_absent, reserve_doubles
<1>2. pc # "none" /\ pc' # "none"
  BY DEF for_each, callback_returns, iter_skips, iter_ends, find_next, put_absent, reserve_doubles
<1>3. CASE for_each \/ callback_returns \/ iter_skips \/ iter_ends
  <2>1. call = NoCall
    BY <1>3 DEF for_each, callback_returns, iter_skips, iter_ends, TypeInv, CallOK, Loops
  <2> QED
    BY <1>1, <1>2, <2>1, IsStutter DEF outcome, NoCall
<1>4. CASE find_next \/ put_absent \/ reserve_doubles
  <2>1. pc \in {"find", "size"} /\ pc' \in {"find", "grow", "size"}
    BY <1>4 DEF find_next, put_absent, reserve_doubles
  <2>2. outcome = "pending" /\ outcome' = "pending"
    BY <1>1, <2>1, OutcomeFacts DEF outcome
  <2> QED
    BY <1>1, <1>2, <2>2, IsStutter
<1> QED
  BY <1>3, <1>4

LEMMA LooksRefine ==
  ASSUME "pending" \notin Val \union {NoVal},
         EntriesInv, TypeInv', Looks
  PROVE  [MapSpec!Next]_(MapSpec!mapVars)
<1>1. TypeInv /\ contents' = contents
  BY LooksKeep DEF EntriesInv, IndInv, contents
<1>2. CASE \/ \E k \in Key, v \in Val : put(k, v)
           \/ \E n \in ReserveArgs : reserve(n)
  <2>1. pc = "idle" /\ pc' \in {"find", "grow", "size"}
    BY <1>2 DEF put, reserve, MayCall, StartFind
  <2> QED
    BY <1>1, <2>1, IsBegin
<1>3. CASE \E k \in Key : get(k) \/ remove(k)
  BY <1>1, <1>3, GetRefines
<1>4. CASE get_found \/ get_absent \/ remove_absent
  BY <1>1, <1>4, FindRefines
<1>5. CASE grow_fails \/ reserve_overflows \/ reserve_enough \/ reserve_fails
  BY <1>1, <1>5, FailRefines
<1>6. CASE (\E f \in HashFns : new_p(f)) \/ new_p_fails
  BY <1>1, <1>6, NewRefines
<1>7. CASE \/ for_each \/ callback_returns \/ iter_skips \/ iter_ends
           \/ find_next \/ put_absent \/ reserve_doubles
  BY <1>1, <1>7, QuietRefines
<1> QED
  BY <1>2, <1>3, <1>4, <1>5, <1>6, <1>7 DEF Looks

LEMMA ShufflesRefine ==
  ASSUME EntriesInv, TypeInv', TableFits, Shuffles
  PROVE  [MapSpec!Next]_(MapSpec!mapVars)
<1>1. TypeInv /\ contents' = contents
  BY ShufflesKeep DEF EntriesInv, IndInv, contents
<1>2. CASE shift_ends \/ put_places
  <2>1. /\ pc' = "idle" /\ call' = NoCall
        /\ pc \in {"shift", "insert"} /\ ret' = IF pc = "shift" THEN "true" ELSE "ok"
    <3>1. CASE shift_ends
      BY <3>1 DEF shift_ends, Leave
    <3>2. CASE put_places
      BY <3>2 DEF put_places, Leave
    <3> QED
      BY <1>2, <3>1, <3>2
  <2>2. outcome' = outcome
    BY <1>1, <2>1, OutcomeFacts DEF outcome, NoCall
  <2> QED
    BY <1>1, <2>1, <2>2, IsReturn
<1>3. CASE rehash_done_reserve
  BY <1>1, <1>3, FailRefines
<1>4. CASE \/ shift_back \/ grow_and_rehash \/ reserve_allocs \/ rehash_skips \/ rehash_moves
           \/ insert_advances \/ insert_swaps \/ move_places
  <2>1. call' = call /\ ret' = ret
    <3>1. CASE shift_back \/ rehash_skips \/ rehash_moves
      BY <3>1 DEF shift_back, rehash_skips, rehash_moves
    <3>2. CASE grow_and_rehash \/ reserve_allocs
      BY <3>2 DEF grow_and_rehash, reserve_allocs, NewTable
    <3>3. CASE insert_advances \/ insert_swaps \/ move_places
      BY <3>3 DEF insert_advances, insert_swaps, move_places
    <3> QED
      BY <1>4, <3>1, <3>2, <3>3
  <2>2. \/ pc = "shift" /\ pc' = "shift"
        \/ pc = "insert" /\ pc' = "insert"
        \/ pc \in {"grow", "size", "rehash", "move"} /\ pc' \in {"rehash", "move"}
    <3>1. CASE shift_back
      BY <3>1 DEF shift_back
    <3>2. CASE grow_and_rehash \/ reserve_allocs
      BY <3>2 DEF grow_and_rehash, reserve_allocs, NewTable
    <3>3. CASE rehash_skips \/ rehash_moves
      BY <3>3 DEF rehash_skips, rehash_moves, StartInsert
    <3>4. CASE insert_advances
      BY <3>4 DEF insert_advances, Inserting
    <3>5. CASE insert_swaps
      BY <3>5 DEF insert_swaps, Inserting
    <3>6. CASE move_places
      BY <3>6 DEF move_places
    <3> QED
      BY <1>4, <3>1, <3>2, <3>3, <3>4, <3>5, <3>6
  <2>3. call.op # "none"
    BY <1>1, <2>2 DEF TypeInv, CallOK
  <2>4. outcome' = outcome
    BY <2>1, <2>2, <2>3 DEF outcome
  <2> QED
    BY <1>1, <2>1, <2>2, <2>4, IsStutter
<1> QED
  BY <1>2, <1>3, <1>4 DEF Shuffles

\* A key's pair is replaced: the write of a value.
LEMMA Replaced ==
  ASSUME TypeInv, NEW e \in Entries, NEW v,
         Entries' = {f \in Entries : f.k # e.k} \union {[e EXCEPT !.v = v]}
  PROVE  /\ contents' = MapSpec!Without(contents, e.k) \union {<<e.k, v>>}
         /\ MapSpec!Held(contents, e.k)
<1>1. e.k \in HeldKeys /\ MapSpec!Held(contents, e.k)
  BY ContentsFacts DEF HeldKeys
<1>2. e \in Entry
  BY PlacesType DEF Entries, TypeInv, TypeOK
<1>3. [e EXCEPT !.v = v].k = e.k /\ [e EXCEPT !.v = v].v = v
  BY <1>2 DEF Entry
<1>4. contents' = {<<f.k, f.v>> : f \in {g \in Entries : g.k # e.k}} \union {<<e.k, v>>}
  BY <1>3 DEF contents
<1> QED
  BY <1>1, <1>4, ContentsFacts

LEMMA ClearRefines ==
  ASSUME TypeInv, TypeInv', drop \/ clear
  PROVE  MapSpec!Next
<1>1. contents' = {}
  BY EmptiedFacts DEF contents
<1>2. pc = "idle" /\ call = NoCall /\ call' = call /\ ret' = "ok"
  BY DEF drop, clear, MayCall, TypeInv, CallOK, Loops
<1>3. CASE drop
  <2>1. pc' = "none" /\ outcome' = "ok"
    BY <1>2, <1>3 DEF drop, outcome, NoCall
  <2>2. MapSpec!Drop
    BY <1>1, <1>2, <2>1 DEF MapSpec!Drop, MapSpec!NoCall, NoCall
  <2> QED
    BY <2>2 DEF MapSpec!Next
<1>4. CASE clear
  <2>1. /\ pc' = "idle"
        /\ [op |-> "clear", k |-> NoKey, v |-> NoVal, n |-> 0] \in MapSpec!Calls
    BY <1>2, <1>4 DEF clear, MapSpec!Calls
  <2> QED
    BY <1>1, <1>2, <2>1, IsAtOnce DEF MapSpec!Effect
<1> QED
  BY <1>3, <1>4

LEMMA ChangesRefine ==
  ASSUME EntriesInv, TypeInv', Changes
  PROVE  MapSpec!Next
<1>1. TypeInv /\ KeysUnique /\ CountOK /\ KeyAbsent
  BY DEF EntriesInv, IndInv
<1>2. CASE drop \/ clear
  BY <1>1, <1>2, ClearRefines
<1>3. CASE put_overwrites
  <2>1. /\ slots[idx] \in Entries
        /\ Entries' = {e \in Entries : e.k # slots[idx].k} \union {[slots[idx] EXCEPT !.v = call.v]}
    BY <1>1, <1>3, OverwriteFacts, WriteValuePlaces DEF Calm
  <2>2. contents' = MapSpec!Without(contents, call.k) \union {<<call.k, call.v>>}
    BY <1>1, <1>3, <2>1, Replaced, OverwriteFacts
  <2>3. pc = "find" /\ pc' = "idle" /\ call.op = "put" /\ call' = NoCall /\ outcome' = "ok"
    BY <1>3 DEF put_overwrites, Leave, outcome, NoCall
  <2> QED
    BY <1>1, <2>2, <2>3, IsApply DEF MapSpec!Effect
<1>4. CASE remove_found
  <2>1. slots[idx] \in Entries /\ Entries' = {e \in Entries : e.k # slots[idx].k}
    BY <1>1, <1>4, RemoveFoundPlaces
  <2>2. /\ pc = "find" /\ pc' = "shift" /\ call.op = "remove" /\ call' = call
        /\ slots[idx].k = call.k
    BY <1>4 DEF remove_found, Hits
  <2>3. contents' = MapSpec!Without(contents, call.k) /\ MapSpec!Held(contents, call.k)
    BY <1>1, <2>1, <2>2, ContentsFacts DEF contents, HeldKeys
  <2>4. outcome' = "true"
    BY <2>2 DEF outcome
  <2> QED
    BY <1>1, <2>2, <2>3, <2>4, IsApply DEF MapSpec!Effect
<1>5. CASE put_fits \/ rehash_done_put
  <2>1. call.k \notin HeldKeys /\ Entries' = Entries \union {CallEntry}
    BY <1>1, <1>5, PutEntryPlaces
  <2>2. contents' = MapSpec!Without(contents, call.k) \union {<<call.k, call.v>>}
    <3>1. contents' = contents \union {<<call.k, call.v>>}
      <4>1. CallEntry.k = call.k /\ CallEntry.v = call.v
        BY DEF CallEntry
      <4>2. contents' = {<<e.k, e.v>> : e \in Entries \union {CallEntry}}
        BY <2>1 DEF contents
      <4> QED
        BY <4>1, <4>2 DEF contents
    <3> QED
      BY <1>1, <2>1, <3>1, ContentsFacts
  <2>3. pc \in {"grow", "rehash"} /\ pc' = "insert" /\ call.op = "put" /\ call' = call
    BY <1>1, <1>5 DEF put_fits, rehash_done_put, StartInsert, TypeInv, CallOK
  <2>4. outcome' = "ok"
    BY <2>3 DEF outcome
  <2> QED
    BY <1>1, <2>2, <2>3, <2>4, IsApply DEF MapSpec!Effect
<1>6. CASE \E v \in Val : iter_calls(v)
  <2>1. PICK v \in Val : iter_calls(v)
    BY <1>6
  <2>2. /\ pc = "iter" /\ pc' = "idle" /\ UNCHANGED <<cap, old, call, ret, len>>
        /\ iter \in Idx /\ occ(iter) /\ slots' = [slots EXCEPT ![iter].v = v]
    BY <1>1, <2>1, IterCallsFacts
  <2>3. /\ slots[iter] \in Entries
        /\ Entries' = {e \in Entries : e.k # slots[iter].k} \union {[slots[iter] EXCEPT !.v = v]}
    BY <1>1, <2>2, WriteValuePlaces DEF Calm
  <2>4. /\ contents' = MapSpec!Without(contents, slots[iter].k) \union {<<slots[iter].k, v>>}
        /\ MapSpec!Held(contents, slots[iter].k) /\ slots[iter].k \in Key
    BY <1>1, <2>3, Replaced, EntriesType
  <2>5. call = NoCall /\ outcome' = outcome
    BY <1>1, <2>2 DEF TypeInv, CallOK, Loops, outcome
  <2>6. MapSpec!Write(slots[iter].k, v)
    BY <2>2, <2>4, <2>5 DEF MapSpec!Write, MapSpec!NoCall, NoCall
  <2> QED
    BY <2>4, <2>6 DEF MapSpec!Next
<1> QED
  BY <1>2, <1>3, <1>4, <1>5, <1>6 DEF Changes

LEMMA InitRefines == Init => MapSpec!Init
<1> SUFFICES ASSUME Init PROVE MapSpec!Init
  OBVIOUS
<1>1. contents = {}
  BY DEF Init, contents, Entries, Stored, Unmoved, Inserting, Idx, OldIdx, NoTable
<1> QED
  BY <1>1 DEF Init, MapSpec!Init, MapSpec!NoCall, NoCall, outcome

LEMMA NextRefines ==
  ASSUME "pending" \notin Val \union {NoVal}, EntriesInv, EntriesInv', [Next]_vars
  PROVE  [MapSpec!Next]_(MapSpec!mapVars)
<1>1. TypeInv'
  BY DEF EntriesInv, IndInv
<1>2. CASE Next
  BY <1>1, <1>2, NextCases, LooksRefine, ShufflesRefine, ChangesRefine
<1>3. CASE UNCHANGED vars
  <2>1. contents' = contents /\ outcome' = outcome /\ call' = call /\ pc' = pc
    BY <1>3 DEF vars, contents, outcome, Entries, Stored, Unmoved, Inserting, Idx, OldIdx, occ
  <2> QED
    BY <2>1 DEF MapSpec!mapVars
<1> QED
  BY <1>2, <1>3

\* The map implements NxMapSpec, for every table size, hash callback and
\* client: each call takes effect at one instant, and one that fails has
\* changed nothing.
THEOREM ImplementsMapHolds ==
  ASSUME "pending" \notin Val \union {NoVal}
  PROVE  Spec => ImplementsMap
<1>1. EntriesInv /\ EntriesInv' /\ [Next]_vars => [MapSpec!Next]_(MapSpec!mapVars)
  BY NextRefines
<1> QED
  BY <1>1, InitRefines, EntriesInvHolds, PTL DEF Spec, ImplementsMap, MapSpec!Spec
-----------------------------------------------------------------------------
(* No loop goes on for ever.                                               *)

\* remove_found starts the shift at the entry it found, and each iteration
\* leaves idx at the entry it copied; no doubling step of reserve wraps.
LEMMA NextLoopOK == TypeInv /\ LoopOK /\ [Next]_vars => LoopOK'
<1> SUFFICES ASSUME TypeInv, LoopOK, [Next]_vars PROVE LoopOK'
  OBVIOUS
<1>1. CASE UNCHANGED vars
  BY <1>1 DEF vars, LoopOK, occ
<1>2. CASE \E n \in ReserveArgs : reserve(n)
  <2>1. pc' = "size" /\ table_cap' > 0
    BY <1>2, CapAssumption DEF reserve, TypeInv, TypeOK
  <2> QED
    BY <2>1 DEF LoopOK
<1>3. CASE reserve_doubles
  <2>1. pc' = "size" /\ table_cap' > 0
    BY <1>3 DEF reserve_doubles, LoopOK, TypeInv, TypeOK
  <2> QED
    BY <2>1 DEF LoopOK
<1>4. CASE remove_found
  <2>1. pc' = "shift" /\ occ(idx)'
    BY <1>4 DEF remove_found, Hits, Misses, table, occ
  <2> QED
    BY <2>1 DEF LoopOK
<1>5. CASE shift_back
  <2>1. /\ idx \in 0 .. cap - 1 /\ slots \in [0 .. cap - 1 -> Slot]
        /\ succ(cap, idx) \in 0 .. cap - 1 /\ succ(cap, idx) # idx
    BY <1>5, ShiftFacts DEF shift_back
  <2>2. pc' = "shift" /\ idx' = succ(cap, idx) /\ slots'[idx'] = slots[succ(cap, idx)] /\ occ(succ(cap, idx))
    BY <1>5, <2>1 DEF shift_back, ShiftStops
  <2> QED
    BY <2>2 DEF LoopOK, occ
<1>6. CASE Client /\ ~(\E n \in ReserveArgs : reserve(n))
  <2>1. pc' \notin {"shift", "size"}
    BY <1>6 DEF Client, new_p, new_p_fails, drop, get, remove, put, clear, for_each,
                callback_returns, MayCall, StartFind
  <2> QED
    BY <2>1 DEF LoopOK
<1>7. CASE Step /\ ~(reserve_doubles \/ remove_found \/ shift_back)
  <2>1. pc' \notin {"shift", "size"}
    BY <1>7 DEF Step, find_next, get_found, get_absent, put_overwrites, put_absent,
         remove_absent, shift_ends, put_fits, grow_and_rehash, grow_fails,
         reserve_overflows, reserve_enough, reserve_allocs, reserve_fails,
         rehash_skips, rehash_moves, rehash_done_put, rehash_done_reserve,
         insert_advances, insert_swaps, move_places, put_places,
         iter_skips, iter_ends, iter_calls, StartInsert, Leave, NewTable, Inserting
  <2> QED
    BY <2>1 DEF LoopOK
<1> QED
  BY <1>1, <1>2, <1>3, <1>4, <1>5, <1>6, <1>7 DEF Next

LEMMA LeftType ==
  ASSUME NEW n \in Nat, NEW i \in Int, i >= 0
  PROVE  /\ Left(n, i) \in Nat
         /\ \A j \in Int : j > i /\ i < n => Left(n, j) < Left(n, i)
BY DEF Left

LEMMA AheadFinite ==
  ASSUME cap \in Nat
  PROVE  IsFiniteSet(Ahead) /\ Cardinality(Ahead) \in Nat
<1>1. IsFiniteSet(Idx)
  <2>1. 0 \in Int /\ cap - 1 \in Int
    OBVIOUS
  <2> QED
    BY <2>1, FS_Interval DEF Idx
<1>2. Ahead \in SUBSET Idx
  BY DEF Ahead
<1> QED
  BY <1>1, <1>2, FS_Subset, FS_CardinalityType

\* The loop of insert_no_grow, or of the shift, moves from a taken slot to the
\* next one and takes or frees none: one slot less lies before the empty one.
LEMMA AheadShrinks ==
  ASSUME cap \in Nat \ {0}, idx \in Idx, occ(idx), EmptySlotRemains,
         cap' = cap, idx' = succ(cap, idx), \A p \in Idx : occ(p)' = occ(p)
  PROVE  /\ Cardinality(Ahead) \in Nat /\ Cardinality(Ahead') \in Nat
         /\ Cardinality(Ahead') < Cardinality(Ahead)
<1>1. Idx' = Idx /\ idx' \in Idx
  BY SuccInIdx DEF Idx
<1>2. \A j \in Idx : /\ steps(cap, idx, j) \in Nat /\ steps(cap, idx, j) < cap
                     /\ j # idx => steps(cap, idx, j) > 0
                     /\ steps(cap, idx', j) = IF j = idx THEN cap - 1 ELSE steps(cap, idx, j) - 1
  BY <1>1 DEF steps, succ, Idx
<1>3. steps(cap, idx, idx) = 0
  BY DEF steps, Idx
<1>4. PICK e \in Idx : ~occ(e) /\ e # idx
  BY DEF EmptySlotRemains
<1>5. idx \in Ahead
  BY <1>2, <1>3 DEF Ahead
<1>6. idx \notin Ahead'
  <2>1. steps(cap, idx', e) < cap - 1 /\ steps(cap, idx', idx) = cap - 1
    BY <1>2, <1>4
  <2>2. steps(cap', idx', idx) < steps(cap', idx', e) => FALSE
    BY <1>2, <1>4, <2>1
  <2>3. ~occ(e)'
    BY <1>4
  <2> QED
    BY <1>1, <1>4, <2>2, <2>3 DEF Ahead
<1>7. \A j \in Ahead' : j \in Ahead
  <2> SUFFICES ASSUME NEW j \in Ahead' PROVE j \in Ahead
    OBVIOUS
  <2>1. j \in Idx /\ j # idx /\ \A f \in Idx : ~occ(f) => steps(cap, idx', j) < steps(cap, idx', f)
    BY <1>1, <1>6 DEF Ahead
  <2>2. \A f \in Idx : ~occ(f) => steps(cap, idx, j) < steps(cap, idx, f)
    <3> SUFFICES ASSUME NEW f \in Idx, ~occ(f) PROVE steps(cap, idx, j) < steps(cap, idx, f)
      OBVIOUS
    <3>1. f # idx /\ steps(cap, idx', j) < steps(cap, idx', f)
      BY <2>1
    <3> QED
      BY <1>2, <2>1, <3>1
  <2> QED
    BY <2>1, <2>2 DEF Ahead
<1>8. Ahead' \in SUBSET (Ahead \ {idx})
  BY <1>6, <1>7
<1>9. IsFiniteSet(Ahead) /\ Cardinality(Ahead) \in Nat
  BY AheadFinite
<1>10. IsFiniteSet(Ahead \ {idx}) /\ Cardinality(Ahead \ {idx}) = Cardinality(Ahead) - 1
  BY <1>5, <1>9, FS_RemoveElement
<1>11. /\ Cardinality(Ahead') <= Cardinality(Ahead \ {idx})
       /\ Cardinality(Ahead') \in Nat
  BY <1>8, <1>10, FS_Subset, FS_CardinalityType
<1> QED
  BY <1>9, <1>10, <1>11

\* What is left to do is a triple of natural numbers: it cannot decrease for
\* ever.
LEMMA WorkType == TypeInv => Work \in Nat \X Nat \X Nat
<1> SUFFICES ASSUME TypeInv PROVE Work \in Nat \X Nat \X Nat
  OBVIOUS
<1>a. /\ cap \in Nat /\ dist \in Nat /\ table_cap \in Nat /\ ri \in Nat /\ USIZE \in Nat
      /\ iter \in Int /\ (pc = "iter" => iter >= 0)
  BY SizeAssumption DEF TypeInv, TypeOK, CallOK
<1>1. /\ Cardinality(Ahead) \in Nat /\ Left(cap, dist) \in Nat /\ Left(USIZE, table_cap) \in Nat
      /\ Left(cap, ri) \in Nat /\ (pc = "iter" => Left(cap, iter) \in Nat)
  BY <1>a, AheadFinite DEF Left
<1>2. 1 + Cardinality(Ahead) \in Nat
  BY <1>1
<1> QED
  BY <1>1, <1>2 DEF Work

\* An iteration of a loop, or the step to the next one, leaves less to do.
LEMMA StepShrinks ==
  ASSUME EntriesInv, LoopOK, Step
  PROVE  Smaller(Work', Work)
<1>a. TypeInv /\ EmptySlotRemains
  BY SlotRemains DEF EntriesInv, IndInv
<1>b. /\ cap \in Nat /\ dist \in Nat /\ table_cap \in Nat /\ ri \in Nat /\ iter \in Int
      /\ USIZE \in Nat
  BY <1>a, SizeAssumption DEF TypeInv, TypeOK
<1>c. ASSUME NEW x, NEW y, x \in {0, 1, 2, 3, 4}, y \in {1, 2, 3, 4, 5}, x < y, Work'[1] = x, Work[1] = y
      PROVE  Smaller(Work', Work)
  BY <1>c DEF Smaller
<1>1. CASE find_next
  <2>1. cap \in Nat \ {0} /\ idx \in 0 .. cap - 1 /\ slots[idx] \in Slot
    BY <1>1, <1>a, TypeFacts DEF find_next, TypeInv, TypeOK, SizesOK, Idx
  <2>2. dist < cap
    <3>1. probe_dist(cap, slots[idx].h, idx) \in Nat /\ probe_dist(cap, slots[idx].h, idx) < cap
      BY <2>1, SlotHash, ProbeType DEF probe_dist
    <3> QED
      BY <1>1, <1>b, <3>1 DEF find_next, Misses
  <2>3. Left(cap, dist + 1) < Left(cap, dist)
    BY <1>b, <2>2 DEF Left
  <2>4. Work = <<5, Left(cap, dist), 0>> /\ Work' = <<5, Left(cap, dist + 1), 0>>
    BY <1>1 DEF find_next, table, Work
  <2> QED
    BY <2>3, <2>4 DEF Smaller
<1>2. CASE reserve_doubles
  <2>1. table_cap > 0 /\ pc = "size" /\ pc' = "size" /\ table_cap' = table_cap * 2 /\ table_cap < USIZE
    BY <1>2, <1>b DEF reserve_doubles, LoopOK
  <2>2. Left(USIZE, table_cap * 2) < Left(USIZE, table_cap)
    BY <1>b, <2>1 DEF Left
  <2>3. Work = <<4, Left(USIZE, table_cap), 0>> /\ Work' = <<4, Left(USIZE, table_cap * 2), 0>>
    BY <2>1 DEF Work
  <2> QED
    BY <2>2, <2>3 DEF Smaller
<1>3. CASE rehash_skips \/ rehash_moves
  <2>1. ri < cap
    BY <1>3, <1>a, <1>b DEF rehash_skips, rehash_moves, OldIdx, TypeInv, TypeOK
  <2>2. Left(cap, ri + 1) < Left(cap, ri)
    BY <1>b, <2>1 DEF Left
  <2>3. Work = <<2, Left(cap, ri), 0>>
    BY <1>3 DEF rehash_skips, rehash_moves, Work
  <2>4. Work'[1] = 2 /\ Work'[2] = Left(cap, ri + 1)
    <3>1. cap' = cap /\ ri' = ri + 1 /\ pc' \in {"rehash", "move"}
      BY <1>3 DEF rehash_skips, rehash_moves, table, StartInsert
    <3> QED
      BY <3>1 DEF Work
  <2> QED
    BY <2>2, <2>3, <2>4 DEF Smaller
<1>4. CASE insert_advances \/ insert_swaps
  <2>1. /\ cap \in Nat \ {0} /\ idx \in Idx /\ slots \in [Idx -> Slot] /\ tmp \in Entry /\ occ(idx)
        /\ cap' = cap /\ ri' = ri /\ pc' = pc /\ idx' = succ(cap, idx) /\ Inserting
    BY <1>4, <1>a DEF insert_advances, insert_swaps, table, TypeInv, TypeOK, SizesOK, Inserting
  <2>2. tmp.h # EMPTY_HASH
    BY <2>1 DEF Entry
  <2>3. \A p \in Idx : occ(p)' = occ(p)
    BY <1>4, <2>1, <2>2 DEF insert_advances, insert_swaps, table, occ
  <2>4. /\ Cardinality(Ahead) \in Nat /\ Cardinality(Ahead') \in Nat
        /\ Cardinality(Ahead') < Cardinality(Ahead)
    BY <1>a, <2>1, <2>3, AheadShrinks
  <2>6. CASE pc = "insert"
    <3>1. Work = <<1, Cardinality(Ahead), 0>> /\ Work' = <<1, Cardinality(Ahead'), 0>>
      BY <2>1, <2>6 DEF Work
    <3> QED
      BY <2>4, <3>1 DEF Smaller
  <2>7. CASE pc = "move"
    <3>1. /\ Work = <<2, Left(cap, ri), 1 + Cardinality(Ahead)>>
          /\ Work' = <<2, Left(cap, ri), 1 + Cardinality(Ahead')>>
      BY <2>1, <2>7 DEF Work
    <3>2. 1 + Cardinality(Ahead') < 1 + Cardinality(Ahead)
      BY <2>4
    <3> QED
      BY <3>1, <3>2 DEF Smaller
  <2> QED
    BY <2>1, <2>6, <2>7 DEF Inserting
<1>5. CASE move_places
  <2>1. pc = "move" /\ pc' = "rehash" /\ cap' = cap /\ ri' = ri
    BY <1>5 DEF move_places
  <2>2. /\ Work = <<2, Left(cap, ri), 1 + Cardinality(Ahead)>>
        /\ Work' = <<2, Left(cap, ri), 0>>
    BY <2>1 DEF Work
  <2>3. 0 < 1 + Cardinality(Ahead)
    BY <1>b, AheadFinite
  <2> QED
    BY <2>2, <2>3 DEF Smaller
<1>6. CASE shift_back
  <2>1. /\ cap \in Nat \ {0} /\ idx \in 0 .. cap - 1 /\ slots \in [0 .. cap - 1 -> Slot]
        /\ succ(cap, idx) \in 0 .. cap - 1 /\ succ(cap, idx) # idx
        /\ pc = "shift" /\ pc' = "shift" /\ cap' = cap /\ idx' = succ(cap, idx)
    BY <1>6, <1>a, ShiftFacts DEF shift_back
  <2>2. occ(idx) /\ occ(succ(cap, idx))
    BY <1>6, <2>1 DEF LoopOK, shift_back, ShiftStops
  <2>3. \A p \in Idx : occ(p)' = occ(p)
    BY <1>6, <2>1, <2>2 DEF shift_back, occ, Idx
  <2>4. Cardinality(Ahead') < Cardinality(Ahead)
    BY <1>a, <2>1, <2>2, <2>3, AheadShrinks DEF Idx
  <2>5. Work = <<1, Cardinality(Ahead), 0>> /\ Work' = <<1, Cardinality(Ahead'), 0>>
    BY <2>1 DEF Work
  <2> QED
    BY <2>4, <2>5 DEF Smaller
<1>7. CASE iter_skips
  <2>1. pc = "iter" /\ pc' = "iter" /\ cap' = cap /\ iter' = iter + 1 /\ iter < cap
    BY <1>7 DEF iter_skips, table
  <2>2. Left(cap, iter + 1) < Left(cap, iter)
    BY <1>b, <2>1 DEF Left
  <2>3. Work = <<1, Left(cap, iter), 0>> /\ Work' = <<1, Left(cap, iter + 1), 0>>
    BY <2>1 DEF Work
  <2> QED
    BY <2>2, <2>3 DEF Smaller
<1>8. CASE put_absent \/ remove_found
  <2>1. pc = "find" /\ pc' \in {"grow", "shift"}
    BY <1>8 DEF put_absent, remove_found
  <2>2. Work[1] = 5 /\ Work'[1] \in {1, 3}
    BY <2>1 DEF Work
  <2> QED
    BY <2>2, <1>c
<1>9. CASE put_fits \/ grow_and_rehash
  <2>1. pc = "grow" /\ pc' \in {"insert", "rehash"}
    BY <1>9 DEF put_fits, grow_and_rehash, StartInsert, NewTable
  <2>2. Work[1] = 3 /\ Work'[1] \in {1, 2}
    BY <2>1 DEF Work
  <2> QED
    BY <2>2, <1>c
<1>10. CASE reserve_allocs \/ rehash_done_put
  <2>1. (pc = "size" /\ pc' = "rehash") \/ (pc = "rehash" /\ pc' = "insert")
    BY <1>10 DEF reserve_allocs, rehash_done_put, NewTable, StartInsert
  <2>2. (Work[1] = 4 /\ Work'[1] = 2) \/ (Work[1] = 2 /\ Work'[1] = 1)
    BY <2>1 DEF Work
  <2> QED
    BY <2>2, <1>c
<1>11. CASE \/ get_found \/ get_absent \/ put_overwrites \/ remove_absent \/ shift_ends
            \/ grow_fails \/ reserve_overflows \/ reserve_enough \/ reserve_fails
            \/ rehash_done_reserve \/ put_places \/ iter_ends \/ \E v \in Val : iter_calls(v)
  <2>1. pc \in Loops \union {"iter"} /\ pc' = "idle"
    BY <1>11 DEF get_found, get_absent, put_overwrites, remove_absent, shift_ends,
         grow_fails, reserve_overflows, reserve_enough, reserve_fails,
         rehash_done_reserve, put_places, iter_ends, iter_calls, Leave, Loops
  <2>2. Work[1] \in {1, 2, 3, 4, 5} /\ Work'[1] = 0
    BY <2>1 DEF Work, Loops
  <2> QED
    BY <2>2, <1>c
<1> QED
  BY <1>1, <1>2, <1>3, <1>4, <1>5, <1>6, <1>7, <1>8, <1>9, <1>10, <1>11 DEF Step

\* Between two calls of the client, or of for_each's callback, only such steps
\* are taken: every loop of hash_map.c ends, for every capacity, hash callback
\* and argument of reserve.
THEOREM LoopsEndHolds == Spec => [](Work \in Nat \X Nat \X Nat) /\ LoopsEnd
<1>1. Init => LoopOK
  BY DEF Init, LoopOK
<1>2. EntriesInv => TypeInv
  BY DEF EntriesInv, IndInv
<1>3. EntriesInv /\ LoopOK /\ [Next]_vars => LoopOK'
  BY <1>2, NextLoopOK
<1>4. EntriesInv /\ LoopOK /\ [Next]_vars
        => [(pc \in Loops \union {"iter"}) => Smaller(Work', Work)]_vars
  <2> SUFFICES ASSUME EntriesInv, LoopOK, Next, pc \in Loops \union {"iter"}
               PROVE  Smaller(Work', Work)
    OBVIOUS
  <2>1. ~Client
    BY DEF Client, new_p, new_p_fails, drop, get, remove, put, reserve, clear, for_each,
           callback_returns, MayCall, Loops
  <2> QED
    BY <2>1, StepShrinks DEF Next
<1> QED
  BY <1>1, <1>2, <1>3, <1>4, EntriesInvHolds, WorkType, PTL DEF Spec, LoopsEnd
=============================================================================
