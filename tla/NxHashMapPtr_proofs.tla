------------------------ MODULE NxHashMapPtr_proofs ------------------------
(***************************************************************************)
(* Proofs about NxHashMap and NxHashMapPtr: what a client can rely on      *)
(* between its calls.  Every probe ends, a reservation is kept, and the    *)
(* pointer get returned stays good as long as len and cap do.              *)
(***************************************************************************)
EXTENDS NxHashMapPtr, NxHashMap_proofs

-----------------------------------------------------------------------------
(* The capacity is a power of two.                                         *)

\* What divides the double of a number and is odd divides the number.
LEMMA OddDivisor ==
  ASSUME NEW c \in Nat, NEW d \in Nat, d % 2 = 1, (2 * c) % d = 0
  PROVE  c % d = 0
<1>1. PICK q \in Nat : 2 * c = d * q
  <2>1. 2 * c = d * ((2 * c) \div d) /\ (2 * c) \div d \in Nat
    OBVIOUS
  <2> QED
    BY <2>1
<1>2. PICK e \in Nat : d = 2 * e + 1
  <2>1. d = 2 * (d \div 2) + 1 /\ d \div 2 \in Nat
    OBVIOUS
  <2> QED
    BY <2>1
<1>3. PICK u \in Nat : u = e * q
  OBVIOUS
<1>4. 2 * c = 2 * u + q
  BY <1>1, <1>2, <1>3
<1>5. PICK r \in Nat : q = 2 * r
  <2>1. q = 2 * (c - u) /\ c - u \in Nat
    BY <1>4
  <2> QED
    BY <2>1
<1>6. c = d * r /\ d > 0
  BY <1>1, <1>2, <1>5
<1> QED
  BY <1>6

LEMMA DoublePowerOfTwo ==
  ASSUME NEW c \in Nat \ {0}, PowerOfTwo(c)
  PROVE  PowerOfTwo(2 * c)
<1> SUFFICES ASSUME NEW d \in 2 .. 2 * c, (2 * c) % d = 0, d % 2 # 0 PROVE FALSE
  BY DEF PowerOfTwo
<1>1. d \in Nat /\ d % 2 = 1 /\ d >= 2
  OBVIOUS
<1>2. c % d = 0
  BY <1>1, OddDivisor
<1>3. d <= c
  BY <1>1, <1>2
<1> QED
  BY <1>1, <1>2, <1>3 DEF PowerOfTwo

\* Beside cap, what reserve is about to make of it.
PowersInv ==
  /\ CapIsPowerOfTwo
  /\ pc = "size" => table_cap \in Nat \ {0} /\ PowerOfTwo(table_cap)

\* Only growing and reserving decide on a capacity.
LEMMA CapChanges ==
  ASSUME Next
  PROVE  \/ UNCHANGED cap
         \/ cap' = 0
         \/ pc = "grow" /\ cap' = new_cap
         \/ pc = "size" /\ cap' = table_cap
BY DEF Next, Client, Step, new_p, new_p_fails, drop, get, remove, put, reserve, clear,
       for_each, callback_returns, find_next, get_found, get_absent, put_overwrites,
       put_absent, remove_absent, remove_found, shift_back, shift_ends, put_fits,
       grow_and_rehash, grow_fails, reserve_doubles, reserve_overflows, reserve_enough,
       reserve_allocs, reserve_fails, rehash_skips, rehash_moves, rehash_done_put,
       rehash_done_reserve, insert_advances, insert_swaps, move_places, put_places,
       iter_skips, iter_ends, iter_calls, NewTable, StartFind, table

LEMMA TableCapChanges ==
  ASSUME Next, pc' = "size"
  PROVE  \/ table_cap' = IF cap = 0 THEN DEFAULT_CAP ELSE cap
         \/ pc = "size" /\ table_cap' = table_cap * 2
BY DEF Next, Client, Step, new_p, new_p_fails, drop, get, remove, put, reserve, clear,
       for_each, callback_returns, find_next, get_found, get_absent, put_overwrites,
       put_absent, remove_absent, remove_found, shift_back, shift_ends, put_fits,
       grow_and_rehash, grow_fails, reserve_doubles, reserve_overflows, reserve_enough,
       reserve_allocs, reserve_fails, rehash_skips, rehash_moves, rehash_done_put,
       rehash_done_reserve, insert_advances, insert_swaps, move_places, put_places,
       iter_skips, iter_ends, iter_calls, NewTable, StartFind, StartInsert, Leave,
       MayCall, Inserting

LEMMA NextPowersInv ==
  ASSUME PowerOfTwo(DEFAULT_CAP), TypeInv, PowersInv, Next
  PROVE  PowersInv'
<1>1. TableFits /\ cap \in Nat /\ len \in Nat /\ LoadFactor /\ DEFAULT_CAP \in Nat \ {0}
  BY CapAssumption DEF Next, TypeInv, TypeOK
<1>2. new_cap \in Nat \ {0} /\ PowerOfTwo(new_cap)
  <2>1. CASE cap = 0
    BY <2>1, <1>1 DEF new_cap
  <2>2. CASE cap # 0
    <3>1. new_cap = 2 * cap
      BY <2>2, <1>1, NoWrap DEF new_cap
    <3> QED
      BY <3>1, <2>2, <1>1, DoublePowerOfTwo DEF PowersInv, CapIsPowerOfTwo
  <2> QED
    BY <2>1, <2>2
<1>3. CapIsPowerOfTwo'
  BY <1>2, CapChanges DEF PowersInv, CapIsPowerOfTwo
<1>4. ASSUME pc' = "size" PROVE table_cap' \in Nat \ {0} /\ PowerOfTwo(table_cap')
  <2>1. CASE table_cap' = IF cap = 0 THEN DEFAULT_CAP ELSE cap
    BY <2>1, <1>1 DEF PowersInv, CapIsPowerOfTwo
  <2>2. CASE pc = "size" /\ table_cap' = table_cap * 2
    <3>1. table_cap \in Nat \ {0} /\ table_cap * 2 = 2 * table_cap
      BY <2>2 DEF PowersInv
    <3> QED
      BY <3>1, <2>2, DoublePowerOfTwo DEF PowersInv
  <2> QED
    BY <1>4, <2>1, <2>2, TableCapChanges
<1> QED
  BY <1>3, <1>4 DEF PowersInv, PowerOfTwo

\* A probe always ends, in find_slot and in insert_no_grow: whatever failed and
\* however the table grew, masking reaches all of its slots, and one is empty.
THEOREM ProbesEndHolds ==
  ASSUME PowerOfTwo(DEFAULT_CAP)
  PROVE  Spec => []ProbesEnd
<1>1. Init => PowersInv
  BY DEF Init, PowersInv, CapIsPowerOfTwo
<1>2. TypeInv /\ PowersInv /\ [Next]_vars => PowersInv'
  <2>1. ASSUME PowersInv, UNCHANGED vars PROVE PowersInv'
    BY <2>1 DEF vars, PowersInv, CapIsPowerOfTwo, PowerOfTwo
  <2> QED
    BY <2>1, NextPowersInv
<1>3. PowersInv => CapIsPowerOfTwo
  BY DEF PowersInv
<1>4. EmptySlotRemains /\ CapIsPowerOfTwo => ProbesEnd
  BY DEF ProbesEnd
<1> QED
  BY <1>1, <1>2, <1>3, <1>4, InitTypeInv, NextTypeInv, EmptySlotHolds, PTL DEF Spec

-----------------------------------------------------------------------------
(* reserve keeps its promise.                                              *)

\* No request comes near the top of nx_usize.
ReservesFit == \A n \in ReserveArgs : n * LOAD_DEN < USIZE

\* A table of c slots holds n entries without growing.
RoomFor(n, c) == n * LOAD_DEN < c * LOAD_NUM

ReserveInv ==
  /\ promised > 0 => RoomFor(promised, cap)
  /\ call.op = "reserve" => call.n \in ReserveArgs
  /\ pc \in {"rehash", "move"} /\ call.op = "reserve" => RoomFor(call.n, cap)
  /\ pc = "grow" => TableFits

\* A wrapped product is smaller than the exact one: whatever reserve accepts is
\* large enough.
LEMMA AcceptedRoom ==
  ASSUME ReservesFit, TypeInv, call.n \in ReserveArgs, ~TooSmall
  PROVE  RoomFor(call.n, table_cap)
<1>0. call.n \in Nat /\ table_cap \in Nat
  <2>1. USIZE \in Nat
    BY SizeAssumption
  <2>2. call.n \in 0 .. USIZE - 1
    BY ReserveAssumption
  <2> QED
    BY <2>1, <2>2 DEF TypeInv, TypeOK
<1>1. PICK a \in Nat, b \in Nat : a = call.n * LOAD_DEN /\ b = table_cap * LOAD_NUM
  BY <1>0 DEF LOAD_DEN, LOAD_NUM
<1>2. a < USIZE /\ USIZE \in Nat
  BY <1>1, SizeAssumption DEF ReservesFit
<1>3. a % USIZE = a /\ b % USIZE <= b
  BY <1>2
<1> QED
  BY <1>1, <1>2, <1>3 DEF TooSmall, RoomFor

LEMMA RoomGrows ==
  ASSUME NEW n \in Nat, NEW c \in Nat, NEW d \in Nat, c <= d, RoomFor(n, c)
  PROVE  RoomFor(n, d)
BY DEF RoomFor, LOAD_DEN, LOAD_NUM

\* The capacity shrinks only when the map is dropped.
LEMMA CapGrows ==
  ASSUME TypeInv, Next
  PROVE  cap' \in Nat /\ (cap' >= cap \/ drop)
<1>1. CASE drop
  BY <1>1 DEF drop
<1>2. CASE grow_and_rehash
  <2>1. TableFits /\ cap \in Nat /\ len \in Nat /\ LoadFactor /\ DEFAULT_CAP \in Nat
    BY CapAssumption DEF Next, TypeInv, TypeOK
  <2> QED
    BY <1>2, <2>1, NoWrap DEF grow_and_rehash, NewTable, new_cap
<1>3. CASE reserve_allocs
  BY <1>3 DEF reserve_allocs, NewTable, TypeInv, TypeOK
<1>4. CASE Next /\ ~drop /\ ~grow_and_rehash /\ ~reserve_allocs
  <2>1. cap' = cap
    BY <1>4 DEF Next, Client, Step, new_p, new_p_fails, drop, get, remove, put, reserve, clear,
       for_each, callback_returns, find_next, get_found, get_absent, put_overwrites,
       put_absent, remove_absent, remove_found, shift_back, shift_ends, put_fits,
       grow_and_rehash, grow_fails, reserve_doubles, reserve_overflows, reserve_enough,
       reserve_allocs, reserve_fails, rehash_skips, rehash_moves, rehash_done_put,
       rehash_done_reserve, insert_advances, insert_swaps, move_places, put_places,
       iter_skips, iter_ends, iter_calls,
       StartFind, table
  <2> QED
    BY <2>1 DEF TypeInv, TypeOK
<1> QED
  BY <1>1, <1>2, <1>3, <1>4

\* Who promises.
LEMMA PromisedChanges ==
  ASSUME Next
  PROVE  \/ UNCHANGED promised
         \/ drop /\ promised' = 0
         \/ (reserve_enough \/ rehash_done_reserve) /\ Promise(call.n)
BY DEF Next, Client, Step, new_p, new_p_fails, drop, get, remove, put, reserve, clear,
       for_each, callback_returns, find_next, get_found, get_absent, put_overwrites,
       put_absent, remove_absent, remove_found, shift_back, shift_ends, put_fits,
       grow_and_rehash, grow_fails, reserve_doubles, reserve_overflows, reserve_enough,
       reserve_allocs, reserve_fails, rehash_skips, rehash_moves, rehash_done_put,
       rehash_done_reserve, insert_advances, insert_swaps, move_places, put_places,
       iter_skips, iter_ends, iter_calls,
       StartFind, NewTable, ghosts

\* What becomes of the request of a reserve, and of a table that is to grow.
LEMMA CallChanges ==
  ASSUME TypeInv, Next
  PROVE  /\ call'.op = "reserve" => call' = call \/ call'.n \in ReserveArgs
         /\ pc' \in {"rehash", "move"} /\ call'.op = "reserve" =>
              call' = call /\ (reserve_allocs \/ (pc \in {"rehash", "move"} /\ cap' = cap))
         /\ pc' = "grow" => cap' = cap
<1>1. CASE Client
  BY <1>1 DEF Client, new_p, new_p_fails, drop, get, remove, put, reserve, clear, for_each,
       callback_returns, StartFind, Request, table, locals, MayCall
<1>2. CASE Step
  BY <1>2 DEF TypeInv, CallOK, Step, NoCall, Leave, StartInsert, NewTable, table,
       find_next, get_found, get_absent, put_overwrites,
       put_absent, remove_absent, remove_found, shift_back, shift_ends, put_fits,
       grow_and_rehash, grow_fails, reserve_doubles, reserve_overflows, reserve_enough,
       reserve_allocs, reserve_fails, rehash_skips, rehash_moves, rehash_done_put,
       rehash_done_reserve, insert_advances, insert_swaps, move_places, put_places,
       iter_skips, iter_ends, iter_calls
<1> QED
  BY <1>1, <1>2 DEF Next

LEMMA NextReserveInv ==
  ASSUME ReservesFit, TypeInv, ReserveInv, Next
  PROVE  ReserveInv'
<1>1. /\ cap \in Nat /\ promised \in Nat /\ call.n \in Nat /\ table_cap \in Nat
      /\ TableFits /\ cap' \in Nat /\ (cap' >= cap \/ drop)
  BY CapGrows DEF Next, TypeInv, TypeOK, CallRecord
<1>2. pc = "size" => call.op = "reserve" /\ call.n \in ReserveArgs
  BY DEF TypeInv, CallOK, ReserveInv
<1>3. promised' > 0 => RoomFor(promised', cap')
  <2>1. CASE UNCHANGED promised /\ ~drop
    BY <2>1, <1>1, RoomGrows DEF ReserveInv
  <2>2. CASE drop
    BY <2>2 DEF drop
  <2>3. CASE reserve_enough /\ Promise(call.n)
    <3>1. RoomFor(call.n, table_cap) /\ table_cap <= cap /\ cap' = cap
      BY <2>3, <1>2, AcceptedRoom DEF reserve_enough, table
    <3>2. RoomFor(call.n, cap')
      BY <3>1, <1>1, RoomGrows
    <3> QED
      BY <2>3, <3>1, <3>2 DEF Promise, ReserveInv
  <2>4. CASE rehash_done_reserve /\ Promise(call.n)
    <3>1. RoomFor(call.n, cap) /\ cap' = cap
      BY <2>4 DEF rehash_done_reserve, table, ReserveInv
    <3> QED
      BY <2>4, <3>1 DEF Promise, ReserveInv
  <2> QED
    BY <2>1, <2>2, <2>3, <2>4, PromisedChanges
<1>4. call'.op = "reserve" => call'.n \in ReserveArgs
  BY CallChanges DEF ReserveInv
<1>5. pc' \in {"rehash", "move"} /\ call'.op = "reserve" => RoomFor(call'.n, cap')
  <2>1. ASSUME reserve_allocs PROVE RoomFor(call.n, cap')
    BY <2>1, <1>2, AcceptedRoom DEF reserve_allocs, NewTable
  <2> QED
    BY <2>1, CallChanges DEF ReserveInv
<1>6. pc' = "grow" => TableFits'
  BY <1>1, CallChanges DEF TableFits
<1> QED
  BY <1>3, <1>4, <1>5, <1>6 DEF ReserveInv, RoomFor

\* Once reserve(n) has returned OK, no put needs the allocator until n entries
\* are stored: however the table grew meanwhile and whatever was removed.
THEOREM ReserveDeliversHolds ==
  ASSUME ReservesFit
  PROVE  Spec => []ReserveDelivers
<1>1. Init => ReserveInv
  BY DEF Init, ReserveInv, NoCall
<1>2. TypeInv /\ ReserveInv /\ [Next]_vars => ReserveInv'
  <2>1. ASSUME ReserveInv, UNCHANGED vars PROVE ReserveInv'
    BY <2>1 DEF vars, ReserveInv, RoomFor, TableFits
  <2> QED
    BY <2>1, NextReserveInv
<1>3. TypeInv /\ ReserveInv => ReserveDelivers
  <2> SUFFICES ASSUME TypeInv, ReserveInv, pc = "grow", len < promised PROVE ~needs_grow
    BY DEF ReserveDelivers
  <2>1. cap \in Nat /\ len \in Nat /\ promised \in Nat /\ LoadFactor /\ TableFits
    BY DEF TypeInv, TypeOK, ReserveInv
  <2>2. len * 4 < cap * 3 /\ cap # 0
    BY <2>1 DEF ReserveInv, RoomFor, LOAD_DEN, LOAD_NUM
  <2> QED
    BY <2>1, <2>2, NoWrap DEF needs_grow, LOAD_DEN, LOAD_NUM
<1> QED
  BY <1>1, <1>2, <1>3, InitTypeInv, NextTypeInv, PTL DEF Spec

-----------------------------------------------------------------------------
(* The pointer from get.                                                   *)

\* While an entry is placed or taken out the table is being rearranged; the
\* client gets to see it only after len has changed.
PtrOK ==
  ptr # NoPtr =>
    /\ ptr \in [at : Idx, k : Key, freed : {FALSE}]
    /\ pc \notin {"none", "rehash", "move"}
    /\ pc \notin {"insert", "shift"} => slots[ptr.at].k = ptr.k

PtrInv == EntriesInv /\ PtrOK

\* What a step of the map may do to the entry a pointer points at.
StaysAt(i, k) ==
  /\ pc' \notin {"none", "rehash", "move"} /\ cap' = cap
  /\ pc' \notin {"insert", "shift"} => slots'[i].k = k
Trusted == pc' # "none" /\ len' = len /\ cap' = cap

LEMMA OccupiedMap ==
  ASSUME EntriesInv, pc = "idle", NEW i \in Idx, slots[i].k \in Key
  PROVE  len # 0
<1>1. TypeInv /\ CountOK
  BY DEF EntriesInv, IndInv
<1>2. occ(i)
  BY <1>1, KeysAssumption DEF occ, TypeInv, TypeOK, Slot, Entry, NoEntry
<1>3. i \in Stored
  BY <1>2 DEF Stored
<1> QED
  BY <1>1, <1>3, EmptyMap DEF Calm

\* Writing a value moves no key.
LEMMA ValueKeepsKeys ==
  ASSUME TypeInv, NEW i, NEW j \in Idx, NEW v, slots' = [slots EXCEPT ![i].v = v]
  PROVE  slots'[j].k = slots[j].k
BY DEF TypeInv, TypeOK, Slot, Entry, NoEntry

LEMMA LooksStay ==
  ASSUME TypeInv, Looks, pc \notin {"none", "rehash", "move"}, Trusted,
         NEW i, NEW k, pc \notin {"insert", "shift"} => slots[i].k = k
  PROVE  StaysAt(i, k)
<1>1. pc \in Calm /\ pc' \in Calm /\ UNCHANGED <<slots, cap>>
  BY LooksCalm
<1> QED
  BY <1>1 DEF StaysAt, Trusted, Calm

LEMMA ShufflesStay ==
  ASSUME TypeInv, TableFits, Shuffles, pc \notin {"none", "rehash", "move"}, Trusted,
         NEW i, NEW k, pc \notin {"insert", "shift"} => slots[i].k = k
  PROVE  StaysAt(i, k)
<1>1. len \in Nat /\ cap \in Nat /\ DEFAULT_CAP \in Nat \ {0} /\ LoadFactor
  BY CapAssumption DEF TypeInv, TypeOK
<1>2. ~grow_and_rehash
  <2>1. new_cap # cap
    BY <1>1, NoWrap DEF new_cap
  <2> QED
    BY <2>1 DEF grow_and_rehash, NewTable, Trusted
<1>3. ~reserve_allocs /\ ~shift_ends /\ ~put_places
  BY <1>1 DEF reserve_allocs, NewTable, shift_ends, put_places, Trusted, TypeInv, TypeOK
<1>4. CASE shift_back \/ insert_advances \/ insert_swaps
  BY <1>4 DEF shift_back, insert_advances, insert_swaps, Inserting, StaysAt, table
<1> QED
  BY <1>2, <1>3, <1>4 DEF Shuffles, rehash_skips, rehash_moves, rehash_done_reserve, move_places

LEMMA ChangesStay ==
  ASSUME EntriesInv, Changes, pc \notin {"none", "rehash", "move"}, Trusted,
         NEW i \in Idx, NEW k \in Key, pc \notin {"insert", "shift"} => slots[i].k = k
  PROVE  StaysAt(i, k)
<1>1. TypeInv /\ len \in Nat
  BY DEF EntriesInv, IndInv, TypeInv, TypeOK
<1>2. ~clear /\ ~drop
  BY OccupiedMap DEF clear, MayCall, drop, Trusted
<1>3. CASE remove_found \/ put_fits
  BY <1>3 DEF remove_found, put_fits, StartInsert, StaysAt, table
<1>4. CASE put_overwrites
  BY <1>1, <1>4, OverwriteFacts, ValueKeepsKeys DEF StaysAt
<1>5. ASSUME NEW v \in Val, iter_calls(v) PROVE StaysAt(i, k)
  BY <1>1, <1>5, ValueKeepsKeys DEF iter_calls, StaysAt
<1> QED
  BY <1>2, <1>3, <1>4, <1>5 DEF Changes, rehash_done_put

\* get_found: the pointer is to the entry of the key.
LEMMA GetPoints ==
  ASSUME EntriesInv, PtrGet
  PROVE  PtrOK'
<1>1. TypeInv
  BY DEF EntriesInv, IndInv
<1>2. pc = "find" /\ Hits /\ pc' = "idle" /\ UNCHANGED <<slots, cap>>
  BY DEF PtrGet, get_found, Leave, table
<1>3. idx \in Idx /\ slots[idx].k = call.k /\ call.k \in Key
  BY <1>1, <1>2 DEF Hits, TypeInv, TypeOK, CallOK, PtrGet, get_found
<1> QED
  BY <1>2, <1>3 DEF PtrGet, PtrOK, Idx

LEMMA OtherPoints ==
  ASSUME Rule = "sizes", PtrInv, PtrOther
  PROVE  PtrOK'
<1> SUFFICES ASSUME ptr' # NoPtr PROVE PtrOK'
  BY DEF PtrOK
<1>1. Next /\ TypeInv /\ EntriesInv /\ TableFits
  BY DEF PtrOther, PtrInv, EntriesInv, IndInv, Next
<1>2. ptr # NoPtr /\ Trusted /\ ptr' = [ptr EXCEPT !.freed = @ \/ Frees]
  BY DEF PtrOther, Trusts, Trusted
<1>3. /\ ptr \in [at : Idx, k : Key, freed : {FALSE}]
      /\ pc \notin {"none", "rehash", "move"}
      /\ pc \notin {"insert", "shift"} => slots[ptr.at].k = ptr.k
  BY <1>2 DEF PtrInv, PtrOK
<1>4. StaysAt(ptr.at, ptr.k)
  BY <1>1, <1>2, <1>3, NextCases, LooksStay, ShufflesStay, ChangesStay
<1>5. ptr' = ptr
  <2>1. ~Frees
    BY <1>3 DEF Frees
  <2> QED
    BY <2>1, <1>2, <1>3
<1> QED
  BY <1>3, <1>4, <1>5 DEF PtrOK, StaysAt, Idx

\* Writing through the pointer is what put does to a key it finds.
LEMMA PokeKeeps ==
  ASSUME PtrInv, NEW v \in Val, poke(v)
  PROVE  EntriesInv' /\ PtrOK'
<1>1. TypeInv /\ TableOK /\ KeysUnique /\ CountOK
  BY DEF PtrInv, EntriesInv, IndInv
<1>2. PICK i \in Idx : i = ptr.at
  BY DEF poke
<1>3. /\ pc = "idle" /\ slots' = [slots EXCEPT ![i].v = v] /\ slots[i].k \in Key
      /\ UNCHANGED <<cap, len, hash, pc, call, idx, dist, tmp, table_cap, old, ri, ret>>
      /\ UNCHANGED <<iter, visited, promised, ptr>>
  BY <1>2 DEF poke, locals, ghosts, PtrInv, PtrOK
<1>4. occ(i)
  BY <1>1, <1>2, <1>3, KeysAssumption DEF occ, TypeInv, TypeOK, Slot, Entry, NoEntry
<1>5. slots' \in [Idx -> Slot]
  BY <1>1, <1>3, <1>4, TypeFacts DEF TypeInv, TypeOK, Slot, Entry
<1>6. TypeInv'
  <2>1. TypeOK' /\ cap' % 4 = 0 /\ LoadFactor'
    BY <1>1, <1>3, <1>5, StayType DEF TypeInv, TypeOK, Inserting
  <2>2. CallOK' /\ SizesOK'
    BY <1>1, <1>3 DEF TypeInv, CallOK, SizesOK, Loops
  <2> QED
    BY <2>1, <2>2 DEF TypeInv
<1>7. TableOK'
  BY <1>1, <1>2, <1>3, <1>5, WriteValueKeeps
<1>8. KeysUnique' /\ CountOK'
  BY <1>1, <1>2, <1>3, <1>4, WriteValuePlaces DEF Calm
<1>9. KeyAbsent'
  BY <1>3, NotAbsent
<1>10. PtrOK'
  BY <1>1, <1>3, ValueKeepsKeys DEF PtrInv, PtrOK, Idx
<1> QED
  BY <1>6, <1>7, <1>8, <1>9, <1>10 DEF EntriesInv, IndInv

LEMMA NextPtrInv ==
  ASSUME Rule = "sizes", PtrInv, [PtrNext]_ptrVars
  PROVE  PtrInv'
<1>1. CASE PtrGet
  <2>1. [Next]_vars
    BY <1>1 DEF PtrGet, Next, Step
  <2> QED
    BY <1>1, <2>1, NextEntriesInv, GetPoints DEF PtrInv
<1>2. CASE PtrOther
  BY <1>2, NextEntriesInv, OtherPoints DEF PtrInv, PtrOther
<1>3. ASSUME NEW v \in Val, poke(v) PROVE PtrInv'
  BY <1>3, PokeKeeps DEF PtrInv
<1>4. CASE UNCHANGED ptrVars
  <2>1. UNCHANGED <<vars, ptr>>
    BY <1>4 DEF ptrVars
  <2>2. EntriesInv'
    BY <2>1, NextEntriesInv DEF PtrInv
  <2> QED
    BY <2>1, <2>2 DEF PtrInv, PtrOK, vars, Idx
<1> QED
  BY <1>1, <1>2, <1>3, <1>4 DEF PtrNext

LEMMA PtrInvHolds ==
  ASSUME Rule = "sizes"
  PROVE  PtrSpec => []PtrInv
<1>1. PtrInit => PtrInv
  BY InitEntriesInv DEF PtrInit, PtrInv, PtrOK
<1>2. PtrInv /\ [PtrNext]_ptrVars => PtrInv'
  BY NextPtrInv
<1> QED
  BY <1>1, <1>2, PTL DEF PtrSpec

\* The pointer get returned stays good through every call that leaves len and
\* cap alone, also while the client writes through it.
THEOREM PointerGoodHolds ==
  ASSUME Rule = "sizes"
  PROVE  PtrSpec => []PointerGood
<1>1. PtrInv => PointerGood
  BY DEF PtrInv, PtrOK, PointerGood, PointerLives
<1> QED
  BY <1>1, PtrInvHolds, PTL

\* A write through the pointer changes the value of the key it was obtained for
\* and nothing else.
LEMMA PokeRefines ==
  ASSUME PtrInv, NEW v \in Val, poke(v)
  PROVE  MapSpec!Next
<1>1. TypeInv /\ KeysUnique /\ CountOK
  BY DEF PtrInv, EntriesInv, IndInv
<1>2. PICK i \in Idx : i = ptr.at
  BY DEF poke
<1>3. /\ pc = "idle" /\ pc' = "idle" /\ UNCHANGED <<cap, len, old, call, ret>>
      /\ slots' = [slots EXCEPT ![i].v = v] /\ slots[i].k \in Key
  BY <1>2 DEF poke, locals, PtrInv, PtrOK
<1>4. occ(i)
  BY <1>1, <1>2, <1>3, KeysAssumption DEF occ, TypeInv, TypeOK, Slot, Entry, NoEntry
<1>5. /\ slots[i] \in Entries
      /\ Entries' = {e \in Entries : e.k # slots[i].k} \union {[slots[i] EXCEPT !.v = v]}
  BY <1>1, <1>3, <1>4, WriteValuePlaces DEF Calm
<1>6. /\ contents' = MapSpec!Without(contents, slots[i].k) \union {<<slots[i].k, v>>}
      /\ MapSpec!Held(contents, slots[i].k)
  BY <1>1, <1>5, Replaced
<1>7. call = NoCall /\ outcome' = outcome
  BY <1>1, <1>3 DEF TypeInv, CallOK, Loops, outcome
<1>8. MapSpec!Write(slots[i].k, v)
  BY <1>3, <1>6, <1>7 DEF MapSpec!Write, MapSpec!NoCall, NoCall
<1> QED
  BY <1>3, <1>8 DEF MapSpec!Next

\* With a client that writes through its pointer the map still implements
\* NxMapSpec: such a write is one to the dictionary.
THEOREM PtrImplementsMapHolds ==
  ASSUME Rule = "sizes", "pending" \notin Val \union {NoVal}
  PROVE  PtrSpec => ImplementsMap
<1>1. PtrInit => MapSpec!Init
  BY InitRefines DEF PtrInit
<1>2. PtrInv /\ PtrInv' /\ [PtrNext]_ptrVars => [MapSpec!Next]_(MapSpec!mapVars)
  <2> SUFFICES ASSUME PtrInv, PtrInv', [PtrNext]_ptrVars
               PROVE  [MapSpec!Next]_(MapSpec!mapVars)
    OBVIOUS
  <2>1. EntriesInv /\ EntriesInv'
    BY DEF PtrInv
  <2>2. CASE PtrGet \/ PtrOther \/ UNCHANGED ptrVars
    <3>1. [Next]_vars
      BY <2>2 DEF PtrGet, PtrOther, Next, Step, ptrVars
    <3> QED
      BY <2>1, <3>1, NextRefines
  <2>3. ASSUME NEW v \in Val, poke(v) PROVE MapSpec!Next
    BY <2>3, PokeRefines
  <2> QED
    BY <2>2, <2>3 DEF PtrNext
<1> QED
  BY <1>1, <1>2, PtrInvHolds, PTL DEF PtrSpec, ImplementsMap, MapSpec!Spec
=============================================================================
