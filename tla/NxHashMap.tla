----------------------------- MODULE NxHashMap -----------------------------
(***************************************************************************)
(* src/ds/hash_map.c: the type-erased Robin Hood hash map.                 *)
(*                                                                         *)
(* One action per iteration of each loop of the code, so that the loops    *)
(* themselves (probe, displace, rehash, shift back, grow) are what is      *)
(* checked.  A slot is a record: its stored hash (EMPTY_HASH when free),   *)
(* its key and its value.  The bytes a freed slot still holds are not      *)
(* kept: no code reads them.                                               *)
(*                                                                         *)
(* A definition named X_..., right before X and used by nothing, is X with *)
(* a bug someone could write: it shows that a property can fail.           *)
(***************************************************************************)
EXTENDS Integers, FiniteSets

CONSTANTS
  Key, Val,      \* what the client stores; eq is equality on Key
  NoKey, NoVal,  \* the null pointer for a key, for a value
  HashFns,       \* the hash callbacks a client may pass, each in [Key -> Nat]
  DEFAULT_CAP,   \* slots of the first table; 8 in the code
  USIZE,         \* 2^w, the number of values of nx_usize
  TSZ_KEY,       \* sizeof the key type
  TSZ_VAL,       \* sizeof the value type
  ALLOC_MAX,     \* no allocation of more bytes succeeds (PTRDIFF_MAX or less)
  ReserveArgs,   \* arguments the client passes to reserve
  CallbackOps    \* operations the client calls from inside for_each's callback

ASSUME KeysAssumption == NoKey \notin Key /\ NoVal \notin Val
ASSUME HashAssumption == \A f \in HashFns : f \in [Key -> Nat]
ASSUME CapAssumption  == DEFAULT_CAP \in Nat /\ DEFAULT_CAP >= 4 /\ DEFAULT_CAP % 4 = 0
ASSUME SizeAssumption ==
  /\ USIZE \in Nat /\ TSZ_KEY \in Nat \ {0} /\ TSZ_VAL \in Nat \ {0}
  /\ 64 + TSZ_KEY + TSZ_VAL < USIZE
  /\ ALLOC_MAX \in Nat /\ 2 * ALLOC_MAX < USIZE
ASSUME ReserveAssumption == ReserveArgs \subseteq 0 .. USIZE - 1

EMPTY_HASH == 0
SLOT_ALIGN == 16      \* alignof(max_align_t)
HASH_SIZE  == 8       \* sizeof(nx_Hash)
LOAD_NUM   == 3
LOAD_DEN   == 4

\* nx_align_up for a power of two that does not wrap (SizeAssumption).
align_up(n, a) == ((n + a - 1) \div a) * a

key_off   == HASH_SIZE
val_off   == align_up(key_off + TSZ_KEY, SLOT_ALIGN)
slot_size == align_up(val_off + TSZ_VAL, SLOT_ALIGN)

fix_hash(h) == IF h = EMPTY_HASH THEN 1 ELSE h

-----------------------------------------------------------------------------
VARIABLES
  slots, cap, len, hash,   \* the fields of nx_HashMap
  pc,                      \* the loop the code is in; "idle" between calls
  call,                    \* the arguments of the call being served
  idx, dist,               \* the probing locals of find_slot, insert_no_grow
                           \* and remove (where idx is cur)
  tmp,                     \* the entry insert_no_grow carries
  table_cap,               \* the local of reserve
  old, ri,                 \* old_slots and the index of the rehash loop
  ret,                     \* what the last call returned
  iter,                    \* the index of for_each's loop, -1 outside it
  visited,                 \* ghost: the keys for_each has passed to fn
  promised                 \* ghost: the largest reserve that returned OK

table  == <<slots, cap, len>>
locals == <<idx, dist, tmp, table_cap, old, ri>>
ghosts == <<iter, visited, promised>>
vars   == <<slots, cap, len, hash, pc, call, idx, dist, tmp, table_cap, old,
            ri, ret, iter, visited, promised>>

NoEntry == [h |-> EMPTY_HASH, k |-> NoKey, v |-> NoVal]
NoCall  == [op |-> "none", k |-> NoKey, v |-> NoVal, n |-> 0]
NoTable == [i \in {} |-> NoEntry]

Idx      == 0 .. cap - 1
OldIdx   == DOMAIN old
occ(p)   == slots[p].h # EMPTY_HASH

\* h & (c - 1), for a capacity that is a power of two (CapIsPowerOfTwo).
ideal(c, h) == h % c
\* The steps from slot i to slot j along the probe sequence of a table of c
\* slots: (j - i) & (c - 1).
steps(c, i, j)      == IF j >= i THEN j - i ELSE j + c - i
probe_dist(c, h, p) == steps(c, ideal(c, h), p)
succ_unwrapped(c, i) == i + 1
succ(c, i)          == IF i + 1 = c THEN 0 ELSE i + 1

needs_grow_late == cap = 0 \/ (len * LOAD_DEN) % USIZE > (cap * LOAD_NUM) % USIZE
needs_grow == \/ cap = 0
              \/ (len * LOAD_DEN) % USIZE >= (cap * LOAD_NUM) % USIZE

Init ==
  /\ slots = NoTable /\ cap = 0 /\ len = 0
  /\ hash \in HashFns
  /\ pc = "none" /\ call = NoCall /\ ret = "ok"
  /\ idx = 0 /\ dist = 0 /\ tmp = NoEntry /\ table_cap = 0
  /\ old = NoTable /\ ri = 0
  /\ iter = -1 /\ visited = {} /\ promised = 0

-----------------------------------------------------------------------------
(* Lifetime.  The handle comes from malloc, the table from the allocator.  *)

new_p(f) ==
  /\ pc = "none" /\ pc' = "idle" /\ hash' = f /\ ret' = "ok"
  /\ UNCHANGED <<table, call, locals, ghosts>>

new_p_fails ==
  /\ pc = "none" /\ ret' = "oom"
  /\ UNCHANGED <<table, hash, pc, call, locals, ghosts>>

drop ==
  /\ pc = "idle" /\ iter = -1
  /\ pc' = "none" /\ slots' = NoTable /\ cap' = 0 /\ len' = 0
  /\ promised' = 0 /\ ret' = "ok"
  /\ UNCHANGED <<hash, call, locals, iter, visited>>

-----------------------------------------------------------------------------
(* Entering and leaving a call.                                            *)

MayCall(op) == pc = "idle" /\ (iter = -1 \/ op \in CallbackOps)

Request(op, k, v, n) == [op |-> op, k |-> k, v |-> v, n |-> n]

\* The call starts find_slot: idx = h & mask, dist = 0.
StartFind(r) ==
  /\ call' = r /\ pc' = "find"
  /\ idx' = ideal(cap, fix_hash(hash[r.k])) /\ dist' = 0
  /\ UNCHANGED <<table, hash, tmp, table_cap, old, ri, ret, ghosts>>

\* The call returns r; its locals are gone.
Leave(r) ==
  /\ pc' = "idle" /\ ret' = r /\ call' = NoCall
  /\ idx' = 0 /\ dist' = 0 /\ tmp' = NoEntry /\ table_cap' = 0
  /\ old' = NoTable /\ ri' = 0

\* insert_no_grow starts with the entry e, in the loop named by l.
StartInsert(e, l) ==
  /\ pc' = l /\ tmp' = e /\ idx' = ideal(cap, e.h)

get(k) ==
  /\ MayCall("get")
  /\ \/ /\ len = 0 /\ ret' = NoVal
        /\ UNCHANGED <<table, hash, pc, call, locals, ghosts>>
     \/ len > 0 /\ StartFind(Request("get", k, NoVal, 0))

put(k, v) ==
  /\ MayCall("put")
  /\ \/ /\ len = 0 /\ pc' = "grow" /\ call' = Request("put", k, v, 0)
        /\ UNCHANGED <<table, hash, locals, ret, ghosts>>
     \/ len > 0 /\ StartFind(Request("put", k, v, 0))

remove(k) ==
  /\ MayCall("remove")
  /\ \/ /\ len = 0 /\ ret' = "false"
        /\ UNCHANGED <<table, hash, pc, call, locals, ghosts>>
     \/ len > 0 /\ StartFind(Request("remove", k, NoVal, 0))

clear_keeps_len ==
  /\ MayCall("clear") /\ slots' = [p \in Idx |-> NoEntry] /\ ret' = "ok"
  /\ UNCHANGED <<cap, len, hash, pc, call, locals, ghosts>>

clear ==
  /\ MayCall("clear")
  /\ slots' = [p \in Idx |-> NoEntry] /\ len' = 0 /\ ret' = "ok"
  /\ UNCHANGED <<cap, hash, pc, call, locals, ghosts>>

reserve(n) ==
  /\ MayCall("reserve")
  /\ pc' = "size" /\ call' = Request("reserve", NoKey, NoVal, n)
  /\ table_cap' = IF cap = 0 THEN DEFAULT_CAP ELSE cap
  /\ UNCHANGED <<table, hash, idx, dist, tmp, old, ri, ret, ghosts>>

-----------------------------------------------------------------------------
(* find_slot, and what its caller does with the answer.                    *)

Misses_early == ~occ(idx) \/ dist >= probe_dist(cap, slots[idx].h, idx)
Misses == ~occ(idx) \/ dist > probe_dist(cap, slots[idx].h, idx)
Hits_raw == ~Misses /\ slots[idx].h = hash[call.k] /\ slots[idx].k = call.k
Hits   == /\ ~Misses
          /\ slots[idx].h = fix_hash(hash[call.k]) /\ slots[idx].k = call.k

find_next ==
  /\ pc = "find" /\ ~Misses /\ ~Hits
  /\ idx' = succ(cap, idx) /\ dist' = dist + 1
  /\ UNCHANGED <<table, hash, pc, call, tmp, table_cap, old, ri, ret, ghosts>>

get_found ==
  /\ pc = "find" /\ call.op = "get" /\ Hits
  /\ Leave(slots[idx].v) /\ UNCHANGED <<table, hash, ghosts>>

get_absent ==
  /\ pc = "find" /\ call.op = "get" /\ Misses
  /\ Leave(NoVal) /\ UNCHANGED <<table, hash, ghosts>>

put_overwrites ==
  /\ pc = "find" /\ call.op = "put" /\ Hits
  /\ slots' = [slots EXCEPT ![idx].v = call.v]
  /\ Leave("ok") /\ UNCHANGED <<cap, len, hash, ghosts>>

put_absent ==
  /\ pc = "find" /\ call.op = "put" /\ Misses
  /\ pc' = "grow" /\ idx' = 0 /\ dist' = 0
  /\ UNCHANGED <<table, hash, call, tmp, table_cap, old, ri, ret, ghosts>>

remove_absent ==
  /\ pc = "find" /\ call.op = "remove" /\ Misses
  /\ Leave("false") /\ UNCHANGED <<table, hash, ghosts>>

remove_found ==
  /\ pc = "find" /\ call.op = "remove" /\ Hits
  /\ pc' = "shift" /\ dist' = 0
  /\ UNCHANGED <<table, hash, call, idx, tmp, table_cap, old, ri, ret, ghosts>>

\* One iteration of the backward-shift loop; idx is cur.
ShiftStops_late == ~occ(succ(cap, idx))
ShiftStops == ~occ(succ(cap, idx)) \/ probe_dist(cap, slots[succ(cap, idx)].h, succ(cap, idx)) = 0

shift_back ==
  /\ pc = "shift" /\ ~ShiftStops
  /\ slots' = [slots EXCEPT ![idx] = slots[succ(cap, idx)]] /\ idx' = succ(cap, idx)
  /\ UNCHANGED <<cap, len, hash, pc, call, dist, tmp, table_cap, old, ri, ret, ghosts>>

shift_ends ==
  /\ pc = "shift" /\ ShiftStops
  /\ slots' = [slots EXCEPT ![idx] = NoEntry] /\ len' = len - 1
  /\ Leave("true") /\ UNCHANGED <<cap, hash, ghosts>>

-----------------------------------------------------------------------------
(* Growing: the put that needs room, and reserve.                          *)

CallEntry == [h |-> fix_hash(hash[call.k]), k |-> call.k, v |-> call.v]

\* alloc_slots(c): the byte count wraps; the allocator may always refuse.
Bytes(c)    == (c * slot_size) % USIZE
CanAlloc(c) == Bytes(c) <= ALLOC_MAX
NewTable(c) ==
  /\ CanAlloc(c)
  /\ old' = slots /\ ri' = 0
  /\ slots' = [p \in 0 .. c - 1 |-> NoEntry] /\ cap' = c
  /\ pc' = "rehash"
  /\ UNCHANGED <<len, hash, call, idx, dist, tmp, table_cap, ret, ghosts>>

put_fits ==
  /\ pc = "grow" /\ ~needs_grow
  /\ StartInsert(CallEntry, "insert")
  /\ UNCHANGED <<table, hash, call, dist, table_cap, old, ri, ret, ghosts>>

new_cap == IF cap = 0 THEN DEFAULT_CAP ELSE (cap * 2) % USIZE

grow_and_rehash ==
  /\ pc = "grow" /\ needs_grow /\ NewTable(new_cap)

grow_fails_unrestored ==
  /\ pc = "grow" /\ needs_grow
  /\ slots' = NoTable /\ cap' = 0
  /\ Leave("oom") /\ UNCHANGED <<len, hash, ghosts>>

grow_fails ==
  /\ pc = "grow" /\ needs_grow
  /\ Leave("oom") /\ UNCHANGED <<table, hash, ghosts>>

TooSmall_unloaded == call.n > table_cap
TooSmall == (call.n * LOAD_DEN) % USIZE >= (table_cap * LOAD_NUM) % USIZE

reserve_doubles_wrapping ==
  /\ pc = "size" /\ TooSmall
  /\ table_cap' = (table_cap * 2) % USIZE
  /\ UNCHANGED <<table, hash, pc, call, idx, dist, tmp, old, ri, ret, ghosts>>

reserve_doubles ==
  /\ pc = "size" /\ TooSmall /\ table_cap * 2 < USIZE
  /\ table_cap' = table_cap * 2
  /\ UNCHANGED <<table, hash, pc, call, idx, dist, tmp, old, ri, ret, ghosts>>

reserve_overflows ==
  /\ pc = "size" /\ TooSmall /\ table_cap * 2 >= USIZE
  /\ Leave("oom") /\ UNCHANGED <<table, hash, ghosts>>

\* reserve returns OK: the client counts on room for that many entries.
Promise(n) == promised' = IF n > promised THEN n ELSE promised

reserve_enough ==
  /\ pc = "size" /\ ~TooSmall /\ table_cap <= cap
  /\ Leave("ok") /\ Promise(call.n) /\ UNCHANGED <<table, hash, iter, visited>>

reserve_allocs_again ==
  /\ pc = "size" /\ ~TooSmall /\ table_cap >= cap /\ NewTable(table_cap)

reserve_allocs ==
  /\ pc = "size" /\ ~TooSmall /\ table_cap > cap /\ NewTable(table_cap)

reserve_fails ==
  /\ pc = "size" /\ ~TooSmall /\ table_cap > cap
  /\ Leave("oom") /\ UNCHANGED <<table, hash, ghosts>>

\* The loop "re-insert old entries".
rehash_skips ==
  /\ pc = "rehash" /\ ri \in OldIdx /\ old[ri].h = EMPTY_HASH
  /\ ri' = ri + 1
  /\ UNCHANGED <<table, hash, pc, call, idx, dist, tmp, table_cap, old, ret, ghosts>>

rehash_moves ==
  /\ pc = "rehash" /\ ri \in OldIdx /\ old[ri].h # EMPTY_HASH
  /\ StartInsert(old[ri], "move") /\ ri' = ri + 1
  /\ UNCHANGED <<table, hash, call, dist, table_cap, old, ret, ghosts>>

\* The old table is freed; the caller goes on.
rehash_done_put ==
  /\ pc = "rehash" /\ ri \notin OldIdx /\ call.op = "put"
  /\ StartInsert(CallEntry, "insert") /\ old' = NoTable /\ ri' = 0
  /\ UNCHANGED <<table, hash, call, dist, table_cap, ret, ghosts>>

rehash_done_reserve ==
  /\ pc = "rehash" /\ ri \notin OldIdx /\ call.op = "reserve"
  /\ Leave("ok") /\ Promise(call.n) /\ UNCHANGED <<table, hash, iter, visited>>

-----------------------------------------------------------------------------
(* insert_no_grow: "insert" places the entry of a put, "move" one of the   *)
(* old table.                                                              *)

Inserting == pc \in {"insert", "move"}
Richer    == probe_dist(cap, tmp.h, idx) > probe_dist(cap, slots[idx].h, idx)

insert_advances ==
  /\ Inserting /\ occ(idx) /\ ~Richer
  /\ idx' = succ(cap, idx)
  /\ UNCHANGED <<table, hash, pc, call, dist, tmp, table_cap, old, ri, ret, ghosts>>

insert_swaps ==
  /\ Inserting /\ occ(idx) /\ Richer
  /\ slots' = [slots EXCEPT ![idx] = tmp] /\ tmp' = slots[idx] /\ idx' = succ(cap, idx)
  /\ UNCHANGED <<cap, len, hash, pc, call, dist, table_cap, old, ri, ret, ghosts>>

move_places ==
  /\ pc = "move" /\ ~occ(idx)
  /\ slots' = [slots EXCEPT ![idx] = tmp] /\ pc' = "rehash" /\ tmp' = NoEntry /\ idx' = 0
  /\ UNCHANGED <<cap, len, hash, call, dist, table_cap, old, ri, ret, ghosts>>

put_places ==
  /\ pc = "insert" /\ ~occ(idx)
  /\ slots' = [slots EXCEPT ![idx] = tmp] /\ len' = len + 1
  /\ Leave("ok") /\ UNCHANGED <<cap, hash, ghosts>>

-----------------------------------------------------------------------------
(* for_each.  Inside the callback pc is "idle" and iter >= 0.              *)

for_each_from_one ==
  /\ pc = "idle" /\ iter = -1
  /\ pc' = "iter" /\ iter' = 1 /\ visited' = {}
  /\ UNCHANGED <<table, hash, call, locals, ret, promised>>

for_each ==
  /\ pc = "idle" /\ iter = -1
  /\ pc' = "iter" /\ iter' = 0 /\ visited' = {}
  /\ UNCHANGED <<table, hash, call, locals, ret, promised>>

iter_skips ==
  /\ pc = "iter" /\ iter < cap /\ ~occ(iter)
  /\ iter' = iter + 1
  /\ UNCHANGED <<table, hash, pc, call, locals, ret, visited, promised>>

\* fn is called; it may write *val (v), and goes on to make calls of its own.
iter_calls(v) ==
  /\ pc = "iter" /\ iter < cap /\ occ(iter)
  /\ pc' = "idle" /\ visited' = visited \union {slots[iter].k}
  /\ slots' = [slots EXCEPT ![iter].v = v]
  /\ UNCHANGED <<cap, len, hash, call, locals, ret, iter, promised>>

callback_returns ==
  /\ pc = "idle" /\ iter >= 0
  /\ pc' = "iter" /\ iter' = iter + 1
  /\ UNCHANGED <<table, hash, call, locals, ret, visited, promised>>

iter_ends ==
  /\ pc = "iter" /\ iter >= cap
  /\ pc' = "idle" /\ iter' = -1 /\ visited' = {}
  /\ UNCHANGED <<table, hash, call, locals, ret, promised>>

-----------------------------------------------------------------------------
\* The table lies within the buffer alloc_slots obtained for it.
TableFits == cap * slot_size < USIZE

\* What the client does.
Client ==
  \/ \E f \in HashFns : new_p(f)
  \/ new_p_fails \/ drop
  \/ \E k \in Key : get(k) \/ remove(k)
  \/ \E k \in Key, v \in Val : put(k, v)
  \/ \E n \in ReserveArgs : reserve(n)
  \/ clear \/ for_each \/ callback_returns

\* What the code does once it was called.
Step ==
  \/ find_next \/ get_found \/ get_absent \/ put_overwrites \/ put_absent
  \/ remove_absent \/ remove_found \/ shift_back \/ shift_ends
  \/ put_fits \/ grow_and_rehash \/ grow_fails
  \/ reserve_doubles \/ reserve_overflows \/ reserve_enough
  \/ reserve_allocs \/ reserve_fails
  \/ rehash_skips \/ rehash_moves \/ rehash_done_put \/ rehash_done_reserve
  \/ insert_advances \/ insert_swaps \/ move_places \/ put_places
  \/ iter_skips \/ iter_ends \/ \E v \in Val : iter_calls(v)

\* A table larger than its buffer makes what follows undefined: no step is
\* modelled after it.
Next == TableFits /\ (Client \/ Step)

Spec == Init /\ [][Next]_vars

\* The code is sequential: a call that was made runs until it returns.
FairSpec == Spec /\ WF_vars(TableFits /\ Step)

-----------------------------------------------------------------------------
(* Correctness.                                                            *)

Loops   == {"find", "size", "grow", "rehash", "move", "insert", "shift"}
Entry   == [h : Nat \ {EMPTY_HASH}, k : Key, v : Val]
Slot    == Entry \union {NoEntry}
CallRecord == [op : {"none", "get", "put", "remove", "reserve"},
               k : Key \union {NoKey}, v : Val \union {NoVal}, n : 0 .. USIZE - 1]
Results == Val \union {NoVal, "ok", "oom", "true", "false"}

\* Every field and local has its type; the probing index is inside the table
\* wherever the code dereferences it.
TypeOK ==
  /\ cap \in Nat /\ len \in Nat
  /\ slots \in [Idx -> Slot]
  /\ hash \in HashFns
  /\ pc \in Loops \union {"none", "idle", "iter"}
  /\ call \in CallRecord
  /\ idx \in Nat /\ dist \in Nat /\ table_cap \in Nat
  /\ pc \in {"find", "shift", "move", "insert"} => idx \in Idx
  /\ tmp \in Slot /\ (Inserting => tmp \in Entry)
  /\ ri \in Nat /\ \E c \in 0 .. cap : old \in [0 .. c - 1 -> Slot]
  /\ ret \in Results
  /\ iter \in Int /\ iter >= -1 /\ visited \subseteq Key /\ promised \in Nat

\* A search for the hash h passes slot j of the table s: it holds an entry
\* that is at least as far from home as the search has come.
Passed(s, c, h, j) ==
  s[j].h # EMPTY_HASH /\ probe_dist(c, s[j].h, j) >= steps(c, ideal(c, h), j)

\* It passes the first n slots of its probe sequence.
PassedUpTo(s, c, h, n) ==
  \A j \in 0 .. c - 1 : steps(c, ideal(c, h), j) < n => Passed(s, c, h, j)

\* Every entry lies where a search for its hash gets to.
Ordered(s, c) ==
  \A p \in 0 .. c - 1 :
    s[p].h # EMPTY_HASH => PassedUpTo(s, c, s[p].h, probe_dist(c, s[p].h, p))

\* The Robin Hood order.  An entry sits p steps from its ideal slot only
\* because each slot it passed holds an entry at least as far from home as it
\* was when it passed; this is what lets find_slot stop early.
RobinHood == Ordered(slots, cap)

\* Where the entries of the map are at any instant: in the slots of the table
\* (the one a backward shift is about to overwrite holds a copy or the removed
\* entry), in the slots of the old table not yet moved, and in the hand of
\* insert_no_grow.
Stored  == {p \in Idx : occ(p) /\ ~(pc = "shift" /\ p = idx)}
Unmoved == {q \in OldIdx : q >= ri /\ old[q].h # EMPTY_HASH}
Entries == {slots[p] : p \in Stored} \union {old[q] : q \in Unmoved}
             \union {e \in {tmp} : Inserting}
HeldKeys == {e.k : e \in Entries}

\* When find_slot gives up (an empty slot, or a slot whose entry is closer to
\* home than the search has come) the key is in no slot of the table.
MissIsAbsence == pc = "find" /\ Misses => call.k \notin HeldKeys

\* No key is in two places: in two slots, in a slot and in what is left of the
\* old table, or in a slot and in the entry being carried.
KeysUnique ==
  /\ \A p, q \in Stored : slots[p].k = slots[q].k => p = q
  /\ \A q, r \in Unmoved : old[q].k = old[r].k => q = r
  /\ \A p \in Stored, q \in Unmoved : slots[p].k # old[q].k
  /\ Inserting => /\ \A p \in Stored : slots[p].k # tmp.k
                  /\ \A q \in Unmoved : old[q].k # tmp.k

\* len is the number of entries whenever the client can see it.
LenCounts == pc = "idle" => len = Cardinality({p \in Idx : occ(p)})

\* "max load factor 0.75".
LoadFactor == len * LOAD_DEN <= cap * LOAD_NUM

\* The table never becomes full, not even while an entry is being placed in it.
EmptySlotRemains == cap > 0 => \E p \in Idx : ~occ(p)

\* Masking with c - 1 is the remainder only for powers of two: for the numbers
\* that no odd number but 1 divides.
PowerOfTwo(c)   == \A d \in 2 .. c : c % d = 0 => d % 2 = 0
CapIsPowerOfTwo == cap = 0 \/ PowerOfTwo(cap)

\* A probe always ends: it comes to every slot, and one of them is empty.
ProbesEnd == EmptySlotRemains /\ CapIsPowerOfTwo

\* "pre-allocate for at least cap entries": once reserve(n) returned OK, no
\* put needs the allocator until n entries are stored.
ReserveDelivers == pc = "grow" /\ len < promised => ~needs_grow

\* "calls fn for each entry": for_each has called fn for exactly the entries
\* in the slots it has passed, and for none it has still to reach.
ForEachOnce ==
  pc = "iter" => /\ \A p \in Idx : p < iter /\ occ(p) => slots[p].k \in visited
                 /\ \A p \in Idx : p >= iter /\ occ(p) => slots[p].k \notin visited

\* Every call returns.
CallsReturn == (pc \in Loops) ~> (pc \notin Loops)

\* The map implements NxMapSpec.
contents == {<<e.k, e.v>> : e \in Entries}
outcome  == IF call.op = "none" THEN ret
            ELSE IF pc = "insert" THEN "ok"
            ELSE IF pc = "shift" THEN "true"
            ELSE "pending"
MapSpec == INSTANCE NxMapSpec
             WITH alive <- (pc # "none"), dict <- contents, req <- call, out <- outcome
ImplementsMap == MapSpec!Spec

-----------------------------------------------------------------------------
(* The inductive invariant behind TypeOK, LoadFactor, RobinHood and        *)
(* MissIsAbsence.                                                          *)

\* The loop the code is in belongs to the call it serves.
CallOK ==
  /\ pc \notin Loops => call = NoCall
  /\ pc \notin {"rehash", "move"} => old = NoTable
  /\ pc = "iter" => iter >= 0
  /\ pc = "find" => call.op \in {"get", "put", "remove"}
  /\ pc \in {"grow", "insert"} => call.op = "put"
  /\ pc = "shift" => call.op = "remove"
  /\ pc = "size" => call.op = "reserve"
  /\ pc \in {"rehash", "move"} => call.op \in {"put", "reserve"}
  /\ call.op \in {"get", "put", "remove"} => call.k \in Key
  /\ call.op = "put" => call.v \in Val

\* There is room wherever the code has decided that there is.
SizesOK ==
  /\ cap % 4 = 0
  /\ pc = "none" => cap = 0
  /\ pc \in {"find", "shift"} => len > 0
  /\ pc \in {"rehash", "move", "insert"} => cap > 0
  /\ pc \in {"rehash", "move", "insert"} /\ call.op = "put"
       => len * LOAD_DEN < cap * LOAD_NUM
  /\ pc = "size" => table_cap % 4 = 0

\* An entry carries the hash of its own key.
HashOK(e) == e.h # EMPTY_HASH => e.h = fix_hash(hash[e.k])

\* How far the entry being placed, or the key being searched, has come: the
\* slots behind it hold entries at least as far from home, or not that key.
CarryOK == Inserting => PassedUpTo(slots, cap, tmp.h, probe_dist(cap, tmp.h, idx))
SearchOK ==
  pc = "find" =>
    LET home == ideal(cap, fix_hash(hash[call.k])) IN
      /\ dist = steps(cap, home, idx) \/ dist = cap
      /\ \A j \in Idx : occ(j) /\ slots[j].k = call.k => steps(cap, home, j) >= dist

TableOK ==
  /\ \A p \in Idx : HashOK(slots[p])
  /\ \A q \in OldIdx : HashOK(old[q])
  /\ Inserting => HashOK(tmp)
  /\ RobinHood
  /\ CarryOK /\ SearchOK

TypeInv == TypeOK /\ CallOK /\ SizesOK /\ LoadFactor
IndInv  == TypeInv /\ TableOK

(* Behind KeysUnique, LenCounts and ImplementsMap. *)

\* From the end of the search to the insertion the key of a put is nowhere.
KeyAbsent ==
  pc = "grow" \/ (pc \in {"rehash", "move"} /\ call.op = "put") => call.k \notin HeldKeys

\* Each entry is counted once; that of a put only when it is placed, that of a
\* remove until the shift ends.
CountOK ==
  len = Cardinality(Stored) + Cardinality(Unmoved) + (IF pc \in {"move", "shift"} THEN 1 ELSE 0)

EntriesInv == IndInv /\ KeysUnique /\ KeyAbsent /\ CountOK

\* Inside the callback: the entries up to this one have been visited.
IterInv == iter >= 0 /\ pc # "iter" => \A p \in Idx : occ(p) => (slots[p].k \in visited <=> p <= iter)

(* Behind CallsReturn: no loop goes on for ever.                           *)

\* The slots a loop at idx passes before it comes to an empty one.
Ahead == {j \in Idx : \A e \in Idx : ~occ(e) => steps(cap, idx, j) < steps(cap, idx, e)}

\* What is left to do of a call: the loops it still has to go through, the
\* iterations of the present one, and those of insert_no_grow inside it.
Left(n, i) == IF i < n THEN n - i ELSE 0
Work ==
  CASE pc = "find"   -> <<5, Left(cap, dist), 0>>
    [] pc = "size"   -> <<4, Left(USIZE, table_cap), 0>>
    [] pc = "grow"   -> <<3, 0, 0>>
    [] pc = "rehash" -> <<2, Left(cap, ri), 0>>
    [] pc = "move"   -> <<2, Left(cap, ri), 1 + Cardinality(Ahead)>>
    [] pc = "insert" -> <<1, Cardinality(Ahead), 0>>
    [] pc = "shift"  -> <<1, Cardinality(Ahead), 0>>
    [] pc = "iter"   -> <<1, Left(cap, iter), 0>>
    [] OTHER         -> <<0, 0, 0>>

\* The lexicographic order of triples.
Smaller(a, b) ==
  \/ a[1] < b[1]
  \/ a[1] = b[1] /\ a[2] < b[2]
  \/ a[1] = b[1] /\ a[2] = b[2] /\ a[3] < b[3]

\* The backward shift starts at an entry, the doubling of reserve above 0.
LoopOK == (pc = "shift" => occ(idx)) /\ (pc = "size" => table_cap > 0)

\* Every step of a loop of the code, for_each's included, leaves less to do.
LoopsEnd == [][(pc \in Loops \union {"iter"}) => Smaller(Work', Work)]_vars
=============================================================================
