# A verification development for nx (c_naive_extensions)

`nx` is a C23 library of containers, allocators, strings, algorithms, checked
numerics, file helpers and a random generator. This directory holds TLA+ models
of it, the TLC runs that check them on small instances, and TLAPS proofs that
hold for every instance. Source paths below are relative to the repository
(`src/ds/hash_map.c`, `include/nx/...`).

## 1. Inventory

The library is sequential: no threads, no signals, no asynchronous calls. What
makes it hard is loops over mutable tables and buffers whose invariants hold
only between calls, allocations that may fail at any point, pointers that
outlive what they point to, callbacks that run in the middle of a loop, and
unsigned arithmetic that wraps.

| Component | State it keeps | Operations | What is hard | What makes it correct |
|---|---|---|---|---|
| `ds/hash_map` | slot table, `cap`, `len`, hash and eq callbacks | new, drop, get, put, remove, clear, reserve, for_each | Robin Hood displacement, backward shift, rehash in the middle of a put, failed growth, wrap of size arithmetic, pointers from get, callbacks of for_each | a map: no key lost or doubled, failed calls change nothing, probes end |
| `mem/alloc_pool` | free list through the blocks, `used` | new, drop, reset, alloc, calloc, dealloc, stats | clients overwrite the words the list runs through; three mallocs in the constructor | the list holds exactly the free blocks; blocks keep their contents |
| `mem/alloc` | none (a record of callbacks) | alloc, calloc, realloc, dealloc with fallbacks | order of copy and free in the realloc fallback; overflow in the calloc fallback | contents survive a move; a failed realloc keeps the old block |
| `mem/alloc_arena` | buffer, `offset` | new, drop, reset, alloc, calloc | three additions that can overflow | allocations are disjoint, aligned, inside the buffer |
| `mem/alloc_libc`, `mem/alloc_log` | none; a wrapped allocator | forwarding | lifetimes of the wrapper and the wrapped one | what comes from the log is the wrapped allocator's |
| `ds/vec` | `data`, `len`, `cap`, element size, allocator | push, pop, insert, erase, extend, resize, reserve, shrink, swap, copy and move | failures, sizes passed to dealloc, arguments inside the buffer, growth | a sequence; each buffer has one owner; no uninitialised element below `len` |
| `ds/arr` | `data`, `len`, element size, allocator | the fixed-size subset of vec | assignment between lengths, memory an arena takes back | as vec |
| `ds/span`, `string/str_view` | none (views) | slicing, comparing | bounds, empty views | the slice asked for |
| `string/str` | `data`, `len`, `cap`, terminator | as vec, for bytes | the terminator in every state, appending a view of itself | a C string of `len` bytes at all times |
| `algo` | none | sort, merge, search, partition, rotate, unique, replace, minmax | index arithmetic of in-place loops, arguments inside the range | the reference definition |
| `numeric` | none | checked and saturating arithmetic, bit tricks | edges of each width | equal to unbounded arithmetic, clamped or refused |
| `fs` | an open `FILE` | read whole, write, append | each stdio call may fail; size read before contents; one fread or fwrite is several reads or writes; other processes change the file in between | what is read stood in the file, what is written is there, and no leak |
| `rand` | generator state | next, ranges, shuffle | bias, width of signed ranges | in range, every value equally likely |
| `core/cmp`, `core/hash` | none | comparing and hashing keys of every type | NaN and the two zeros | a total preorder; equal keys have equal hashes |
| `core`, `io` (the rest) | a log level | asserts, printing | - | - |

How they interact: containers and strings call `mem/alloc`'s wrappers, which
call an allocator's callbacks (libc, arena, pool, log); arena and pool obtain
their buffer from malloc and leave `realloc` to the wrapper's fallback; the hash
map calls the client's hash and eq, and for_each the client's callback, which may
call the map again; `algo` works on spans that vec, arr and str hand out.

`PROJECT.json` lists every component with its status and every hazard at the
line where it bites.

## 2. Modules

| Module | What it is |
|---|---|
| `NxMapSpec` | what `hash_map.h` promises: an atomic map; a call takes effect at one instant between its start and its return; only put of a new key and reserve can fail, and then nothing changed |
| `NxHashMap` | `hash_map.c`, one action per loop iteration |
| `NxHashMapPtr` | a client that keeps the pointer get returned and writes through it, under one of two rules for how long to trust it |
| `NxBlocks` | what `alloc_pool.h` and `alloc.h` promise: blocks with one owner, contents that last, refusal only for the documented reasons |
| `NxPool` | `alloc_pool.c` called through `alloc.c` |
| `NxHeap` | the buffers vectors and strings own, and every outcome of `alloc.c`'s wrappers: refused, in place, moved |
| `NxSeqs` | what `vec.h` promises: sequences with room; only a call that needs more room can fail, and then nothing changed |
| `NxVec` | `vec.c` over `NxHeap` |
| `NxTexts` | what `str.h` promises: `NxSeqs` of characters, with the calls that append views of a string |
| `NxStr` | `str.c` over `NxHeap` |
| `NxFiles` | what `fs.h` promises: a string that is read is made of what the file held while the call was under way, each character at its place, and is the file if nobody changed that |
| `NxFs` | `fs.c` over stdio and `NxStr`, one action per stdio call |
| `NxArena` | memory byte by byte: `alloc_arena.c`, `alloc_libc.c`, `alloc_log.c` and the fallbacks of `alloc.c` |
| `NxArrays` | what `arr.h` promises: sequences of fixed length |
| `NxArr` | `arr.c` over `NxArena`, beside a client with a block of its own, and the lives of arena and log |
| `NxWords` | `ckd.c`, `sat.c`, `abs.c`, `sign.c`, `bounds.c`: arithmetic of a width |
| `NxBits` | `bit.c` and the generator of `rand.c`: words as sets of positions |
| `NxKeys` | `cmp.c`, `hash.c`, `str_view.c` |
| `NxAlgo` | `span.c`, `algo/*.c` and the draws of `rand.c` |
| `NxLib` | a client of the four modules above |
| `MCNx...` | instances for TLC |
| `Nx..._proofs` | proofs: `NxHashMap_proofs`, `NxHashMapPtr_proofs`, `NxPool_proofs`, `NxArr_proofs`, `NxVec_proofs`, `NxFs_proofs` (also the strings), `NxAlgo_proofs` (lemmas about the algorithms) and `NxLib_proofs` (what the client of the library sees) |

### The hash map

State: `slots`, `cap`, `len`, `hash` are the fields of `nx_HashMap`; `pc` says
which loop of the code is running and `call` with which arguments; `idx`,
`dist`, `tmp`, `table_cap`, `old`, `ri` are locals of `find_slot`,
`insert_no_grow`, `reserve` and `grow_and_rehash`. `iter` is the index of
`for_each`; while its callback runs, `pc` is `"idle"` and `iter >= 0`, so that the
callback may call the map (`CallbackOps`). `ret`, `visited` and `promised` are
ghosts. Between calls every local has its initial value, which keeps the state
space that of the code.

| Code | Actions |
|---|---|
| `nx_hash_map_new_p`, `nx_hash_map_drop` | `new_p`, `new_p_fails`, `drop` |
| `nx_hash_map_get`, `_get_c`, `_contains` | `get`, then `find_next`* and `get_found` or `get_absent` |
| `nx_hash_map_put` | `put`, `find_next`*, `put_overwrites`; or `put_absent`, then `put_fits` or `grow_and_rehash` / `grow_fails`, and the insertion |
| `nx_hash_map_remove` | `remove`, `find_next`*, `remove_absent`; or `remove_found`, `shift_back`*, `shift_ends` |
| `nx_hash_map_clear` | `clear` |
| `nx_hash_map_reserve` | `reserve`, `reserve_doubles`*, then `reserve_overflows`, `reserve_enough`, `reserve_allocs` or `reserve_fails`, and the rehash |
| rehash loop of `grow_and_rehash` and `reserve` | `rehash_skips`, `rehash_moves`, `rehash_done_put`, `rehash_done_reserve` |
| `insert_no_grow` | `insert_advances`, `insert_swaps`, `move_places` (rehash), `put_places` (put) |
| `nx_hash_map_for_each` | `for_each`, `iter_skips`, `iter_calls`, `callback_returns`, `iter_ends` |

Abstractions: keys and values are model values compared by equality, the hash
callback is any function in `HashFns`, a table is an array of (hash, key, value)
records whose byte sizes are computed as `make_layout` does, and any allocation
may fail. Products that the code computes in `nx_usize` wrap modulo `USIZE`. A
table larger than the buffer obtained for it is undefined behaviour: `TableFits`
guards every step, and nothing is claimed about what happens after it. The
iterations of `nx_hash_map_for_each_c` are those of `for_each` with a callback
that writes back what it read.

### The pool

`block_size`, `block_count`, `free_head`, `used` are the fields; `mem` is the first
word of each block, which is the list link of a free block and whatever the
client last wrote in a block it holds (a client may store words that look like
links: `Word`). The constructor is split at its mallocs (`pool_new`, `new_data`,
`new_al` and their failures), `pool_build_free_list` at its iterations
(`build_links`, `build_ends`). `pool_alloc`, `pool_calloc`, `pool_dealloc` and the
fallback of `nx_al_realloc` (`Moves`) are one step each: they have no loop and
call nothing that could run in between. `realloc` of a null pointer is `pool_alloc`.
The client releases and resizes only blocks it holds, as `alloc_pool.h` asks.

### Vectors

`vec` holds the structs that exist, by the variable of the client that owns each,
with `data`, `len`, `cap` and `al` (element sizes are all the same, as every
function of two vectors asserts); `heap` the buffers that exist, each with the
allocator it came from and its cells. No function of `vec.c` runs a callback of
the client, so that each call is one step, an action with the name of the
function: `new_p` (also `new`, `new_len`, `new_cap`), `from_data` (`from_span`),
`copy_a` (`copy`), `drop`, `move`, `copy_assign`, `move_assign`, `swap`, `set`,
`push`, `pop`, `clear`, `insert`, `erase`, `extend`, `reserve`, `resize`,
`shrink_to_fit`. The static helpers of the file are operators with their names.

`nx_al_alloc` and `nx_al_realloc` are sets of outcomes: realloc may leave the
buffer where it is or move it, cells nobody wrote are `Uninit`, and every call
that allocates may fail instead. Cells beyond `len` keep what was last written
there, so that a `resize` that forgets to clear them is seen. The struct's own
`malloc` fails together with the buffer's: either way the call gives up with
nothing allocated.

Abstractions: sizes are counted in elements, and nothing is claimed once a byte
count wraps ("No overflow checking", `vec.h:29`); the value of `nx_usize` at which
`ensure_cap` stops doubling is a constant. A client passes elements of its own and
never a pointer into a vector; the span given to `from_data` and `extend` is that
of a vector, also of the same one as long as the buffer stays. `from_data` takes
any allocator, where the code takes the default one. The pointer `pop` returns is
not followed. Functions that only read have no action.

### Strings and files

`str` and `heap` are to `str.c` what `vec` and `heap` are to `vec.c`, with one more
cell in each buffer than the capacity says, for the terminator; again each call is
one step. `Reserved` stands for the ways `ensure_cap` and `reserve` end, `Store` for
what a call leaves behind. Characters are `Char` and `Zero`, which `resize` puts
into strings, so that a C string can be shorter than its string. A view is a
buffer, an offset and a length, and `append_str_view` follows it after the string
was resized, as the code does: a view into the string itself is read where the
string has moved to. Literals are the C strings the client passes.

`fs` is the call under way and says at which stdio call it stands: `get_file_size`
(two seeks and a tell), the allocation (`alloc_str`, `alloc_bytes`), `fread`,
`fwrite`, `fclose`; each may fail. stdio works through a buffer, so that one `fread`
is any number of reads of the file and one `fwrite` any number of writes:
`fread_part` delivers some of the bytes that are missing, from the file as it is or,
at first, from what stdio kept since the size was asked; `fread_ends` and `fread_short`
are the two ways `fs.c` goes on. `fwrite_part` takes some bytes and lets some of those
taken reach the file. The rest reaches it at `fclose` (`fclose_after_write`), or a part
of it never does (`fclose_loses`): the code ignores what `fclose` returns. Between any two
of these steps other processes may replace the contents of the file (`Others`), also
by shorter or longer ones, and between calls remove it. A file that is shrunk while it
is written is filled with zeros up to the place of the next write, except in mode
"ab", which writes at the end. `handles` counts open files; `seen` (all that the file
has been while it is read) and `changed` are ghosts.

### Arena and arrays

Addresses are numbers and every byte has a value. The arena's buffer begins at 0,
the blocks malloc can return lie behind it, and `blocks` is a ghost that says which
are valid. Four allocators share this memory: `"arena"`, `"libc"`, `"log"` (the log
around the arena, which can be made and dropped on its own) and `"plain"`, a
client's copy of the arena's `nx_Al` without calloc, for which `alloc.c` falls back
to alloc and memset. The sum `offset + size` and the rounding are those of `nx_usize`;
`num * size` wraps where nobody checks it. None but libc has realloc, so that
`nx_al_realloc` also stands for the fallback.

`arr` holds the structs of arrays with elements of `TSZ` bytes; the actions have the
names of the functions. `raw` is a block of bytes the client works on itself, next
to the arrays: it obtains, fills, resizes and releases it and remembers what each
byte should be. `arena_new`, `arena_drop`, `arena_reset`, `log_new` and `log_drop` are
allowed as the headers allow them: nothing that still has memory of the arena may
be used after reset, and an allocator outlives its arrays.

### Functions without state

`NxWords` has the integers of one width, `-HALF .. HALF - 1` and `0 .. 2 * HALF - 1`.
`Add`, `Sub`, `Mul` and `Div` are C's: unsigned results wrap, and the signed steps
the code takes are checked to need no wrapping. `NxBits` writes a word as the set of
its positions that are 1, with `Value` and `Word` between words and numbers, and follows
the shifts and masks of `bit.c` and of the generator. `NxKeys` compares and hashes floating-point numbers by their bits (sign
and magnitude, two zeros, several NaN), C strings and views. The operators of
`NxAlgo` follow the loops of `algo` on a span, a sequence of elements with a key that
is compared and a tag that is not, so that stability shows; an argument is a
pointer, to the client's memory or into the span, and is read (`Deref`) when the
code reads it.

`NxLib` is their client. It builds a span (`Push`), calls one algorithm on it, and
takes the result over as its next span, so that spans an algorithm leaves behind
are inputs of the others. The searches, comparisons and views are compared with
their definitions in every state between calls, the words once, in the first.

## 3. Runs

| Run | Bounds | What it shows |
|---|---|---|
| `hm_collide` | 4 keys, every hash function into {0, 1, 3, 7}, tables of 4 and 8 slots | the safety invariants below, at every loop iteration |
| `hm_refine` | 4 keys, 2 values, hashes {0, 3, 7} | `ImplementsMap`; pointers from get stay good while `len` and `cap` do not change (`PointerGood`) |
| `hm_live` | 4 keys, hashes {0, 7} | `CallsReturn` under weak fairness |
| `hm_pointer_header` (violation) | as `hm_refine` | `PointerLives`: a pointer from get, kept as the header allows, points into the table that reserve has freed |
| `hm_reserve_wraps` (violation) | a 12-bit `nx_usize` | a large reserve wraps to zero and succeeds |
| `pool` | up to 3 blocks of 16 or 32 bytes, 9-bit `nx_usize` | the free list, the counter, no leak, `ImplementsBlocks` |
| `vec` | 2 vectors, 2 allocators, 3 buffers of up to 4 elements | `TypeOK`, `OneOwner`, `NoUninit`, `ImplementsSeqs` |
| `str` | 2 strings, 2 allocators, 3 buffers of up to 4 cells, a file of up to 3 bytes, a literal of 2 | strings keep their terminator (`Terminated`) and owner, `ImplementsFiles`; what reads deliver and writes leave, and every failure cleans up |
| `fs_lost_flush` (violation) | as `str` | `WritesAll`: a write reports success although `fclose` lost bytes |
| `arena` | an arena of two units, one block of libc, 5-bit `nx_usize`, 2 arrays of up to 2 elements of 2 bytes | blocks lie apart, keep their contents and have one owner; `ImplementsArrays` |
| `pure` | spans of up to 5 of four keys; words of 2, 4 and 8 bits, numbers of 4 | each function without state against its definition |
| `pool_block_wraps` (violation) | 9-bit `nx_usize` | a block size near the top rounds up to 0 |

Why the bounds are enough. `DEFAULT_CAP` is 4 instead of 8, so that four keys
fill a table to its load limit, force a growth in the middle of a put, and
leave four-slot clusters. The hashes 3 and 7 collide in a table of 4 at its last
slot, so that clusters wrap around, and part ways in a table of 8, so that the
rehash reorders them; 0 is the reserved hash and 1 what `fix_hash` makes of it.
Longer displacement chains repeat the same step, which the proofs cover for
every size. `reserve` gets 0, an argument that needs one doubling, and 800, which
at `USIZE = 4096` runs the doubling loop into its overflow check. In the pool,
three blocks give all orders of release and reuse of a list with a head, a
middle and an end; `32 * 16` overflows the byte count of the constructor and
`40 * 20` that of calloc; a request of 4 bytes is smaller than the word the list
needs. For vectors, capacities up to 4 give growth from nothing, by doubling
(1, 2, 4; 3 to 6, refused) and to an exact size (3), and four cells give shifts a
beginning, a middle and an end. Two vectors own at most two buffers, and a third
is needed only within a call. One value of the client and the zero of a new
element are told apart, so that an element in the wrong place shows. Two
allocators are what `copy_a` needs to give a buffer to the wrong one.

For strings, `FIRST_CAP` is 1 instead of 4, so that buffers of four cells hold
growth from nothing, by doubling and past the largest; lengths 0 and 3 and the
literal of two characters give empty, partly filled and full strings; `USIZE = 8`
ends the doubling. Two bytes are read and written in one part or in two, and a file
of three in up to three; the contents other processes write, two zeros, are shorter
or longer than what the size said, or as long and different, and no byte of theirs is
one of the literal's. In the
arena, the size 3 is rounded up, 5 needs both units and does not fit behind
another block, 27 is in range and wraps when it is rounded and added to an offset;
8 elements of 4 bytes are 32, which is 0 in five bits. Two units let a block be
followed by another, and by nothing. Two arrays of 0, 1 and 2 elements are
what each branch of `copy_assign` needs. In `pure`, the keys are -0, 0, 1 and NaN:
two that are equal and different, and one that has to have an order of its own.
Five elements give the binary searches every parity and the merge sort a last run
shorter than its width. Words of 2 and 4 bits are exhausted; 8 bits have fields,
halves and bytes of different sizes. All states of the generator are tried for words
of up to `STATE_MAX` bits.

Properties of `vec`: `OneOwner` (every buffer belongs to exactly one vector, whose
`al` and `cap` are those it was obtained with: no leak, no double free, the right
size at dealloc), `NoUninit` (no element is a cell nobody wrote), and the refinement
`ImplementsSeqs`.

Invariants of `hm_collide`: `RobinHood` (the order that find_slot's early exit
relies on), `MissIsAbsence` (that exit is right), `KeysUnique` (no key twice in
table, old table and carried entry together), `LenCounts`, `LoadFactor`,
`ProbesEnd` (a probe that runs meets an empty slot, whatever its start),
`ReserveDelivers` (after a reserve that returned OK no put needs the allocator),
`ForEachOnce`.

Properties of `str`: `OneOwner` as for vectors, `Terminated` (the cell behind the last
character is a terminator, and none before it is one nobody wrote), `ReadsFile` (a
read that succeeds delivers as many bytes as were counted, each of which stood at its
place in the file at some moment of the call, and the file if nobody interfered: two
bytes may come from different moments, memory that was not read never shows),
`WritesFile` (an undisturbed write leaves a beginning of its text, once and behind what
an append found, however `fwrite` and `fclose` cut it; all of it, if success is reported
and `fclose` lost nothing),
`FsCleansUp` (whichever step fails, the file is closed and the string or buffer
given back), and `ImplementsFiles`.

Properties of `arena`: `BlocksApart` (valid blocks are disjoint, aligned, in their
buffer and below the offset), `OneOwner`, `RawKept` (the client's block keeps what was
written and what calloc promised, through everything others do with the same
allocators, and a failed realloc leaves it valid), and `ImplementsArrays`.

Properties of `pure`: `SortsAndSelects` (each sort orders a permutation of its input,
the stable ones keep the order of equal elements, selection and merging place what
they should), `SearchesAgree` (bounds, searches, minima, counts and predicates agree
with their definitions and with each other), `Rearranges` (reversal, rotation,
unique, remove, replace, copies), `SatExact` (section 5), `BitsExact` (the tricks of
`bit.c` against arithmetic; mixing and combining hashes loses nothing, so that numbers
and strings that differ hash differently where they should; no seed gives the
generator a state of all zeros), `RandomUniform` (draws below a bound hit each value
along equally many words, and so do those from a range that spans less than half of
the type, while in every wider one some draw overflows; a shuffle can have every
outcome; the generator never reaches the state of all zeros) and `ComparesConsistently` (comparison is a total preorder, equality its
zero, equal keys have equal hashes; views agree with C strings, searches end at the
first match, and trimming takes the space and no more).

Fairness. The code is sequential: once called, it runs until it returns. `FairSpec`
is weak fairness of the code's own steps (`Step`); the client is never forced to
call, and a callback is the client's. Nothing else is assumed.

Symmetry is used on keys (and on values in `hm_refine`), on the vectors, strings,
buffers and allocators of `vec` and `str`, and on the arrays of `arena`: no definition
distinguishes them, `HashFns` is closed under permuting keys, and the liveness run
uses none.

Deadlock is checked everywhere: a client can always make another call.

`X_suffix` definitions, such as `needs_grow_late` before `needs_grow`, are buggy
variants of the definition that follows; no specification uses them. Replacing a
definition by its variant makes the property named with it in `PROJECT.json`
fail.

## 4. What the code and its documentation disagree on

- `hash_map.h:29` says pointers from get are invalidated by put and remove and names
  no other call; reserve frees the table they point into (`hm_pointer_header`).
- `reserve` multiplies its argument by 4 without an overflow check and reports
  success for arguments where that wraps (`hm_reserve_wraps`).
- `fs.h:15` says "All I/O errors are reported as NX_STATUS_IO_ERROR", and the result
  of `fclose` is ignored after a write (`fs.c:144`, `:172`): what it loses is reported as
  written (`fs_lost_flush`). `WritesFile`, which the run `str` checks, says what remains:
  a success to which `fclose` agrees is one.
- `nx_al_pool_new` does not check that rounding the block size up wraps, as
  `arena_alloc` does (`pool_block_wraps`).

No run shows these; the models follow the code:

- `vec.h:22` and `str.h:25` say "Null data <--> zero length", while the assertions of
  `vec.c` and `str.c` say that data is null exactly if the *capacity* is zero (what
  `TypeOK` of `NxVec` and `NxStr` states).
- `vec.h:112` says that the pointer from pop is valid until the next push or insert,
  which resize, reserve, shrink and drop end as well.
- `hash_map.c:315` calls the key offset 8 "max-aligned", which is not a multiple of
  `alignof(max_align_t)`, 16.
- `hash_map.h:29` does not name clear either, which leaves a pointer from get in a slot
  that holds no entry.
- `alloc.h:28` says that a size of 0 returns null, where libc's allocator passes 0 to
  malloc. No caller in the library asks for 0.
- `transform.h` says that replace changes all occurrences, and remove removes them;
  when the value they compare with is an element of the span, it changes on the
  way. `Rearranges` leaves out exactly these arguments (`SafeKey`, `SafeOld`).
- `rand.h:26` says "uniform in [lo, hi] inclusive", and `rand.c:103` and `:111` add a
  draw to the lower end of a range as signed integers: a range that spans half of the
  type or more has draws for which the sum overflows, which is undefined. `int_range`
  may then be any value of the type, and `RandomUniform` claims nothing uniform of such
  a range.
- `str_view.c:163` passes a char to isspace that may be negative; the model has
  characters isspace is defined for.
- `alloc_log.h` speaks of `nx_al_dealloc` for the log itself, which has `nx_al_log_drop`.
- `fp.c:13`: `nx_lerp_f64` returns an `nx_f32`.
- `arr.c:335` multiplies `len * tsz` without a check; arrays whose size wraps are
  left out of `NxArr` (`ArrAssumption`).
- `sort_stable` and `inplace_merge` abort when they get no buffer; the models are of
  calls that return.

## 5. Proofs

All theorems hold for every value of the constants that satisfies the `ASSUME`s of
the module: any sets of keys, values and hash functions, any starting capacity
that is a multiple of 4, any number and size of blocks, any word size large
enough for one slot.

`NxHashMap_proofs` proves `TypeOK` and `LoadFactor`. Neither is inductive alone: a
loop's index is in the table only because the table is not empty while the loop
runs, and `len` stays below the limit only because put checks it before it
inserts. `TypeInv` adds `CallOK` (which call each loop belongs to) and `SizesOK`
(room where the code has decided that there is). That the comparison
`len * 4 >= cap * 3` does not wrap follows from `TableFits`.

Its second part proves `RobinHood` and `MissIsAbsence` from `IndInv`, which
adds that each stored hash is its key's (`HashOK`), that the slots behind the entry
being carried hold entries at least as far from home (`CarryOK`), and that those
behind a running search do not hold its key (`SearchOK`). The argument rests on
arithmetic of cyclic distances: `steps` is a bijection of the slots onto
0 .. cap - 1 for each start, and moving an entry one slot back or forward changes
one distance by one. The proof has one step per action; the hard ones are
`insert_swaps`, where the displaced entry takes over the guarantee of the one that
displaced it, and `shift_back`, which must not break the guarantee of any entry
further along.

Its third part proves what the map holds: `KeysUnique`, `LenCounts`, that
no table is ever full (`EmptySlotRemains`), and `ImplementsMap`. At any instant an
entry is in a slot (`Stored`), in a slot of the old table that the rehash has not
reached (`Unmoved`) or in the hand of `insert_no_grow`; one lemma per step says how
these places change (`...Places`). `EntriesInv` adds to `IndInv` and `KeysUnique` that
from the end of the search to the insertion the key of a put is in none of them
(`KeyAbsent`, from `MissIsAbsence`), and that `len` counts them (`CountOK`): the entry
of a put when it is placed, that of a remove until the shift ends. Steps are of
three kinds: those that leave the table alone (`Looks`), those that move entries and
change none (`Shuffles`), and those that change what the map holds (`Changes`), each
of which is the instant at which the abstract map changes. `ImplementsMapHolds`
assumes that no value is the string `"pending"`, by which the mapping marks a call
without an outcome. `ForEachOnceHolds` assumes callbacks that only write values and
call get (`CallbackOps`), and needs beside `KeysUnique` what holds inside the callback
(`IterInv`).

Its last part proves the safety half of `CallsReturn`, `LoopsEnd`: every step between
the entry of a call and its return makes `Work`, a triple of natural numbers, smaller
in the lexicographic order. The first number says which loops are still to come. The
second counts what the present one has left: slots that can still be as far from home
as the search has come, how far `table_cap` is from `USIZE` (`LoopOK`: from 0 it would
stay at 0), old slots to move, slots to visit. For
`insert_no_grow` and the backward shift it is the number of slots before the next
empty one (`Ahead`; for a move the third number): one exists (`SlotRemains`), and no
iteration of either loop takes or frees a slot, so each passes one of them
(`AheadShrinks`).

`NxHashMapPtr_proofs` proves what a client may rely on between its calls. `ProbesEnd`
needs beside `EmptySlotRemains` that `cap` is a power of two (`PowersInv`: `table_cap`, too,
when a loop of `reserve` runs): a number is one when no odd number but 1 divides it
(`PowerOfTwo`), and an odd divisor of `2 * c` divides `c` (`OddDivisor`). It assumes that the
first capacity is one. `ReserveDelivers` follows from `ReserveInv`, which says that
the table has the room that was promised (`RoomFor`), also the one a rehash is about to
fill: a product that wraps is smaller than the exact one, so that what `reserve`
accepts as large enough is. Only a request for which `cap * 4` itself wraps breaks
this; `ReservesFit` rules it out, and the run `hm_reserve_wraps` shows that without it
the property fails. `PointerGood` is proved for the rule that a pointer is trusted while
`len` and `cap` stay the same (`PtrOK`: it is in the slot of its key, except while an
entry is placed or taken out; the client sees the table again only after `len` has
changed, which ends its trust), and
`PtrImplementsMapHolds` extends `ImplementsMap` to the client that writes through its
pointer.

`NxPool_proofs` proves `TypeOK`, `FreeListExact`, `UsedCounts`, `NothingLeaks` and
`ImplementsBlocks`. A list is exact when its blocks can be numbered downwards from the head
(`IsNumbering`); the lemmas `PopHead` and `PushHead` say how a numbering changes,
and `HandInv`, `DeallocInv` and `MovesInv` apply them to the three ways the list
changes, whatever a client writes into its own blocks. The refinement adds to
`IndInv` that the constructor has settled the sizes before it allocates (`SizeOK`) and
that nothing was answered before the pool exists (`PoolInv`); that `free_head` is null
just when every block is held (`EmptyIffHeld`) is a count over the numbering, and
there is one lemma for each kind of step of the abstract blocks. It assumes that no
size comes within `ALIGN` of the top of `nx_usize` (`SizesRound`): without that the pool
does not keep its promise, which is what `pool_block_wraps` shows, and with it
`UsableSize` is a theorem too.

`NxVec_proofs` proves `TypeOK`, `OneOwner` and `NoUninit` together (`IndInv`): a step
keeps a vector's type only because its buffer is its own and has `cap` cells. Most
calls replace one vector and perhaps its buffer. `Fits` says when a vector and a
heap may take the place of the old ones, and the lemma `OneVector` that the
invariant then holds again; `AllocFacts` and `ReallocFacts` give it for every
outcome of the allocator, `StoreInv`, `ShortenedInv` and `CreatedInv` for the three ways
calls end, and one lemma per function says that the cells it writes leave no
element undefined (`MemcpyFacts`, `InsertedFacts`). Only move, move_assign, swap and
drop change more than one vector and are proved on their own. `ImplementsSeqsHolds`
maps each step to one of `NxSeqs`: the lemma `Becomes` says what the sequences are when
one vector is replaced, `RoomStored` that a vector with room holds what was stored, and
one lemma per function that the cells it writes are the sequence the header promises
(`InsertIs`, `EraseIs`, `CopiedBehind`, `CopyIs`). That growth doubles the room needs
`NoWrap`: no buffer may fill more than half the range, or `ensure_cap` falls back to the
exact size and its amortised cost is lost; every step else holds without it.

`NxArr_proofs` proves `TypeOK`, `BlocksApart`, `OneOwner`, `RawKept` and `ImplementsArrays`
for arrays over an arena, the log around it and libc, from nothing but the
assumptions on the sizes. `MemOK` says what holds of a memory between calls, `Good` who
owns its blocks. Each call of an allocator relates two memories: `Replaced`, `Freed` and
`Patched` say what becomes of one block, `Kept` that all others stay with their bytes;
`AllocFacts`, `CallocFacts`, `ReallocFacts` and `DeallocFacts` prove this of each of the four
allocators, the first from arithmetic of words (`AlignUpFacts`): the arena's check of
the remaining room is right also where rounding up wraps. `LibcRemains`, `NewArena` and
`GoodRest` are for the arena's own life, which ends all its blocks at once. For the
refinement an array is the sequence of its elements (`SeqOf`): `SameElems` says that
what is kept stays the same sequence, `SetElems` and `ZeroElems` what a call writes.

`NxFs_proofs` does for strings what `NxVec_proofs` does for vectors, with the
terminator (`Fits`, `OneString`). `StoreInv` and `CopiedInv` are the ways calls end that
keep the buffer, `ReplacedFits` and `CreatedInv` those that obtain one. `ViewedFacts`
says that a view into the string itself reads known characters also after the
buffer has moved, `StrlenFacts` that a C string ends where its string does or before.
It extends this invariant (`FsIndInv`) with what holds of a call of `fs.c` at
each of its steps: one open file (`FileOK`); a string or buffer of just the size the
file had, of which the part that was delivered stood in the file (`ReadOK`, `Stood`); a
file that holds what the write found and of its text what has reached it, unless
somebody changed it (`WriteOK`). `FilledInv` is about one read of a part: it keeps what is
before it and puts the new bytes at their places (`PartFacts`), and what stood in the
file still does when more is seen (`StoodMore`). `FlushedRight` is about one write of a
part: a text that arrives in any parts arrives whole. From the invariant follow `TypeOK`,
`OneOwner` and `Terminated` for every sequence of calls of `str.c` and `fs.c`, and the
action properties `FsCleansUp`, `ReadsFile` and `WritesFile`; other processes may change
the file between any two steps.

Its last part proves `ImplementsFiles`: strings are the sequences of `NxTexts`, and the
calls on files those of `NxFiles`. `Becomes` says what the sequences are when one
string is replaced, `StoredIs` and `CopiedIs` that a string with room holds what was
stored or copied behind its beginning; a source `Spells` the sequence it stands for. The
heart is `ViewedIs`: what `append` copies, from wherever the buffer is after
`ensure_cap`, spells what the view showed before (`Shows`). A string being read is none
yet (`Visible`): it appears in the step that ends the read, made of what the file has
been since the call began (`Watches`), and a failed read takes it away unseen. Every
other step of
`fs.c` leaves the sequences alone (`Elsewhere`). As for vectors, that growth doubles the
room needs `NoWrap`.

`NxAlgo_proofs` says what each algorithm does to a span of any length, `NxLib_proofs` that
the client therefore sees what the properties of `pure` claim. Numbers are ordered by
`rank`, which puts NaN behind all others and makes the two zeros equal (`ComparesRanks`).
The operators of `NxAlgo` run their loops as functions of the number of iterations.
Since an operator cannot be handed to a lemma, a loop's body is handed over as a
function: `LoopExists` says that such a function exists, `LoopKeeps` that a family of sets
that each iteration leads on (`Leads`) holds at its end; each algorithm's lemma says
that its operator is such a loop and names the sets, which is its loop invariant. These
invariants are:

- a binary search keeps everything before its position on one side and everything from
  its end on the other (`Cornered`, `Halves`), which needs the span ordered; the linear
  search then finds the same place (`BoundFinds`);
- `remove`, `unique`, `copy_if` write the elements they keep behind each other, in their
  order and each once (`Compact`: `Gathered`, `Rising`, and `Behind` for what is not yet
  overwritten). A key that is an element of the span is read anew in each iteration;
  the lemmas hold as long as it stays the same (`KeyStays`, and `OldStays` for `replace`:
  the exceptions `Rearranges` makes, and no others);
- a merge keeps what it wrote in the order of keys, and of positions among equal keys
  (`Lex`), and below all that is to come (`InFront`); a pass of the bottom-up sort makes
  from sorted runs sorted runs of twice the width (`RunsSorted`), and what is in a block
  came from that block (`Home`), so that the left run's elements come first;
- `partition_lomuto` leaves the smaller elements before the pivot and none of them behind
  (`Partitions`, `PartitionSplits`); `nth_element` keeps that nothing outside its bounds
  belongs inside (`Cornering`), and ends with a split on both sides of the element asked
  for; `partial_sort` sorts what is before it.

Sorting, selecting, merging and shuffling lose and double no element (`Perm`).
The inductive invariant of the client is `LibInv`: its span has its tags in order, and a
call that has returned left what these lemmas say (`Sorting`, `Moving`, `Reducing`).
From it follow `SortsAndSelects`, `Rearranges` and `SearchesAgree`.

`RandomUniform` follows from counting. Words are rejected from a multiple of the range
upwards (`AcceptsMultiple`), so that as many words remain for each residue
(`Residues`); a draw below half of the words is added to the lower end, and no two
give one sum, while a larger one overflows (`RangeShifts`, `RangesUniform`); and a permutation is reached by one choice in each iteration of `nx_rng_shuffle`
(`ShufflesReach`). `NextNotZero` is about words of every width, where TLC tries one: a
next state of all zeros leaves a word that is its own left shift, which has no lowest
bit (`ShiftsItself`).

`ComparesConsistently` says of views that the first position where two differ decides
their order (`FirstDifference`), in `memcmp` as in the loop of `nx_cmp_cstr`
(`CstrsCompare`), that a search passes over no match (`FindsFirst`), and that trimming the
start and the end in either order leaves what is between the first and the last
character that is no space (`TrimsBoth`).

`SatExact` is proved as `ArithmeticIsExact`, for integers of every width: the saturating
functions return the exact result clamped to the type, the checked ones agree, and the
divisions by which `sat.c` avoids the 64-bit product decide exactly when it overflows
(`ExceedsQuotient`).

`BitsExact` is about words of every width. Powers of two, the value of a word, the rounds
of a reversal and the steps of a hash are recursive functions, so that `Unrolls` and
`LoopExists` give their recursion and `UpTo_Induction` the inductions over positions.
Words and numbers are tied together by `LowBits` and `WordIsRest` (the word of a number is
its remainder by a power of two) and `ValueInjective` (different words are different
numbers). On these rest three arguments:

- Mixing. An odd factor cancels modulo a power of two (`OddCancels`, `MulInjective`), and
  of two words that differ, the highest position where they do survives `x ^ (x >> n)`
  (`ShiftInjective`); so the rounds of `nx_hash_mix` and of splitmix64 map no two words to
  one (`RoundsInjective`), a step of FNV-1a keeps apart what already differs
  (`HashesStrings`), and splitmix64 cannot return zero for two successive numbers
  (`SeedsNotZero`).
- Moving bits. Rotations and byte swaps are followed position by position (`Rotated`,
  `BytesExact`). After a round of `nx_bit_reverse`, blocks of h bits are in the opposite
  order (`Opposite`), and a round on halves of them exchanges partners
  (`OppositeOfPartner`), until blocks are single bits (`ReversesExactly`); this needs that
  widths are powers of two, which `KeysAssumption` says.
- Fields. A value splits at any position into its lower bits and a multiple of a power of
  two (`ValueSplit`), so that extraction is division with remainder (`FieldsExact`).

Only model-checked: `CallsReturn`. That no call takes infinitely many steps is proved
(`LoopsEnd`); that a call always has a step to take and, by fairness, takes it needs
ENABLED, which is out of the prover's reach.

## 6. What is left

In this order:

1. A client of `NxVec` that keeps pointers: the one from pop, elements of the vector
   passed to its own push and insert.
2. A client of the hash map whose keys or values are vectors and strings, so that
   the ownership of what is stored is part of the model.

## 7. Not modelled

`fp.c` and draws of floating-point numbers (their results round, which the integers
of TLA+ do not); printing, logging and the conversions of `io`; the macros of status,
result and assert, whose conditions appear as guards and properties; the internals
of malloc and stdio, which are modelled from how the code uses them; the vendored
test framework, tests, demos and benchmarks.

`for_each` callbacks that put or remove are left out of the passing runs: the header
does not say whether they are allowed, and with them `ForEachOnce` does not hold (a
removal shifts the next entry into the slot just visited). Arguments that point into
the container they are passed to are left out of `NxHashMap` and `NxVec`, as values
there have no address, and are part of `NxStr` (views) and `NxAlgo`.
