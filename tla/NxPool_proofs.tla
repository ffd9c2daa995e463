--------------------------- MODULE NxPool_proofs ----------------------------
(***************************************************************************)
(* Proofs about NxPool, for pools of any number of blocks of any size: the *)
(* free list is exact whatever the client allocates, resizes, frees and    *)
(* writes.                                                                 *)
(***************************************************************************)
EXTENDS NxPool, FiniteSetTheorems, TLAPS

\* The blocks the client holds are finitely many, and fewer than all while one
\* of them is not held.
LEMMA HeldFinite ==
  ASSUME NEW n \in Nat, NEW S, S \subseteq 0 .. n - 1
  PROVE  /\ IsFiniteSet(S) /\ Cardinality(S) \in 0 .. n
         /\ \A b \in (0 .. n - 1) \ S : Cardinality(S) < n
<1>1. IsFiniteSet(0 .. n - 1) /\ Cardinality(0 .. n - 1) = n
  BY FS_Interval
<1>2. IsFiniteSet(S) /\ Cardinality(S) <= n /\ Cardinality(S) \in Nat
  BY <1>1, FS_Subset, FS_CardinalityType
<1>3. ASSUME NEW b \in (0 .. n - 1) \ S PROVE Cardinality(S) < n
  <2>1. S \subseteq 0 .. n - 1 /\ S # 0 .. n - 1
    BY <1>3
  <2>2. Cardinality(S) # Cardinality(0 .. n - 1)
    BY <1>1, <2>1, FS_Subset
  <2> QED
    BY <1>1, <1>2, <2>2
<1> QED
  BY <1>2, <1>3

\* Handing out a block, and taking one back.
LEMMA HeldGrows ==
  ASSUME NEW S, IsFiniteSet(S), NEW b, b \notin S
  PROVE  Cardinality(S \union {b}) = Cardinality(S) + 1
BY FS_AddElement

LEMMA HeldShrinks ==
  ASSUME NEW S, IsFiniteSet(S), NEW b \in S
  PROVE  Cardinality(S \ {b}) = Cardinality(S) - 1 /\ Cardinality(S) > 0
<1>1. IsFiniteSet(S \ {b}) /\ Cardinality(S \ {b}) \in Nat
  BY FS_RemoveElement, FS_CardinalityType
<1>2. Cardinality(S \ {b}) = Cardinality(S) - 1 /\ Cardinality(S) \in Nat
  BY FS_RemoveElement, FS_CardinalityType
<1> QED
  BY <1>1, <1>2

-----------------------------------------------------------------------------
(* The free list loses its head, and gains one.                            *)

LEMMA EmptyList ==
  ASSUME NEW m PROVE IsList({}, m, Null, 0)
<1> DEFINE r == [b \in {} |-> 0]
<1>1. r \in [{} -> 0 .. 0 - 1]
  OBVIOUS
<1>2. IsNumbering(r, {}, m, Null, 0)
  BY DEF IsNumbering
<1> QED
  BY <1>1, <1>2 DEF IsList

LEMMA PopHead ==
  ASSUME NEW L, NEW m, NEW h, NEW n \in Nat \ {0}, IsList(L, m, h, n),
         NEW w, \A b \in L \ {h} : w[b] = m[b]
  PROVE  h \in L /\ IsList(L \ {h}, w, m[h], n - 1)
<1>1. PICK r \in [L -> 0 .. n - 1] : IsNumbering(r, L, m, h, n)
  BY DEF IsList
<1>2. h \in L /\ r[h] = n - 1
  BY <1>1 DEF IsNumbering
<1> DEFINE K == L \ {h}
           q == [b \in K |-> r[b]]
<1>3. ASSUME NEW b \in K PROVE r[b] \in 0 .. n - 2
  <2>1. r[b] # r[h] /\ r[b] \in 0 .. n - 1
    BY <1>1, <1>2 DEF IsNumbering
  <2> QED
    BY <1>2, <2>1
<1>4. q \in [K -> 0 .. (n - 1) - 1]
  BY <1>3
<1>5. ASSUME NEW b \in K
      PROVE IF q[b] = 0 THEN w[b] = Null ELSE w[b] \in K /\ q[w[b]] = q[b] - 1
  <2>1. w[b] = m[b] /\ q[b] = r[b]
    OBVIOUS
  <2>2. IF r[b] = 0 THEN m[b] = Null ELSE m[b] \in L /\ r[m[b]] = r[b] - 1
    BY <1>1 DEF IsNumbering
  <2>3. r[b] # 0 => m[b] # h
    BY <1>2, <1>3, <2>2
  <2> QED
    BY <2>1, <2>2, <2>3
<1>6. IF n - 1 = 0 THEN m[h] = Null ELSE m[h] \in K /\ q[m[h]] = (n - 1) - 1
  <2>1. IF r[h] = 0 THEN m[h] = Null ELSE m[h] \in L /\ r[m[h]] = r[h] - 1
    BY <1>1, <1>2 DEF IsNumbering
  <2>2. r[h] # 0 => m[h] # h
    BY <1>2, <2>1
  <2> QED
    BY <1>2, <2>1, <2>2
<1>7. \A b, c \in K : q[b] = q[c] => b = c
  BY <1>1 DEF IsNumbering
<1>8. IsNumbering(q, K, w, m[h], n - 1)
  BY <1>5, <1>6, <1>7 DEF IsNumbering
<1> QED
  BY <1>2, <1>4, <1>8 DEF IsList

LEMMA PushHead ==
  ASSUME NEW L, NEW m, NEW h, NEW n \in Nat, IsList(L, m, h, n),
         NEW b, b \notin L, NEW w, w[b] = h, \A c \in L : w[c] = m[c]
  PROVE  IsList(L \union {b}, w, b, n + 1)
<1>1. PICK r \in [L -> 0 .. n - 1] : IsNumbering(r, L, m, h, n)
  BY DEF IsList
<1> DEFINE K == L \union {b}
           q == [c \in K |-> IF c = b THEN n ELSE r[c]]
<1>2. \A c \in L : q[c] = r[c] /\ r[c] \in 0 .. n - 1 /\ c # b
  OBVIOUS
<1>3. q[b] = n
  OBVIOUS
<1>4. q \in [K -> 0 .. (n + 1) - 1]
  BY <1>2
<1>5. ASSUME NEW c \in K
      PROVE IF q[c] = 0 THEN w[c] = Null ELSE w[c] \in K /\ q[w[c]] = q[c] - 1
  <2>1. CASE c = b
    <3>1. IF n = 0 THEN h = Null ELSE h \in L /\ r[h] = n - 1
      BY <1>1 DEF IsNumbering
    <3> QED
      BY <2>1, <1>2, <1>3, <3>1
  <2>2. CASE c # b
    <3>1. c \in L
      BY <2>2
    <3>2. IF r[c] = 0 THEN m[c] = Null ELSE m[c] \in L /\ r[m[c]] = r[c] - 1
      BY <1>1, <3>1 DEF IsNumbering
    <3> QED
      BY <1>2, <3>1, <3>2
  <2> QED
    BY <2>1, <2>2
<1>6. ASSUME NEW c \in K, NEW d \in K, q[c] = q[d] PROVE c = d
  <2>1. \A x, y \in L : r[x] = r[y] => x = y
    BY <1>1 DEF IsNumbering
  <2>2. \A x \in L : q[x] # n
    BY <1>2
  <2> QED
    BY <1>2, <1>3, <1>6, <2>1, <2>2
<1>7. n + 1 # 0 /\ b \in K /\ q[b] = (n + 1) - 1
  BY <1>3
<1>8. IsNumbering(q, K, w, b, n + 1)
  <2> HIDE DEF q, K
  <2> QED
    BY <1>5, <1>6, <1>7 DEF IsNumbering
<1> QED
  BY <1>4, <1>8 DEF IsList

-----------------------------------------------------------------------------
(* The invariant.                                                          *)

LEMMA InitInv == Init => IndInv
<1> SUFFICES ASSUME Init PROVE IndInv
  OBVIOUS
<1>1. TypeOK
  BY WordAssumption DEF Init, TypeOK, Block, Word, Held, NoMem, NoneHeld
<1>2. PlaceOK /\ FreeListExact
  BY DEF Init, PlaceOK, FreeListExact, Held, NoneHeld
<1>3. UsedCounts
  BY FS_EmptySet DEF Init, UsedCounts, Held, NoneHeld
<1> QED
  BY <1>1, <1>2, <1>3 DEF IndInv

\* What a state that holds nothing but a list in the making has to show.
LEMMA GiveUpInv ==
  ASSUME IndInv, NEW F, GiveUp(F), heap \ F = {} PROVE IndInv'
<1>1. TypeOK'
  BY WordAssumption DEF GiveUp, TypeOK, Block, Word, Held, NoMem, NoneHeld, Answer
<1>2. PlaceOK' /\ FreeListExact'
  BY DEF GiveUp, PlaceOK, FreeListExact, Held, NoneHeld
<1>3. UsedCounts'
  BY FS_EmptySet DEF GiveUp, UsedCounts, Held, NoneHeld
<1> QED
  BY <1>1, <1>2, <1>3 DEF IndInv

\* Handing out the head of the list: what Hand and Moves begin with.
LEMMA HeadIsFree ==
  ASSUME IndInv, pc = "idle", free_head # Null
  PROVE  /\ used \in 0 .. block_count - 1
         /\ free_head \in Block \ Held
         /\ IsList(Block \ Held, mem, free_head, block_count - used)
<1>1. IsList(Block \ Held, mem, free_head, block_count - used)
  BY DEF IndInv, FreeListExact, Listed, listLen
<1>2. block_count \in Nat /\ used \in Nat /\ Held \subseteq Block
  BY DEF IndInv, TypeOK
<1>3. used \in 0 .. block_count
  BY <1>2, HeldFinite DEF IndInv, UsedCounts, Block
<1>4. block_count - used # 0
  BY <1>1 DEF IsList, IsNumbering
<1>5. free_head \in Block \ Held
  BY <1>1, <1>4 DEF IsList, IsNumbering
<1> QED
  BY <1>1, <1>2, <1>3, <1>4, <1>5

\* The state while the client is served: what the steps below start from.
LEMMA IdleFacts ==
  ASSUME IndInv, pc = "idle"
  PROVE  /\ block_size \in Nat /\ block_count \in Nat /\ used \in 0 .. block_count
         /\ used = Cardinality(Held) /\ IsFiniteSet(Held)
         /\ Held \subseteq Block /\ live \in [Held -> Nat \ {0}]
         /\ mem \in [Block -> Word] /\ free_head \in Block \union {Null}
         /\ IsList(Block \ Held, mem, free_head, block_count - used)
<1>1. /\ block_size \in Nat /\ block_count \in Nat /\ used = Cardinality(Held)
      /\ Held \subseteq Block /\ live \in [Held -> Nat \ {0}]
      /\ mem \in [Block -> Word] /\ free_head \in Block \union {Null}
  BY DEF IndInv, TypeOK, PlaceOK, UsedCounts
<1>2. IsFiniteSet(Held) /\ used \in 0 .. block_count
  BY <1>1, HeldFinite DEF Block
<1>3. IsList(Block \ Held, mem, free_head, block_count - used)
  BY DEF IndInv, FreeListExact, Listed, listLen
<1> QED
  BY <1>1, <1>2, <1>3

\* What a step that leaves the pool idle has to establish.
LEMMA IdleInv ==
  ASSUME IndInv, pc = "idle", UNCHANGED <<block_size, block_count, heap, pc, i, asked>>,
         used' \in Nat, used' = Cardinality(Held'), Held' \subseteq Block,
         live' \in [Held' -> Nat \ {0}], mem' \in [Block -> Word],
         free_head' \in Block \union {Null}, ret'.n \in Nat, ret'.p \in Word,
         IsList(Block \ Held', mem', free_head', block_count - used')
  PROVE  IndInv'
<1>1. TypeOK'
  BY DEF IndInv, TypeOK, PlaceOK, Block, Word
<1>2. PlaceOK' /\ UsedCounts'
  BY DEF IndInv, PlaceOK, UsedCounts
<1>3. FreeListExact'
  <2>1. Listed' = Block \ Held' /\ listLen' = block_count - used'
    BY DEF Listed, listLen, Block
  <2> QED
    BY <2>1 DEF FreeListExact
<1> QED
  BY <1>1, <1>2, <1>3 DEF IndInv

LEMMA RefuseInv ==
  ASSUME IndInv, pc = "idle", NEW n \in Nat, Answer(n, Null),
         UNCHANGED <<fields, mem, heap, pc, i, live, asked>>
  PROVE  IndInv'
<1>1. Held' = Held /\ ret'.n \in Nat /\ ret'.p \in Word
  BY DEF Held, Answer, Word
<1> QED
  BY <1>1, IdleFacts, IdleInv DEF fields

\* What is handed out is the head of the list: a block nobody holds.
LEMMA HandInv ==
  ASSUME IndInv, NEW n \in Nat, NEW w \in Word, Hand(n, w) PROVE IndInv'
<1>0. pc = "idle" /\ free_head # Null /\ n # 0
  BY DEF Hand, Refuses
<1>1. free_head \in Block \ Held /\ block_count - used \in Nat \ {0}
  BY <1>0, IdleFacts, HeadIsFree
<1>2. Held' = Held \union {free_head} /\ Held' \subseteq Block /\ live' \in [Held' -> Nat \ {0}]
  BY <1>0, <1>1, IdleFacts DEF Hand, Held
<1>3. used' \in Nat /\ used' = Cardinality(Held')
  BY <1>0, <1>1, <1>2, IdleFacts, HeldGrows DEF Hand
<1>4. mem' \in [Block -> Word] /\ mem[free_head] \in Word
  BY <1>0, <1>1, IdleFacts DEF Hand
<1>5. /\ IsList((Block \ Held) \ {free_head}, mem', mem[free_head], (block_count - used) - 1)
  <2>1. \A b \in (Block \ Held) \ {free_head} : mem'[b] = mem[b]
    BY <1>0, IdleFacts DEF Hand
  <2> QED
    BY <1>0, <1>1, <2>1, IdleFacts, PopHead
<1>6. (Block \ Held) \ {free_head} = Block \ Held' /\ (block_count - used) - 1 = block_count - used'
  BY <1>0, <1>1, <1>2, IdleFacts DEF Hand
<1>7. free_head' \in Block \union {Null}
  <2>1. IsList(Block \ Held', mem', free_head', block_count - used')
    BY <1>5, <1>6 DEF Hand
  <2> QED
    BY <2>1 DEF IsList, IsNumbering
<1>8. ret'.n \in Nat /\ ret'.p \in Word
  BY <1>1 DEF Hand, Answer, Word
<1> QED
  BY <1>0, <1>2, <1>3, <1>4, <1>5, <1>6, <1>7, <1>8, IdleInv DEF Hand

LEMMA DeallocInv ==
  ASSUME IndInv, NEW b \in Held, pool_dealloc(b) PROVE IndInv'
<1>0. pc = "idle"
  BY DEF pool_dealloc
<1>1. Held' = Held \ {b} /\ Held' \subseteq Block /\ live' \in [Held' -> Nat \ {0}]
  BY <1>0, IdleFacts DEF pool_dealloc, Held
<1>2. used' \in Nat /\ used' = Cardinality(Held')
  BY <1>0, <1>1, IdleFacts, HeldShrinks DEF pool_dealloc
<1>3. b \in Block /\ free_head \in Word /\ mem' \in [Block -> Word]
  BY <1>0, IdleFacts DEF pool_dealloc, Word
<1>4. IsList((Block \ Held) \union {b}, mem', b, (block_count - used) + 1)
  <2>1. mem'[b] = free_head /\ \A c \in Block \ Held : mem'[c] = mem[c]
    BY <1>0, <1>3, IdleFacts DEF pool_dealloc
  <2> QED
    BY <1>0, <2>1, IdleFacts, PushHead
<1>5. (Block \ Held) \union {b} = Block \ Held' /\ (block_count - used) + 1 = block_count - used'
  BY <1>0, <1>1, <1>3, IdleFacts DEF pool_dealloc
<1>6. ret'.n \in Nat /\ ret'.p \in Word
  BY DEF pool_dealloc, Answer, Word
<1> QED
  BY <1>0, <1>1, <1>2, <1>3, <1>4, <1>5, <1>6, IdleInv DEF pool_dealloc

\* realloc takes the head off the list before it puts the old block on it.
LEMMA MovesInv ==
  ASSUME IndInv, NEW b \in Held, NEW n \in Nat, Moves(b, n) PROVE IndInv'
<1>0. pc = "idle" /\ free_head # Null /\ n # 0
  BY DEF Moves, Refuses
<1>1. free_head \in Block \ Held /\ block_count - used \in Nat \ {0} /\ b \in Block /\ b # free_head
  BY <1>0, IdleFacts, HeadIsFree
<1>2. /\ Held' = (Held \ {b}) \union {free_head} /\ Held' \subseteq Block
      /\ live' \in [Held' -> Nat \ {0}]
  BY <1>0, <1>1, IdleFacts DEF Moves, Held
<1>3. used' \in Nat /\ used' = Cardinality(Held')
  <2>1. IsFiniteSet(Held \ {b}) /\ Cardinality(Held \ {b}) = used - 1
    BY <1>0, IdleFacts, HeldShrinks, FS_RemoveElement
  <2> QED
    BY <1>0, <1>1, <1>2, <2>1, IdleFacts, HeldGrows DEF Moves
<1>4. PICK w \in Word : mem' = [mem EXCEPT ![free_head] = w, ![b] = mem[free_head]]
  BY DEF Moves
<1>5. mem' \in [Block -> Word]
  BY <1>0, <1>1, <1>4, IdleFacts
<1> DEFINE rest == [mem EXCEPT ![free_head] = w]
           L == (Block \ Held) \ {free_head}
<1>6. IsList(L, rest, mem[free_head], (block_count - used) - 1)
  <2>1. \A c \in L : rest[c] = mem[c]
    BY <1>0, IdleFacts
  <2> QED
    BY <1>0, <1>1, <2>1, IdleFacts, PopHead
<1>7. IsList(L \union {b}, mem', b, ((block_count - used) - 1) + 1)
  <2>1. mem'[b] = mem[free_head] /\ \A c \in L : mem'[c] = rest[c]
    BY <1>0, <1>1, <1>4, IdleFacts
  <2>2. b \notin L /\ (block_count - used) - 1 \in Nat
    BY <1>1
  <2> QED
    BY <1>6, <2>1, <2>2, PushHead
<1>8. L \union {b} = Block \ Held' /\ ((block_count - used) - 1) + 1 = block_count - used'
  BY <1>0, <1>1, <1>2, IdleFacts DEF Moves
<1>9. ret'.n \in Nat /\ ret'.p \in Word /\ free_head' = b
  BY <1>1 DEF Moves, Answer, Word
<1> QED
  BY <1>0, <1>1, <1>2, <1>3, <1>5, <1>7, <1>8, <1>9, IdleInv DEF Moves

LEMMA NextInv == IndInv /\ [Next]_vars => IndInv'
<1>1. ASSUME IndInv, UNCHANGED vars PROVE IndInv'
  <2> USE <1>1 DEF vars, IndInv
  <2>1. TypeOK'
    BY DEF TypeOK, Block, Word, Held
  <2>2. PlaceOK' /\ UsedCounts'
    BY DEF PlaceOK, UsedCounts, Held
  <2>3. FreeListExact'
    BY DEF FreeListExact, IsList, IsNumbering, Listed, listLen, Block, Held
  <2> QED
    BY <2>1, <2>2, <2>3
<1> SUFFICES ASSUME IndInv, Next PROVE IndInv'
  BY <1>1
<1> USE DEF IndInv
<1>2. ASSUME NEW s \in BlockSizes, NEW c \in BlockCounts, pool_new(s, c) PROVE IndInv'
  <2>0. block_size' \in Nat /\ c \in Nat /\ s \in Nat
    BY <1>2, SizesAssumption DEF pool_new, align_up
  <2>1. TypeOK'
    <3>1. mem \in [{} -> Word] /\ Held = {} /\ ret.p \in {Null, Junk} /\ i = 0 /\ free_head = Null
      BY <1>2, WordAssumption DEF pool_new, TypeOK, PlaceOK, Block, Word
    <3>2. mem' \in [{} -> Word'] /\ ret'.p \in Word'
      BY <1>2, <3>1 DEF pool_new, Word
    <3>3. UNCHANGED <<live, Held, used, ret, i, free_head>> /\ heap' = {"ctx"} /\ pc' = "data" /\ asked' = s /\ block_count' = c
      BY <1>2 DEF pool_new, Held
    <3> QED
      BY <2>0, <3>1, <3>2, <3>3 DEF TypeOK
  <2>2. PlaceOK' /\ UsedCounts' /\ FreeListExact'
    BY <1>2 DEF pool_new, PlaceOK, UsedCounts, FreeListExact, Held
  <2> QED
    BY <2>1, <2>2
<1>3. CASE new_overflows
  BY <1>3, GiveUpInv DEF new_overflows, PlaceOK
<1>4. CASE new_data_fails
  BY <1>4, GiveUpInv DEF new_data_fails, PlaceOK
<1>5. CASE new_al_fails
  BY <1>5, GiveUpInv DEF new_al_fails, PlaceOK
<1>6. CASE drop
  BY <1>6, GiveUpInv DEF drop, PlaceOK
<1>7. CASE new_data
  <2>1. TypeOK'
    BY <1>7 DEF new_data, TypeOK, PlaceOK, Block, Word, Held
  <2>2. PlaceOK' /\ UsedCounts'
    BY <1>7, FS_EmptySet DEF new_data, PlaceOK, UsedCounts, Held
  <2>3. Listed' = {} /\ listLen' = 0
    BY <1>7 DEF new_data, Listed, listLen, TypeOK
  <2>4. FreeListExact'
    BY <1>7, <2>3, EmptyList DEF new_data, FreeListExact
  <2> QED
    BY <2>1, <2>2, <2>4
<1>8. CASE new_al
  <2>1. TypeOK'
    BY <1>8 DEF new_al, fields, TypeOK, PlaceOK, Block, Word, Held, Answer
  <2>2. PlaceOK' /\ UsedCounts'
    BY <1>8 DEF new_al, fields, PlaceOK, UsedCounts, Held
  <2>3. Listed' = Listed /\ listLen' = listLen
    BY <1>8 DEF new_al, fields, Listed, listLen, Block, Held
  <2>4. FreeListExact'
    BY <1>8, <2>3 DEF new_al, fields, FreeListExact
  <2> QED
    BY <2>1, <2>2, <2>4
<1>9. CASE build_links
  <2>0. i \in 1 .. block_count /\ block_count \in Nat /\ mem \in [Block -> Word] /\ i - 1 \in Block
    BY <1>9 DEF build_links, TypeOK, PlaceOK, Block
  <2>1. TypeOK'
    BY <1>9, <2>0 DEF build_links, TypeOK, PlaceOK, Block, Word, Held
  <2>2. PlaceOK' /\ UsedCounts'
    BY <1>9 DEF build_links, PlaceOK, UsedCounts, Held
  <2>3. IsList(i .. block_count - 1, mem, free_head, block_count - i)
    BY <1>9 DEF build_links, FreeListExact, Listed, listLen
  <2>4. mem'[i - 1] = free_head /\ \A c \in i .. block_count - 1 : mem'[c] = mem[c]
    BY <1>9, <2>0 DEF build_links, Block
  <2>5. IsList((i .. block_count - 1) \union {i - 1}, mem', i - 1, (block_count - i) + 1)
    BY <2>0, <2>3, <2>4, PushHead
  <2>6. Listed' = (i .. block_count - 1) \union {i - 1} /\ listLen' = (block_count - i) + 1
    BY <1>9, <2>0 DEF build_links, Listed, listLen
  <2>7. FreeListExact'
    BY <1>9, <2>5, <2>6 DEF build_links, FreeListExact
  <2> QED
    BY <2>1, <2>2, <2>7
<1>10. CASE build_ends
  <2>1. TypeOK'
    BY <1>10 DEF build_ends, fields, TypeOK, Block, Word, Held
  <2>2. PlaceOK' /\ UsedCounts'
    BY <1>10 DEF build_ends, fields, PlaceOK, UsedCounts, Held
  <2>3. used = 0 /\ Held = {} /\ block_count \in Nat
    BY <1>10, FS_EmptySet DEF build_ends, PlaceOK, UsedCounts, TypeOK
  <2>4. Listed' = Listed /\ listLen' = listLen
    BY <1>10, <2>3 DEF build_ends, fields, Listed, listLen, Block, Held
  <2>5. FreeListExact'
    BY <1>10, <2>4 DEF build_ends, fields, FreeListExact
  <2> QED
    BY <2>1, <2>2, <2>5
<1>11. CASE reset
  <2>1. TypeOK'
    BY <1>11 DEF reset, TypeOK, Block, Word, Held, NoneHeld, Answer
  <2>2. PlaceOK' /\ UsedCounts'
    BY <1>11, FS_EmptySet DEF reset, PlaceOK, UsedCounts, Held, NoneHeld
  <2>3. Listed' = {} /\ listLen' = 0
    BY <1>11 DEF reset, Listed, listLen, TypeOK
  <2>4. FreeListExact'
    BY <1>11, <2>3, EmptyList DEF reset, FreeListExact
  <2> QED
    BY <2>1, <2>2, <2>4
<1>12. ASSUME NEW n \in Sizes, pool_alloc(n) PROVE IndInv'
  <2>1. n \in Nat
    BY SizesAssumption
  <2>2. CASE refuse(n)
    BY <2>1, <2>2, RefuseInv DEF refuse
  <2>3. CASE Hand(n, mem[free_head])
    <3>1. mem[free_head] \in Word
      BY <2>3, IdleFacts DEF Hand, Refuses
    <3> QED
      BY <2>1, <2>3, <3>1, HandInv
  <2> QED
    BY <1>12, <2>2, <2>3 DEF pool_alloc
<1>13. ASSUME NEW m \in Nums, NEW n \in Sizes, pool_calloc(m, n) PROVE IndInv'
  <2>1. m * n \in Nat
    BY SizesAssumption
  <2>2. CASE pc = "idle" /\ Answer(m * n, Null) /\ UNCHANGED <<fields, mem, heap, pc, i, live, asked>>
    BY <2>1, <2>2, RefuseInv
  <2>3. ASSUME NEW w \in Word, Hand(m * n, w) PROVE IndInv'
    BY <2>1, <2>3, HandInv
  <2> QED
    BY <1>13, <2>2, <2>3 DEF pool_calloc, refuse
<1>14. ASSUME NEW b \in Held, pool_dealloc(b) PROVE IndInv'
  BY <1>14, DeallocInv
<1>15. ASSUME NEW b \in Held, NEW w \in Word, write(b, w) PROVE IndInv'
  <2>0. pc = "idle" /\ Held' = Held /\ b \in Block
    BY <1>15, IdleFacts DEF write, Held
  <2>1. mem' \in [Block -> Word] /\ \A c \in Block \ Held : mem'[c] = mem[c]
    BY <1>15, <2>0, IdleFacts DEF write
  <2>2. IsList(Block \ Held, mem', free_head, block_count - used)
    <3>1. PICK r \in [Block \ Held -> 0 .. (block_count - used) - 1] :
            IsNumbering(r, Block \ Held, mem, free_head, block_count - used)
      BY <2>0, IdleFacts DEF IsList
    <3>2. IsNumbering(r, Block \ Held, mem', free_head, block_count - used)
      BY <2>1, <3>1 DEF IsNumbering
    <3> QED
      BY <3>2 DEF IsList
  <2>3. ret'.n \in Nat /\ ret'.p \in Word
    BY <1>15 DEF write, TypeOK
  <2> QED
    BY <1>15, <2>0, <2>1, <2>2, <2>3, IdleFacts, IdleInv DEF write, fields
<1>16. ASSUME NEW b \in Held, NEW n \in Sizes, nx_al_realloc(b, n) PROVE IndInv'
  <2>1. n \in Nat
    BY SizesAssumption
  <2>2. CASE pool_dealloc(b)
    BY <2>2, DeallocInv
  <2>3. CASE refuse(n)
    BY <2>1, <2>3, RefuseInv DEF refuse
  <2>4. CASE Moves(b, n)
    BY <2>1, <2>4, MovesInv
  <2> QED
    BY <1>16, <2>2, <2>3, <2>4 DEF nx_al_realloc
<1> QED
  BY <1>2, <1>3, <1>4, <1>5, <1>6, <1>7, <1>8, <1>9, <1>10, <1>11, <1>12, <1>13, <1>14, <1>15, <1>16 DEF Next

THEOREM IndInvHolds == Spec => []IndInv
BY InitInv, NextInv, PTL DEF Spec

\* Every field has its type; the head of the list is never a word that a
\* client wrote.
THEOREM TypeCorrect == Spec => []TypeOK
<1>1. IndInv => TypeOK
  BY DEF IndInv
<1> QED
  BY <1>1, IndInvHolds, PTL

\* The free list holds exactly the blocks no client holds, each once, for any
\* number of blocks and any sequence of calls and writes (pool_alloc,
\* pool_dealloc, pool_build_free_list, nx_al_realloc).
THEOREM FreeListExactHolds == Spec => []FreeListExact
<1>1. IndInv => FreeListExact
  BY DEF IndInv
<1> QED
  BY <1>1, IndInvHolds, PTL

\* used counts the blocks the client holds: "++pool->used", "--pool->used" and
\* the assertion used > 0 of pool_dealloc.
THEOREM UsedCountsHolds == Spec => []UsedCounts
<1>1. IndInv => UsedCounts
  BY DEF IndInv
<1> QED
  BY <1>1, IndInvHolds, PTL

\* No failure of the constructor, and no drop, leaves memory allocated.
THEOREM NothingLeaksHolds == Spec => []NothingLeaks
<1>1. IndInv => NothingLeaks
  BY DEF IndInv, PlaceOK, NothingLeaks
<1> QED
  BY <1>1, IndInvHolds, PTL

-----------------------------------------------------------------------------
(* The pool implements NxBlocks.                                           *)

\* No size the client passes comes within ALIGN of the largest nx_usize: see
\* UsableSize.
SizesRound == \A s \in BlockSizes \union {WORD} : s + ALIGN <= USIZE

LEMMA NoRemainder == ASSUME NEW q \in Int, NEW a \in Nat \ {0} PROVE (q * a) % a = 0
<1> DEFINE y == q * a
           d == y \div a
           r == y % a
           k == q - d
<1>1. y \in Int /\ d \in Int /\ r \in 0 .. a - 1 /\ y = a * d + r
  OBVIOUS
<1> HIDE DEF d, r
<1>2. k \in Int /\ a * k = r
  <2>1. a * k = a * q - a * d
    BY <1>1
  <2> QED
    BY <1>1, <2>1
<1> HIDE DEF k, y
<1>3. CASE k >= 1
  <2>1. a * k >= a
    BY <1>2, <1>3
  <2> QED
    BY <1>1, <1>2, <2>1
<1>4. CASE k <= -1
  <2>1. a * k <= -a
    BY <1>2, <1>4
  <2> QED
    BY <1>1, <1>2, <2>1
<1>5. CASE k = 0
  BY <1>2, <1>5 DEF r, y
<1> QED
  BY <1>2, <1>3, <1>4, <1>5

LEMMA RoundedUp ==
  ASSUME NEW n \in Nat, NEW a \in Nat \ {0}, n + a <= USIZE
  PROVE  align_up(n, a) \in n .. n + a - 1 /\ align_up(n, a) % a = 0 /\ align_up(n, a) < USIZE
<1> DEFINE x == n + a - 1
           q == x \div a
           r == x % a
<1>1. x \in Nat /\ x < USIZE /\ USIZE \in Nat
  BY SizesAssumption
<1>2. x % USIZE = x
  BY <1>1
<1>3. align_up(n, a) = q * a
  BY <1>2 DEF align_up
<1>4. q \in Int /\ r \in 0 .. a - 1 /\ x = a * q + r
  BY <1>1
<1> HIDE DEF q, r
<1>5. q * a = a * q /\ a * q \in Int
  BY <1>4
<1>6. (q * a) % a = 0
  BY <1>4, NoRemainder
<1> QED
  BY <1>1, <1>3, <1>4, <1>5, <1>6

\* What new has settled, and what the client has been told.
NewIsOver == pc = "idle" \/ (pc = "build" /\ "al" \in heap)
SizeOK ==
  /\ pc # "none" =>
       /\ asked \in BlockSizes /\ block_count \in BlockCounts
       /\ block_size = align_up(IF asked < WORD THEN WORD ELSE asked, ALIGN)
  /\ ~NewIsOver => ret = [n |-> 0, p |-> Null]
PoolInv == IndInv /\ SizeOK

LEMMA GiveUpSizes == ASSUME NEW F, GiveUp(F) PROVE SizeOK'
BY DEF GiveUp, SizeOK, Answer

LEMMA IdleSizes ==
  ASSUME SizeOK, pc = "idle", pc' = "idle", UNCHANGED <<block_size, block_count, asked>>
  PROVE  SizeOK'
BY DEF SizeOK, NewIsOver

\* The calls of the client that leave the pool as it is, with what they answer.
Serves ==
  \/ \E n \in Sizes : pool_alloc(n)
  \/ \E m \in Nums, n \in Sizes : pool_calloc(m, n)
  \/ \E b \in Held : pool_dealloc(b) \/ (\E w \in Word : write(b, w))
  \/ \E b \in Held, n \in Sizes : nx_al_realloc(b, n)

LEMMA ServesIdle ==
  ASSUME Serves
  PROVE  pc = "idle" /\ pc' = "idle" /\ UNCHANGED <<block_size, block_count, asked, heap>>
<1>1. CASE \E n \in Sizes : pool_alloc(n)
  BY <1>1 DEF pool_alloc, refuse, Hand, fields
<1>2. CASE \E m \in Nums, n \in Sizes : pool_calloc(m, n)
  <2>1. PICK m \in Nums, n \in Sizes : pool_calloc(m, n)
    BY <1>2
  <2> DEFINE total == m * n
  <2>2. CASE total >= USIZE
    BY <2>1, <2>2 DEF pool_calloc, fields
  <2>3. CASE ~(total >= USIZE)
    <3>1. refuse(total) \/ \E w \in Word : Hand(total, w)
      BY <2>1, <2>3 DEF pool_calloc
    <3> QED
      BY <3>1 DEF refuse, Hand, fields
  <2> QED
    BY <2>2, <2>3
<1>3. CASE \E b \in Held : pool_dealloc(b) \/ (\E w \in Word : write(b, w))
  BY <1>3 DEF pool_dealloc, write, fields
<1>4. CASE \E b \in Held, n \in Sizes : nx_al_realloc(b, n)
  BY <1>4 DEF nx_al_realloc, pool_dealloc, refuse, Moves, fields
<1> QED
  BY <1>1, <1>2, <1>3, <1>4 DEF Serves

LEMMA NextSizes == ASSUME IndInv, SizeOK, [Next]_vars PROVE SizeOK'
<1>1. CASE UNCHANGED vars
  BY <1>1 DEF vars, SizeOK, NewIsOver
<1>2. CASE \E s \in BlockSizes, c \in BlockCounts : pool_new(s, c)
  BY <1>2 DEF pool_new, SizeOK, NewIsOver
<1>3. CASE new_overflows \/ new_data_fails \/ new_al_fails \/ drop
  BY <1>3, GiveUpSizes DEF new_overflows, new_data_fails, new_al_fails, drop
<1>4. CASE new_data
  BY <1>4 DEF new_data, SizeOK, NewIsOver, IndInv, PlaceOK
<1>5. CASE new_al
  BY <1>5 DEF new_al, SizeOK, NewIsOver, fields
<1>6. CASE build_links
  BY <1>6 DEF build_links, SizeOK, NewIsOver
<1>7. CASE build_ends
  BY <1>7 DEF build_ends, SizeOK, NewIsOver, fields
<1>8. CASE reset
  BY <1>8 DEF reset, SizeOK, NewIsOver, IndInv, PlaceOK
<1>9. CASE Serves
  BY <1>9, ServesIdle, IdleSizes
<1> QED
  BY <1>1, <1>2, <1>3, <1>4, <1>5, <1>6, <1>7, <1>8, <1>9 DEF Next, Serves

LEMMA PoolInvHolds == Spec => []PoolInv
<1>1. Init => PoolInv
  BY InitInv DEF Init, PoolInv, SizeOK
<1>2. PoolInv /\ [Next]_vars => PoolInv'
  BY NextInv, NextSizes DEF PoolInv
<1> QED
  BY <1>1, <1>2, PTL DEF Spec

\* What SizeOK says of the size of a block when no addition wraps.
LEMMA SizeFacts ==
  ASSUME PoolInv, SizesRound, pc # "none"
  PROVE  /\ block_size \in (IF asked < WORD THEN WORD ELSE asked)
                             .. (IF asked < WORD THEN WORD ELSE asked) + ALIGN - 1
         /\ block_size % ALIGN = 0 /\ block_size < USIZE /\ block_size >= asked
         /\ asked \in Nat \ {0} /\ block_count \in Nat \ {0}
<1> DEFINE need == IF asked < WORD THEN WORD ELSE asked
<1>1. /\ asked \in Nat \ {0} /\ block_count \in Nat \ {0} /\ block_size = align_up(need, ALIGN)
      /\ ALIGN \in Nat \ {0} /\ need \in Nat /\ need >= asked /\ need + ALIGN <= USIZE
  <2>1. asked \in BlockSizes /\ block_count \in BlockCounts /\ block_size = align_up(need, ALIGN)
    BY DEF PoolInv, SizeOK
  <2>2. asked \in Nat \ {0} /\ block_count \in Nat \ {0} /\ WORD \in Nat /\ ALIGN \in Nat \ {0}
    BY <2>1, SizesAssumption
  <2>3. asked + ALIGN <= USIZE /\ WORD + ALIGN <= USIZE
    BY <2>1 DEF SizesRound
  <2> QED
    BY <2>1, <2>2, <2>3
<1>2. /\ align_up(need, ALIGN) \in need .. need + ALIGN - 1 /\ align_up(need, ALIGN) % ALIGN = 0
      /\ align_up(need, ALIGN) < USIZE
  BY <1>1, RoundedUp
<1> QED
  BY <1>1, <1>2

-----------------------------------------------------------------------------
\* The sizes NxBlocks sees are those of the pool once new has returned.
LEMMA SizesFacts ==
  ASSUME PoolInv
  PROVE  /\ NewIsOver => sizes = [asked |-> asked, size |-> block_size, count |-> block_count]
         /\ ~NewIsOver => sizes = Blocks!NoPool
         /\ sizes # Blocks!NoPool <=> NewIsOver
         /\ DOMAIN blocks = Held /\ Blocks!live = Held
         /\ \A b \in Held : blocks[b].n = live[b] /\ blocks[b].w = mem[b]
<1>1. NewIsOver => asked # 0
  <2>1. NewIsOver => asked \in BlockSizes
    BY DEF PoolInv, SizeOK, NewIsOver
  <2> QED
    BY <2>1, SizesAssumption
<1>2. NewIsOver => sizes.asked = asked
  BY DEF sizes, NewIsOver
<1> QED
  BY <1>1, <1>2 DEF sizes, blocks, NewIsOver, Blocks!NoPool, Blocks!live

LEMMA IdleSizesFacts ==
  ASSUME PoolInv, pc = "idle"
  PROVE  /\ sizes # Blocks!NoPool /\ sizes.size = block_size
         /\ Blocks!Block = Block /\ Blocks!Word = Word
<1>1. NewIsOver
  BY DEF NewIsOver
<1>2. sizes = [asked |-> asked, size |-> block_size, count |-> block_count] /\ sizes # Blocks!NoPool
  BY <1>1, SizesFacts
<1> QED
  BY <1>2 DEF Blocks!Block, Blocks!Word, Block, Word

\* The list is empty exactly when every block is held.
LEMMA EmptyIffHeld ==
  ASSUME IndInv, pc = "idle"
  PROVE  free_head = Null <=> Held = Block
<1>1. ASSUME free_head = Null PROVE Held = Block
  <2>1. block_count - used = 0
    <3>1. IsList(Block \ Held, mem, free_head, block_count - used)
      BY IdleFacts
    <3>2. Null \notin Block \ Held
      BY IdleFacts, WordAssumption DEF Block
    <3> QED
      BY <1>1, <3>1, <3>2 DEF IsList, IsNumbering
  <2>2. IsFiniteSet(Block) /\ Cardinality(Block) = block_count
    <3>1. IsFiniteSet(Block)
      BY IdleFacts, HeldFinite DEF Block
    <3>2. block_count \in Nat
      BY IdleFacts
    <3>3. Cardinality(0 .. block_count - 1) = block_count
      <4>1. 0 \in Int /\ block_count - 1 \in Int
        BY <3>2
      <4>2. Cardinality(0 .. block_count - 1)
              = IF 0 > block_count - 1 THEN 0 ELSE (block_count - 1) - 0 + 1
        BY <4>1, FS_Interval
      <4> QED
        BY <3>2, <4>2
    <3> QED
      BY <3>1, <3>3 DEF Block
  <2>3. Held \subseteq Block /\ Cardinality(Held) = Cardinality(Block)
    BY <2>1, <2>2, IdleFacts
  <2> QED
    BY <2>2, <2>3, FS_Subset
<1>2. ASSUME free_head # Null PROVE Held # Block
  BY <1>2, HeadIsFree
<1> QED
  BY <1>1, <1>2

\* Whether a request is refused does not depend on where the blocks lie.
LEMMA RefusesAlike ==
  ASSUME PoolInv, pc = "idle", NEW n
  PROVE  Blocks!Refuses(n) <=> Refuses(n)
<1>1. IndInv
  BY DEF PoolInv
<1> QED
  BY <1>1, EmptyIffHeld, IdleSizesFacts, SizesFacts DEF Blocks!Refuses, Refuses

LEMMA IsRefuse ==
  ASSUME PoolInv, pc = "idle", NEW n, Refuses(n), Answer(n, Null),
         UNCHANGED <<fields, mem, heap, pc, i, live, asked>>
  PROVE  Blocks!Next
<1>1. sizes' = sizes /\ blocks' = blocks
  BY DEF sizes, blocks, Held, fields
<1>2. ret' = [n |-> n, p |-> Null] /\ ret'.n = n
  BY DEF Answer
<1>3. Blocks!Refuse
  BY <1>1, <1>2, RefusesAlike, IdleSizesFacts DEF Blocks!Refuse, Blocks!Answer
<1> QED
  BY <1>3 DEF Blocks!Next

\* The head of the list is a block that is free.
LEMMA IsGive ==
  ASSUME PoolInv, NEW n \in Nat, NEW w \in Word, Hand(n, w),
         NEW zeroed \in BOOLEAN, zeroed /\ n >= WORD => w = Null
  PROVE  Blocks!Next
<1>0. pc = "idle" /\ ~Refuses(n) /\ free_head # Null /\ IndInv
  BY DEF Hand, Refuses, PoolInv
<1>1. free_head \in Block \ Held
  BY <1>0, HeadIsFree
<1>2. sizes' = sizes
  BY DEF Hand, sizes
<1>3. ret' = [n |-> n, p |-> free_head] /\ ret'.n = n
  BY DEF Hand, Answer
<1>4. /\ Held' = Held \union {free_head}
      /\ \A b \in Held' : live'[b] = IF b = free_head THEN n ELSE live[b]
      /\ \A b \in Block : mem'[b] = IF b = free_head THEN w ELSE mem[b]
  BY <1>0, IdleFacts DEF Hand, Held
<1>5. blocks' = [c \in Held \union {free_head} |->
                   IF c = free_head THEN [n |-> n, w |-> w] ELSE blocks[c]]
  <2>1. blocks' = [c \in Held \union {free_head} |-> [n |-> live'[c], w |-> mem'[c]]]
    BY <1>4 DEF blocks
  <2>2. \A c \in Held \union {free_head} :
          [n |-> live'[c], w |-> mem'[c]] = IF c = free_head THEN [n |-> n, w |-> w] ELSE blocks[c]
    BY <1>0, <1>1, <1>4, IdleFacts DEF blocks
  <2> QED
    BY <2>1, <2>2
<1>6. Blocks!Give(zeroed)
  BY <1>0, <1>1, <1>2, <1>3, <1>5, RefusesAlike, IdleSizesFacts, SizesFacts
     DEF Blocks!Give, Blocks!Answer
<1> QED
  BY <1>6 DEF Blocks!Next

LEMMA IsTake ==
  ASSUME PoolInv, NEW b \in Held, pool_dealloc(b)
  PROVE  Blocks!Next
<1>0. pc = "idle" /\ IndInv
  BY DEF pool_dealloc, PoolInv
<1>1. sizes' = sizes
  BY DEF pool_dealloc, sizes
<1>2. Held' = Held \ {b} /\ live' = [c \in Held \ {b} |-> live[c]]
  BY DEF pool_dealloc, Held
<1>3. \A c \in Held \ {b} : mem'[c] = mem[c]
  BY <1>0, IdleFacts DEF pool_dealloc
<1>4. blocks' = [c \in Held \ {b} |-> blocks[c]]
  <2>1. blocks' = [c \in Held \ {b} |-> [n |-> live'[c], w |-> mem'[c]]]
    BY <1>2 DEF blocks
  <2>2. \A c \in Held \ {b} : [n |-> live'[c], w |-> mem'[c]] = blocks[c]
    BY <1>2, <1>3 DEF blocks
  <2> QED
    BY <2>1, <2>2
<1>5. b \in Blocks!live /\ Blocks!Take(b)
  BY <1>1, <1>4, SizesFacts DEF Blocks!Take, Blocks!Answer, pool_dealloc, Answer
<1> QED
  BY <1>5 DEF Blocks!Next

\* The block moves with what both sizes can hold.
LEMMA IsMove ==
  ASSUME PoolInv, NEW b \in Held, NEW n \in Nat, Moves(b, n)
  PROVE  Blocks!Next
<1>0. pc = "idle" /\ ~Refuses(n) /\ free_head # Null /\ IndInv
  BY DEF Moves, Refuses, PoolInv
<1>1. free_head \in Block \ Held /\ b \in Block /\ b # free_head
  BY <1>0, HeadIsFree, IdleFacts
<1>2. PICK w \in Word : /\ n >= WORD /\ live[b] >= WORD => w = mem[b]
                        /\ mem' = [mem EXCEPT ![free_head] = w, ![b] = mem[free_head]]
  BY DEF Moves
<1>3. sizes' = sizes
  BY DEF Moves, sizes
<1>4. ret' = [n |-> n, p |-> free_head] /\ ret'.n = n
  BY DEF Moves, Answer
<1>5. /\ Held' = (Held \ {b}) \union {free_head}
      /\ \A c \in Held' : live'[c] = IF c = free_head THEN n ELSE live[c]
      /\ \A c \in Held' : mem'[c] = IF c = free_head THEN w ELSE mem[c]
  <2>1. /\ Held' = (Held \ {b}) \union {free_head}
        /\ \A c \in Held' : live'[c] = IF c = free_head THEN n ELSE live[c]
    BY DEF Moves, Held
  <2> QED
    BY <1>0, <1>1, <1>2, <2>1, IdleFacts
<1>6. blocks' = [c \in (Held \ {b}) \union {free_head} |->
                   IF c = free_head THEN [n |-> n, w |-> w] ELSE blocks[c]]
  <2>1. blocks' = [c \in (Held \ {b}) \union {free_head} |-> [n |-> live'[c], w |-> mem'[c]]]
    BY <1>5 DEF blocks
  <2>2. \A c \in (Held \ {b}) \union {free_head} :
          [n |-> live'[c], w |-> mem'[c]] = IF c = free_head THEN [n |-> n, w |-> w] ELSE blocks[c]
    BY <1>5 DEF blocks
  <2> QED
    BY <2>1, <2>2
<1>7. b \in Blocks!live /\ Blocks!Move(b)
  BY <1>0, <1>1, <1>2, <1>3, <1>4, <1>6, RefusesAlike, IdleSizesFacts, SizesFacts
     DEF Blocks!Move, Blocks!Answer
<1> QED
  BY <1>7 DEF Blocks!Next

LEMMA IsWrite ==
  ASSUME PoolInv, NEW b \in Held, NEW w \in Word, write(b, w)
  PROVE  Blocks!Next
<1>0. pc = "idle" /\ IndInv /\ Held \subseteq Block /\ mem \in [Block -> Word]
  BY IdleFacts DEF write, PoolInv
<1>1. sizes' = sizes /\ ret' = ret /\ Held' = Held /\ live' = live /\ mem' = [mem EXCEPT ![b] = w]
  BY DEF write, sizes, Held, fields
<1>2. blocks' = [blocks EXCEPT ![b].w = w]
  BY <1>0, <1>1 DEF blocks
<1>3. b \in Blocks!live /\ Blocks!Write(b)
  BY <1>0, <1>1, <1>2, IdleSizesFacts, SizesFacts DEF Blocks!Write
<1> QED
  BY <1>3 DEF Blocks!Next

\* The calls of a client.
LEMMA ServesRefine ==
  ASSUME PoolInv, SizesRound, Serves
  PROVE  Blocks!Next
<1>0. pc = "idle" /\ pc # "none"
  BY ServesIdle
<1>1. CASE \E n \in Sizes : pool_alloc(n)
  <2>1. PICK n \in Sizes : pool_alloc(n)
    BY <1>1
  <2>2. n \in Nat
    BY SizesAssumption
  <2>3. CASE refuse(n)
    BY <2>2, <2>3, IsRefuse DEF refuse
  <2>4. CASE Hand(n, mem[free_head])
    <3>1. mem[free_head] \in Word
      BY <1>0, <2>4, HeadIsFree, IdleFacts DEF Hand, Refuses, PoolInv
    <3> QED
      BY <2>2, <2>4, <3>1, IsGive
  <2> QED
    BY <2>1, <2>3, <2>4 DEF pool_alloc
<1>2. CASE \E m \in Nums, n \in Sizes : pool_calloc(m, n)
  <2>1. PICK m \in Nums, n \in Sizes : pool_calloc(m, n)
    BY <1>2
  <2> DEFINE total == m * n
  <2>2. total \in Nat /\ USIZE \in Nat
    BY SizesAssumption
  <2>3. CASE total >= USIZE
    <3>1. block_size < USIZE /\ block_size \in Nat
      BY <1>0, SizeFacts, IdleFacts DEF PoolInv
    <3>2. Refuses(total)
      BY <2>2, <2>3, <3>1 DEF Refuses
    <3>3. Answer(total, Null) /\ UNCHANGED <<fields, mem, heap, pc, i, live, asked>>
      BY <2>1, <2>3 DEF pool_calloc
    <3> QED
      BY <1>0, <3>2, <3>3, IsRefuse
  <2>4. CASE ~(total >= USIZE)
    <3>1. refuse(total) \/ \E w \in Word : (total >= WORD => w = Null) /\ Hand(total, w)
      BY <2>1, <2>4 DEF pool_calloc
    <3>2. CASE refuse(total)
      BY <3>2, IsRefuse DEF refuse
    <3>3. CASE \E w \in Word : (total >= WORD => w = Null) /\ Hand(total, w)
      BY <2>2, <3>3, IsGive
    <3> QED
      BY <3>1, <3>2, <3>3
  <2> QED
    BY <2>3, <2>4
<1>3. CASE \E b \in Held : pool_dealloc(b) \/ (\E w \in Word : write(b, w))
  BY <1>3, IsTake, IsWrite
<1>4. CASE \E b \in Held, n \in Sizes : nx_al_realloc(b, n)
  <2>1. PICK b \in Held, n \in Sizes : nx_al_realloc(b, n)
    BY <1>4
  <2>2. n \in Nat
    BY SizesAssumption
  <2>3. pool_dealloc(b) \/ refuse(n) \/ Moves(b, n)
    BY <2>1 DEF nx_al_realloc
  <2> QED
    BY <2>2, <2>3, IsTake, IsRefuse, IsMove DEF refuse
<1> QED
  BY <1>1, <1>2, <1>3, <1>4 DEF Serves

LEMMA EmptyBlocks ==
  ASSUME Held = {} PROVE blocks = Blocks!NoneHeld
BY DEF blocks, Blocks!NoneHeld

LEMMA EmptyBlocksNext ==
  ASSUME Held' = {} PROVE blocks' = Blocks!NoneHeld
BY DEF blocks, Blocks!NoneHeld

\* The constructor, up to the moment its pool can be used, and the loop that
\* builds the list.
LEMMA MakingRefines ==
  ASSUME PoolInv, PoolInv',
         \/ \E s \in BlockSizes, c \in BlockCounts : pool_new(s, c)
         \/ new_overflows \/ new_data_fails \/ new_al_fails \/ new_data
         \/ build_links \/ build_ends
  PROVE  UNCHANGED Blocks!blockVars
<1>1. /\ pc # "idle" /\ Held = {} /\ Held' = {}
  <2>1. pc # "idle" /\ live' \in {live, NoneHeld}
    BY DEF pool_new, new_overflows, new_data_fails, new_al_fails, new_data, build_links,
           build_ends, GiveUp
  <2> QED
    BY <2>1 DEF PoolInv, IndInv, PlaceOK, Held, NoneHeld
<1>2. blocks' = blocks
  BY <1>1, EmptyBlocks, EmptyBlocksNext
<1>3. ret' = ret
  <2>1. CASE new_overflows \/ new_data_fails \/ new_al_fails
    <3>1. ~NewIsOver
      BY <2>1 DEF new_overflows, new_data_fails, new_al_fails, NewIsOver
    <3>2. ret' = [n |-> 0, p |-> Null]
      BY <2>1 DEF new_overflows, new_data_fails, new_al_fails, GiveUp, Answer
    <3> QED
      BY <3>1, <3>2 DEF PoolInv, SizeOK
  <2>2. CASE \/ \E s \in BlockSizes, c \in BlockCounts : pool_new(s, c)
             \/ new_data \/ build_links \/ build_ends
    BY <2>2 DEF pool_new, new_data, build_links, build_ends
  <2> QED
    BY <2>1, <2>2
<1>4. sizes' = sizes
  <2>1. CASE \/ \E s \in BlockSizes, c \in BlockCounts : pool_new(s, c)
             \/ new_overflows \/ new_data_fails \/ new_al_fails
    BY <2>1 DEF pool_new, new_overflows, new_data_fails, new_al_fails, GiveUp, sizes
  <2>2. CASE new_data
    <3>1. "al" \notin heap'
      BY <2>2 DEF new_data, PoolInv, IndInv, PlaceOK
    <3> QED
      BY <2>2, <3>1 DEF new_data, sizes
  <2>3. CASE build_links \/ build_ends
    BY <2>3 DEF build_links, build_ends, fields, sizes
  <2> QED
    BY <2>1, <2>2, <2>3
<1> QED
  BY <1>2, <1>3, <1>4 DEF Blocks!blockVars

LEMMA OpenRefines ==
  ASSUME PoolInv, PoolInv', SizesRound, new_al PROVE Blocks!Next
<1>1. pc = "al" /\ pc' = "idle" /\ UNCHANGED <<block_size, block_count, asked, live>>
  BY DEF new_al, fields
<1>2. sizes = Blocks!NoPool /\ sizes' = [asked |-> asked, size |-> block_size, count |-> block_count]
  BY <1>1 DEF sizes, Blocks!NoPool
<1>3. blocks' = blocks
  <2>1. Held = {} /\ Held' = {}
    BY <1>1 DEF PoolInv, IndInv, PlaceOK, Held
  <2> QED
    BY <2>1, EmptyBlocks, EmptyBlocksNext
<1>4. /\ block_size \in (IF asked < WORD THEN WORD ELSE asked)
                          .. (IF asked < WORD THEN WORD ELSE asked) + ALIGN - 1
      /\ block_size % ALIGN = 0 /\ block_count \in Nat \ {0}
  BY <1>1, SizeFacts
<1>5. ret' = [n |-> 0, p |-> Null]
  BY DEF new_al, Answer
<1>6. Blocks!Open
  BY <1>2, <1>3, <1>4, <1>5 DEF Blocks!Open, Blocks!Answer
<1> QED
  BY <1>6 DEF Blocks!Next

LEMMA EndRefines ==
  ASSUME PoolInv, PoolInv', drop \/ reset PROVE Blocks!Next
<1>1. pc = "idle" /\ sizes # Blocks!NoPool
  BY IdleSizesFacts DEF drop, reset
<1>2. ret' = [n |-> 0, p |-> Null]
  BY DEF drop, reset, GiveUp, Answer
<1>3. blocks' = Blocks!NoneHeld
  <2>1. Held' = {}
    BY DEF drop, reset, GiveUp, Held, NoneHeld
  <2> QED
    BY <2>1, EmptyBlocksNext
<1>4. CASE drop
  <2>1. sizes' = Blocks!NoPool
    BY <1>4 DEF drop, GiveUp, sizes, Blocks!NoPool
  <2>2. Blocks!Close
    BY <1>1, <1>2, <1>3, <2>1 DEF Blocks!Close, Blocks!Answer
  <2> QED
    BY <2>2 DEF Blocks!Next
<1>5. CASE reset
  <2>1. "al" \in heap
    BY <1>1 DEF PoolInv, IndInv, PlaceOK
  <2>2. sizes' = sizes
    BY <1>5, <2>1 DEF reset, sizes
  <2>3. Blocks!Reset
    BY <1>1, <1>2, <1>3, <2>2 DEF Blocks!Reset, Blocks!Answer
  <2> QED
    BY <2>3 DEF Blocks!Next
<1> QED
  BY <1>4, <1>5

\* The pool, with the fallbacks of alloc.c, implements NxBlocks for any number
\* of blocks and any word a client writes into them: no block is handed out
\* twice, contents last until they are overwritten or given back, and a request
\* is refused only when it is too large or no block is free.
THEOREM ImplementsBlocksHolds ==
  ASSUME SizesRound
  PROVE  Spec => ImplementsBlocks
<1>1. Init => Blocks!Init
  BY EmptyBlocks DEF Init, Blocks!Init, Blocks!NoPool, sizes, Held, NoneHeld
<1>2. PoolInv /\ PoolInv' /\ [Next]_vars => [Blocks!Next]_(Blocks!blockVars)
  <2> SUFFICES ASSUME PoolInv, PoolInv', [Next]_vars
               PROVE  [Blocks!Next]_(Blocks!blockVars)
    OBVIOUS
  <2>1. CASE UNCHANGED vars
    BY <2>1 DEF vars, sizes, blocks, Held, Blocks!blockVars
  <2>2. CASE \/ \E s \in BlockSizes, c \in BlockCounts : pool_new(s, c)
             \/ new_overflows \/ new_data_fails \/ new_al_fails \/ new_data
             \/ build_links \/ build_ends
    BY <2>2, MakingRefines
  <2>3. CASE new_al
    BY <2>3, OpenRefines
  <2>4. CASE drop \/ reset
    BY <2>4, EndRefines
  <2>5. CASE Serves
    BY <2>5, ServesRefine
  <2> QED
    BY <2>1, <2>2, <2>3, <2>4, <2>5 DEF Next, Serves
<1> QED
  BY <1>1, <1>2, PoolInvHolds, PTL DEF Spec, ImplementsBlocks, Blocks!Spec

\* alloc_pool.h: a block holds at least what was asked for, unless rounding up
\* wraps.
THEOREM UsableSizeHolds ==
  ASSUME SizesRound
  PROVE  Spec => []UsableSize
<1>1. PoolInv => UsableSize
  BY SizeFacts DEF UsableSize
<1> QED
  BY <1>1, PoolInvHolds, PTL
=============================================================================
