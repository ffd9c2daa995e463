--------------------------------- MODULE NxLib ---------------------------------
(***************************************************************************)
(* A client of the functions that keep no state: it builds a span, has an  *)
(* algorithm change it, and goes on with the result.  Each algorithm is    *)
(* one step; the result stays visible, with the tags that tell where each  *)
(* element came from, until the client takes it over.  Between calls the   *)
(* span is the input of the searches, comparisons and views, and the empty *)
(* span that of the functions on words.                                    *)
(***************************************************************************)
EXTENDS NxAlgo, NxWords

CONSTANTS
  Keys,       \* the keys the client puts into spans
  LEN_MAX,    \* bound: the longest span
  Widths,     \* the widths of words for bit.c and rand.c: powers of two
  STATE_MAX   \* bound: the widest words of which TLC tries all states of the generator

ASSUME KeysAssumption ==
  /\ Keys \subseteq 0 .. WORDS - 1 /\ LEN_MAX \in Nat
  /\ Widths \subseteq Nat /\ \A w \in Widths : \E k \in 0 .. w : w = Power[k]

VARIABLES
  s,      \* the span; between calls, each element's tag is its position
  call    \* the last call and its result, until the client takes it over

vars == <<s, call>>

Idle  == call.op = "none"
End   == Len(s) - 1
text  == [i \in DOMAIN s |-> s[i].key]

\* Pointers to the client's own memory, and into the span.
Own(k)    == [at |-> -1, elem |-> [key |-> k, tag |-> 0]]
Inside    == { [at |-> i, elem |-> [key |-> 0, tag |-> 0]] : i \in 0 .. End }
Pointers  == { Own(k) : k \in Keys } \union Inside

Init == s = <<>> /\ call = [op |-> "none"]

Push(k) == Len(s) < LEN_MAX /\ s' = Append(s, [key |-> k, tag |-> Len(s) + 1]) /\ UNCHANGED call

Answer(op, arg, to, res) ==
  call' = [op |-> op, arg |-> arg, to |-> to, res |-> res] /\ UNCHANGED s

Rearranged(op, arg, to) == Answer(op, arg, to, Len(s))
Reduced(op, arg, a)     == Answer(op, arg, a.s, a.out)

Sorts ==
  \/ \E u \in sort(s) : Rearranged("sort", <<>>, u)
  \/ Rearranged("sort_stable", <<>>, sort_stable(s))
  \/ \E k \in 0 .. Len(s) : \E u \in partial_sort(s, k) : Rearranged("partial_sort", <<k>>, u)
  \/ \E n \in 0 .. End : Rearranged("nth_element", <<n>>, nth_element(s, n))
  \/ \E mid \in 0 .. Len(s) :
       /\ is_sorted(sub(s, 0, mid)) /\ is_sorted(sub(s, mid, Len(s) - mid))
       /\ Rearranged("inplace_merge", <<mid>>, inplace_merge(s, mid))

Moves ==
  \/ Rearranged("reverse", <<>>, reverse(s))
  \/ \E mid \in 0 .. Len(s) : Rearranged("rotate", <<mid>>, rotate(s, mid))
  \/ \E i, j \in 0 .. End : Rearranged("swap", <<i, j>>, swap(s, i, j))
  \/ \E to, from, n \in 0 .. End :
       to + n <= Len(s) /\ from + n <= Len(s) /\ Rearranged("copy", <<to, from, n>>, copy(s, to, from, n))
  \/ \E p \in Pointers : Rearranged("fill", <<p>>, fill(s, p))
  \/ \E k \in Keys : Rearranged("transform", <<k>>, transform(s, [x \in 0 .. WORDS - 1 |-> IF x = k THEN 0 ELSE k]))
  \/ \E u \in shuffles(s) : Rearranged("shuffle", <<>>, u)

Reduces ==
  \/ \E p \in Pointers : Reduced("remove", <<p>>, remove(s, p))
  \/ \E old, new \in Pointers : Reduced("replace", <<old, new>>, replace(s, old, new))
  \/ is_sorted(s) /\ Reduced("unique", <<>>, unique(s))
  \/ \E k \in Keys :
       \/ Reduced("remove_if", <<k>>, remove_if(s, {k}))
       \/ Reduced("copy_if", <<k>>, copy_if(s, {k}))
       \/ \E p \in Pointers : Reduced("replace_if", <<k, p>>, replace_if(s, {k}, p))

\* The count that replace returns is not a length.
Taken  == IF call.op \in {"replace", "replace_if"} THEN Len(s) ELSE call.res
Return ==
  /\ s' = [i \in 1 .. Taken |-> [key |-> call.to[i].key, tag |-> i]]
  /\ call' = [op |-> "none"]

Next == (Idle /\ \E k \in Keys : Push(k)) \/ (Idle /\ (Sorts \/ Moves \/ Reduces)) \/ (~Idle /\ Return)

Spec == Init /\ [][Next]_vars

-----------------------------------------------------------------------------
(* Correctness: algorithms.                                                *)

Permuted == /\ Len(call.to) = Len(s) /\ { call.to[i].tag : i \in DOMAIN s } = DOMAIN s
            /\ \A i \in DOMAIN s : call.to[i] = s[call.to[i].tag]

\* sort.c and merge.c: no element is lost or doubled, whatever the widths of
\* the last runs; the stable sort and the merge keep equal elements in order,
\* also NaN and the two zeros; nth_element has put each side where it belongs
\* when its loop ends, so that sorting what is left of k is enough.
SortsAndSelects ==
  LET Ordered(i, j) == cmp(call.to[i], call.to[j]) <= 0 IN
  /\ call.op \in {"sort", "sort_stable", "partial_sort", "nth_element", "inplace_merge"} => Permuted
  /\ call.op \in {"sort", "sort_stable", "inplace_merge"} =>
       \A i, j \in DOMAIN s : i < j => Ordered(i, j)
  /\ call.op \in {"sort_stable", "inplace_merge"} =>
       \A i, j \in DOMAIN s : i < j /\ Ordered(j, i) => call.to[i].tag < call.to[j].tag
  /\ call.op = "partial_sort" =>
       \A i \in 1 .. call.arg[1], j \in DOMAIN s : i < j => Ordered(i, j)
  /\ call.op = "nth_element" =>
       LET n == call.arg[1] + 1
       IN \A i \in 1 .. n, j \in n .. Len(s) : Ordered(i, n) /\ Ordered(n, j)

\* search.c, minmax.c: on a sorted span binary search finds what the linear
\* one finds, and the bounds enclose exactly the equal elements.
SearchesAgree ==
  Idle => \A k \in Keys \union {0} :
    LET key   == Own(k).elem
        Equal == { x \in Floats : eq_fn(x, k) } IN
    /\ is_sorted(s) =>
         /\ bsearch(s, key) = find(s, key)
         /\ upper_bound(s, key) - lower_bound(s, key) = count(s, key)
         /\ lower_bound(s, key) = Cardinality({ i \in DOMAIN s : cmp(s[i], key) < 0 })
    /\ find_if(s, Equal) = find(s, key)
    /\ count_if(s, Equal) = count(s, key)
    /\ s # <<>> =>
         LET lo == minmax_element(s)[1]
             hi == minmax_element(s)[2]
         IN \A i \in 0 .. End :
              /\ cmp(get(s, lo), get(s, i)) <= (IF i < lo THEN -1 ELSE 0)
              /\ cmp(get(s, hi), get(s, i)) >= (IF i < hi THEN 1 ELSE 0)

\* The elements of s that Test holds of remain, in their order.
Remaining == sub(call.to, 0, call.res)
Keeps(Test(_)) ==
  /\ ToSet(Remaining) = { x \in ToSet(s) : Test(x) }
  /\ \A i, j \in DOMAIN Remaining : i < j => Remaining[i].tag < Remaining[j].tag

\* A key inside the span is read in every step of the loop.  remove is right
\* if no element is moved onto it, replace if nothing after it is concerned.
SafeKey(p) ==
  p.at = -1 \/ Cardinality({ i \in 0 .. End : cmp(get(s, i), Deref(s, p)) # 0 }) <= p.at
SafeOld(old, new) ==
  old.at = -1 \/ \A i \in old.at + 1 .. End :
    cmp(get(s, i), Deref(s, old)) # 0 /\ cmp(get(s, i), Deref(s, new)) # 0

\* transform.c: each algorithm moves, keeps or overwrites exactly the elements
\* it should, in place, and returns how many there are; also when the client
\* points into the span that is being changed, as far as that is safe.
Rearranges ==
  /\ call.op = "reverse" => call.to = Reverse(s)
  /\ call.op = "rotate" => call.to = SubSeq(s, call.arg[1] + 1, Len(s)) \o SubSeq(s, 1, call.arg[1])
  /\ call.op \in {"shuffle", "swap"} => Permuted
  /\ call.op = "fill" => \A i \in DOMAIN s : call.to[i] = Deref(s, call.arg[1])
  /\ call.op = "transform" => \A i \in DOMAIN s : call.to[i].key = IF s[i].key = call.arg[1] THEN 0 ELSE call.arg[1]
  /\ call.op = "remove" /\ SafeKey(call.arg[1]) =>
       Keeps(LAMBDA x : cmp(x, Deref(s, call.arg[1])) # 0)
  /\ call.op = "replace" /\ SafeOld(call.arg[1], call.arg[2]) =>
       /\ call.res = count(s, Deref(s, call.arg[1]))
       /\ \A i \in DOMAIN s :
            call.to[i] = IF cmp(s[i], Deref(s, call.arg[1])) = 0 THEN Deref(s, call.arg[2]) ELSE s[i]
  /\ call.op = "unique" =>
       Keeps(LAMBDA x : \A i \in 1 .. x.tag - 1 : cmp(s[i], x) # 0)
  /\ call.op = "remove_if" => Keeps(LAMBDA x : x.key # call.arg[1])
  /\ call.op = "copy_if" => Keeps(LAMBDA x : x.key = call.arg[1])
  /\ call.op = "replace_if" =>
       \A i \in DOMAIN s : cmp(call.to[i], IF s[i].key = call.arg[1] THEN Deref(s, call.arg[2]) ELSE s[i]) = 0

-----------------------------------------------------------------------------
(* Correctness: words.  These hold whatever the span; TLC evaluates them   *)
(* once, on the empty one.                                                 *)

AtFirst == Idle /\ s = <<>>

\* sat.c, ckd.c, abs.c, sign.c, bounds.c: saturating arithmetic is the exact
\* one, clamped, and the checked one says when it is not exact (NxWords).
SatExact == AtFirst => ArithmeticExact

\* hash.c, rand.c: neither mixing nor combining with a given hash maps two
\* words to one, and numbers with equal hashes are equal; strings that differ
\* in one character have different hashes; no seed gives a state of all zeros.
Hash(v) == hash_bytes(BITS, [i \in DOMAIN v |-> Word(BITS, v[i])])
MixingExact ==
  /\ AtFirst =>
       /\ \A v, u \in SUBSET Pos(BITS) : v # u =>
            /\ hash_mix(BITS, v) # hash_mix(BITS, u)
            /\ \A h \in SUBSET Pos(BITS) : hash_combine(BITS, h, v) # hash_combine(BITS, h, u)
       /\ \A a, b \in Floats : hash_fp(a) = hash_fp(b) => eq_fn(a, b) \/ isnan(a) \/ isnan(b)
       /\ \A w \in Widths : \A seed \in SUBSET Pos(w) : w > 2 => \E k \in 0 .. 3 : rng_new(w, seed)[k] # {}
  /\ Idle => \A i \in DOMAIN text, k \in Keys : k # text[i] => Hash([text EXCEPT ![i] = k]) # Hash(text)

\* bit.c: rotations, reversals and fields, against positions and arithmetic.
BitsExact ==
  /\ MixingExact
  /\ AtFirst => \A w \in Widths : \A v \in SUBSET Pos(w) :
    /\ \A n \in 0 .. w - 1 : rotr(w, rotl(w, v, n), n) = v
                          /\ \A p \in Pos(w) : bit_test(v, p) = bit_test(rotl(w, v, n), (p + n) % w)
    /\ \A p \in Pos(w) : bit_test(bit_reverse(w, v), p) = bit_test(v, w - 1 - p)
    /\ \A b \in {2, 4} : w % b = 0 => \A p \in Pos(w) :
         bit_test(bswap(w, b, v), p) = bit_test(v, ((w \div b) - 1 - (p \div b)) * b + (p % b))
    /\ \A pos \in 0 .. w - 1 :
         /\ Value(w, bit_set(v, pos)) - Value(w, bit_clear(v, pos)) = Power[pos]
         /\ bit_test(bit_toggle(v, pos), pos) # bit_test(v, pos)
         /\ \A len \in 0 .. w - pos :
              LET field == bit_extract(w, v, pos, len) IN
              /\ Value(w, field) = (Value(w, v) \div Power[pos]) % Power[len]
              /\ bit_deposit(w, v, pos, len, field) = v
              /\ bit_extract(w, bit_deposit(w, {}, pos, len, v), pos, len) = v \cap bit_mask(w, len)

\* Equally many accepted words lead to each of these results.
Uniform(Results, Words, Result(_)) ==
  /\ { Result(x) : x \in Words } = Results
  /\ \A r, q \in Results : Cardinality({ x \in Words : Result(x) = r })
                         = Cardinality({ x \in Words : Result(x) = q })

\* From a state that is not all zeros the generator never gets there.
NeverZero(w) ==
  \A st \in [0 .. 3 -> SUBSET Pos(w)] :
    (\E k \in 0 .. 3 : st[k] # {}) => \E k \in 0 .. 3 : next(w, st).state[k] # {}

\* The draws from a range that spans less than half of the type are uniform over
\* it; from every wider one there is a draw whose sum overflows.
RangeDraws(lo, hi) ==
  IF hi - lo < Half
  THEN Uniform({ {r} : r \in lo .. hi }, Draws(hi - lo), LAMBDA x : int_range(lo, hi, x))
  ELSE \E x \in Draws(hi - lo) : int_range(lo, hi, x) = Ints

\* rand.c: the draws below a bound are uniform, and those from a range exactly as
\* long as it spans less than half of the type; a shuffle can have every outcome;
\* and the generator never gets stuck in the state of all zeros.
RandomUniform ==
  /\ AtFirst =>
       /\ \A hi \in 0 .. WORDS - 1 : Uniform(0 .. hi, Draws(hi), LAMBDA x : max_of(hi, x))
       /\ \A lo, hi \in Ints : lo <= hi => RangeDraws(lo, hi)
       /\ \A w \in Widths : w <= STATE_MAX => NeverZero(w)
  /\ Idle => { [i \in DOMAIN s |-> u[i].tag] : u \in shuffles(s) } = Bijection(DOMAIN s, DOMAIN s)

-----------------------------------------------------------------------------
(* Correctness: keys and views.                                            *)

\* cmp.c, hash.c: the comparison is a total preorder also with NaN and the two
\* zeros, equality is its zero, and equal numbers have equal hashes.
KeysConsistent ==
  \A a, b \in Floats :
    /\ cmp_fp(a, b) = -cmp_fp(b, a) /\ cmp_desc(a, b) = -cmp_fp(a, b)
    /\ eq_fn(a, b) => hash_fp(a) = hash_fp(b)
    /\ \A c \in Floats : cmp_fp(a, b) <= 0 /\ cmp_fp(b, c) <= 0 => cmp_fp(a, c) <= 0

\* str_view.c: the view of the span against each other one: the order agrees
\* with equality and with that of C strings, a match is where the needle
\* begins, and trimming takes all the space from the ends and nothing else.
ViewsConsistent ==
  LET Parts == { SubSeq(text, i, j) : i \in 1 .. Len(text) + 1, j \in 0 .. Len(text) }
      Other == Parts \union { Append(v, k) : v \in Parts, k \in Keys }
      Cstr(v) == Append(v, 0)
  IN /\ \A v \in Other :
          /\ view_eq(text, v) <=> view_cmp(text, v) = 0
          /\ view_cmp(text, v) = -view_cmp(v, text)
          /\ cmp_cstr(Cstr(text), Cstr(v)) = view_cmp(from_cstr(Cstr(text)), from_cstr(Cstr(v)))
          /\ LET at == find_sub(text, v) IN
               IF at = -1 THEN v \notin Parts
               ELSE /\ view_eq(view_sub(text, at, Len(v)), v)
                    /\ \A i \in 0 .. at - 1 : ~view_eq(view_sub(text, i, Len(v)), v)
          /\ starts_with(text, v) <=> view_eq(view_sub(text, 0, Len(v)), v)
          /\ ends_with(text, v) <=> starts_with(Reverse(text), Reverse(v))
     /\ trim(text) = trim_start(trim_end(text))
     /\ \A i \in { find_sub(text, trim(text)) } : i # -1 /\ \A k \in 1 .. i : text[k] \in Space

ComparesConsistently == (AtFirst => KeysConsistent) /\ (Idle => ViewsConsistent)
=============================================================================
