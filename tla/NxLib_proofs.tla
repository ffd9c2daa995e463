--------------------------- MODULE NxLib_proofs ----------------------------
(***************************************************************************)
(* Proofs about NxLib, for every set of keys and spans of every length:    *)
(* what the client sees of each algorithm; and that the arithmetic of      *)
(* src/numeric is exact for words of every width.                          *)
(***************************************************************************)
EXTENDS NxLib, NxAlgo_proofs

-----------------------------------------------------------------------------
(* The algorithms of src/algo, seen by the client.                         *)

LEMMA PermIsPermuted ==
  ASSUME Numbered(s), Perm(call.to, s)
  PROVE  Permuted
<1>1. PICK u \in Spans : u = s /\ DOMAIN u = 1 .. Len(u) /\ \A i \in DOMAIN u : u[i].tag = i
  BY Positions DEF Numbered
<1>2. PICK t \in Spans : t = call.to /\ Len(t) = Len(u) /\ DOMAIN t = DOMAIN u /\ ToSet(t) = ToSet(u)
  BY <1>1, Positions DEF Perm
<1>3. ASSUME NEW i \in DOMAIN u PROVE t[i].tag \in DOMAIN u /\ t[i] = u[t[i].tag]
  <2>1. t[i] \in ToSet(u)
    BY <1>2 DEF ToSet
  <2>2. PICK j \in DOMAIN u : t[i] = u[j]
    BY <2>1 DEF ToSet
  <2> QED
    BY <1>1, <2>2
<1>4. ASSUME NEW j \in DOMAIN u PROVE \E i \in DOMAIN u : t[i].tag = j
  <2>1. u[j] \in ToSet(t)
    BY <1>2 DEF ToSet
  <2>2. PICK i \in DOMAIN u : t[i] = u[j]
    BY <1>2, <2>1 DEF ToSet
  <2> QED
    BY <1>1, <2>2
<1>5. { t[i].tag : i \in DOMAIN u } = DOMAIN u
  BY <1>3, <1>4
<1>6. Len(call.to) = Len(s) /\ { call.to[i].tag : i \in DOMAIN s } = DOMAIN s
  BY <1>1, <1>2, <1>5
<1>7. \A i \in DOMAIN s : call.to[i] = s[call.to[i].tag]
  BY <1>1, <1>2, <1>3
<1> QED
  BY <1>6, <1>7 DEF Permuted

-----------------------------------------------------------------------------
(* The client's calls.                                                     *)

\* What a call has returned, by the algorithms above; the properties that are
\* checked follow from it.
Sorting(u, op, arg, to) ==
  /\ Perm(to, u)
  /\ \/ op = "sort" /\ is_sorted(to)
     \/ op \in {"sort_stable", "inplace_merge"} /\ Sorted(to)
     \/ /\ op = "partial_sort" /\ arg[1] \in 0 .. Len(u)
        /\ \A i \in 1 .. arg[1], j \in 1 .. Len(u) : i < j => rank(to[i].key) <= rank(to[j].key)
     \/ /\ op = "nth_element" /\ arg[1] \in 0 .. Len(u) - 1
        /\ Split(to, arg[1]) /\ Split(to, arg[1] + 1)

Moving(u, op, arg, to) ==
  /\ to \in Spans /\ Len(to) = Len(u)
  /\ \/ op = "reverse" /\ to = Reverse(u)
     \/ op = "rotate" /\ to = SubSeq(u, arg[1] + 1, Len(u)) \o SubSeq(u, 1, arg[1])
     \/ op \in {"shuffle", "swap"} /\ Perm(to, u)
     \/ op = "copy"
     \/ op = "fill" /\ \A k \in 1 .. Len(u) : to[k] = Deref(u, arg[1])
     \/ op = "transform" /\ \A k \in 1 .. Len(u) : to[k].key = IF u[k].key = arg[1] THEN 0 ELSE arg[1]

With(u, k)    == { i \in 0 .. Len(u) - 1 : u[i + 1].key \in {k} }
Without(u, k) == { i \in 0 .. Len(u) - 1 : u[i + 1].key \notin {k} }

Reducing(u, op, arg, to, res) ==
  /\ to \in Spans /\ Len(to) = Len(u) /\ res \in 0 .. Len(u)
  /\ \/ /\ op = "remove"
        /\ KeyStays(u, arg[1]) => Compact(u, Others(u, arg[1]), Len(u), to, res)
     \/ /\ op = "replace"
        /\ OldStays(u, arg[1], arg[2]) =>
             /\ Replaced(u, Equals(u, arg[1]), Len(u), to, Deref(u, arg[2]))
             /\ res = Cnt(Equals(u, arg[1]), Len(u))
     \/ op = "unique" /\ is_sorted(u) /\ Compact(u, Firsts(u), Len(u), to, res)
     \/ op = "remove_if" /\ Compact(u, Without(u, arg[1]), Len(u), to, res)
     \/ op = "copy_if" /\ Compact(u, With(u, arg[1]), Len(u), to, res)
     \/ op = "replace_if" /\ Fits(u, arg[2]) /\ Replaced(u, With(u, arg[1]), Len(u), to, Deref(u, arg[2]))

LibInv ==
  /\ Numbered(s)
  /\ \/ Idle
     \/ Sorting(s, call.op, call.arg, call.to) /\ call.res = Len(s)
     \/ Moving(s, call.op, call.arg, call.to) /\ call.res = Len(s)
     \/ Reducing(s, call.op, call.arg, call.to, call.res)

LEMMA SortingOps ==
  ASSUME NEW u, NEW op, NEW arg, NEW to, NEW res
  PROVE  /\ Sorting(u, op, arg, to) =>
              op \in {"sort", "sort_stable", "inplace_merge", "partial_sort", "nth_element"}
         /\ Moving(u, op, arg, to) =>
              op \in {"reverse", "rotate", "shuffle", "swap", "copy", "fill", "transform"}
         /\ Reducing(u, op, arg, to, res) =>
              op \in {"remove", "replace", "unique", "remove_if", "copy_if", "replace_if"}
BY DEF Sorting, Moving, Reducing

\* What the order of ranks says of the comparison.
LEMMA InOrder ==
  ASSUME NEW t \in Spans, NEW i \in 1 .. Len(t), NEW j \in 1 .. Len(t)
  PROVE  /\ cmp(t[i], t[j]) <= 0 <=> rank(t[i].key) <= rank(t[j].key)
         /\ Lex(t[i], t[j]) => cmp(t[i], t[j]) <= 0
         /\ Lex(t[i], t[j]) /\ cmp(t[j], t[i]) <= 0 => t[i].tag < t[j].tag
<1>1. PICK x \in Element, y \in Element : x = t[i] /\ y = t[j]
  BY Positions
<1>2. rank(x.key) \in Int /\ rank(y.key) \in Int
  BY ComparesElements
<1>3. cmp(x, y) <= 0 <=> rank(x.key) <= rank(y.key)
  BY <1>2, ComparesElements
<1>4. cmp(y, x) <= 0 <=> rank(y.key) <= rank(x.key)
  BY <1>2, ComparesElements
<1>5. x.tag \in Nat /\ y.tag \in Nat
  BY DEF Element
<1> QED
  BY <1>1, <1>2, <1>3, <1>4, <1>5 DEF Lex

LEMMA SortsRight ==
  ASSUME LibInv
  PROVE  SortsAndSelects
<1>1. PICK L \in Nat : L = Len(s) /\ DOMAIN s = 1 .. L /\ s \in Spans
  BY Positions DEF LibInv, Numbered
<1>2. SUFFICES ASSUME call.op \in {"sort", "sort_stable", "partial_sort", "nth_element", "inplace_merge"}
               PROVE  SortsAndSelects
  BY DEF SortsAndSelects
<1>3. Sorting(s, call.op, call.arg, call.to)
  BY <1>2, SortingOps DEF LibInv, Idle
<1>4. PICK t \in Spans : t = call.to /\ Perm(t, s) /\ Len(t) = L
  BY <1>1, <1>3 DEF Sorting, Perm
<1>5. Permuted
  BY <1>4, PermIsPermuted DEF LibInv
<1>6. ASSUME NEW i \in 1 .. L, NEW j \in 1 .. L
      PROVE  /\ cmp(t[i], t[j]) <= 0 <=> rank(t[i].key) <= rank(t[j].key)
             /\ Lex(t[i], t[j]) => cmp(t[i], t[j]) <= 0
             /\ Lex(t[i], t[j]) /\ cmp(t[j], t[i]) <= 0 => t[i].tag < t[j].tag
  BY <1>4, InOrder
<1>7. ASSUME call.op = "sort" PROVE SortsAndSelects
  <2>1. is_sorted(t)
    BY <1>3, <1>4, <1>7 DEF Sorting
  <2>2. ASSUME NEW i \in 1 .. L, NEW j \in 1 .. L, i < j PROVE cmp(t[i], t[j]) <= 0
    <3>1. i <= j
      BY <2>2
    <3>2. rank(t[i].key) <= rank(t[j].key)
      BY <1>4, <2>1, <3>1, OrderedByRank
    <3> QED
      BY <1>6, <3>2
  <2> QED
    BY <1>1, <1>4, <1>5, <1>7, <2>2 DEF SortsAndSelects
<1>8. ASSUME call.op \in {"sort_stable", "inplace_merge"} PROVE SortsAndSelects
  <2>1. Sorted(t)
    BY <1>3, <1>4, <1>8 DEF Sorting
  <2>2. ASSUME NEW i \in 1 .. L, NEW j \in 1 .. L, i < j
        PROVE  cmp(t[i], t[j]) <= 0 /\ (cmp(t[j], t[i]) <= 0 => t[i].tag < t[j].tag)
    <3>1. Lex(t[i], t[j])
      BY <1>4, <2>1, <2>2 DEF Sorted
    <3> QED
      BY <1>6, <3>1
  <2> QED
    BY <1>1, <1>4, <1>5, <1>8, <2>2 DEF SortsAndSelects
<1>9. ASSUME call.op = "partial_sort" PROVE SortsAndSelects
  <2>1. PICK k \in 0 .. L : k = call.arg[1] /\ \A i \in 1 .. k, j \in 1 .. L : i < j => rank(t[i].key) <= rank(t[j].key)
    BY <1>1, <1>3, <1>4, <1>9 DEF Sorting
  <2>2. ASSUME NEW i \in 1 .. k, NEW j \in 1 .. L, i < j PROVE cmp(t[i], t[j]) <= 0
    <3>1. i \in 1 .. L
      BY <1>1
    <3> QED
      BY <1>6, <2>1, <2>2, <3>1
  <2> QED
    BY <1>1, <1>4, <1>5, <1>9, <2>1, <2>2 DEF SortsAndSelects
<1>10. ASSUME call.op = "nth_element" PROVE SortsAndSelects
  <2>1. PICK n \in 0 .. L - 1 : n = call.arg[1] /\ Split(t, n) /\ Split(t, n + 1)
    BY <1>1, <1>3, <1>4, <1>10 DEF Sorting
  <2>2. n + 1 \in 1 .. L
    BY <1>1
  <2>3. ASSUME NEW k \in 1 .. L PROVE rank(t[k].key) \in Int
    BY <1>4, Positions, ComparesElements
  <2>4. ASSUME NEW i \in 1 .. n + 1, NEW j \in n + 1 .. L
        PROVE  cmp(t[i], t[n + 1]) <= 0 /\ cmp(t[n + 1], t[j]) <= 0
    <3>1. i \in 1 .. L /\ j \in 1 .. L
      BY <1>1
    <3>2. rank(t[i].key) <= rank(t[n + 1].key)
      <4>1. CASE i = n + 1
        BY <2>2, <2>3, <4>1
      <4>2. CASE i # n + 1
        <5>1. i \in 1 .. n /\ n + 1 \in n + 1 .. L
          BY <1>1, <4>2
        <5> QED
          BY <1>4, <2>1, <5>1 DEF Split
      <4> QED
        BY <4>1, <4>2
    <3>3. rank(t[n + 1].key) <= rank(t[j].key)
      <4>1. CASE j = n + 1
        BY <2>2, <2>3, <4>1
      <4>2. CASE j # n + 1
        <5>1. n + 1 \in 1 .. n + 1 /\ j \in n + 1 + 1 .. L
          BY <1>1, <4>2
        <5> QED
          BY <1>4, <2>1, <5>1 DEF Split
      <4> QED
        BY <4>1, <4>2
    <3> QED
      BY <1>6, <2>2, <3>1, <3>2, <3>3
  <2> QED
    BY <1>1, <1>4, <1>5, <1>10, <2>1, <2>4 DEF SortsAndSelects
<1> QED
  BY <1>2, <1>7, <1>8, <1>9, <1>10

\* The keys the client owns are elements, and zero is one.
LEMMA OwnKeys ==
  ASSUME NEW k \in Keys \union {0}
  PROVE  k \in Floats /\ Own(k).elem \in Element /\ Own(k).elem.key = k /\ Own(k).at = -1
<1>1. 0 \in Floats
  BY HalfPositive DEF Floats, WORDS
<1>2. k \in Floats
  BY <1>1, KeysAssumption DEF Floats
<1> QED
  BY <1>2 DEF Own, Element

LEMMA PointersFit ==
  ASSUME s \in Spans, NEW p \in Pointers
  PROVE  Fits(s, p)
<1>1. Len(s) \in Nat
  BY Positions
<1>2. CASE p \in { Own(k) : k \in Keys }
  BY <1>2, OwnKeys DEF Fits
<1>3. CASE p \in Inside
  <2>1. PICK i \in 0 .. End : p = [at |-> i, elem |-> [key |-> 0, tag |-> 0]]
    BY <1>3 DEF Inside
  <2>2. 0 \in Floats
    BY OwnKeys
  <2> QED
    BY <1>1, <2>1, <2>2 DEF Fits, End, Element
<1> QED
  BY <1>2, <1>3 DEF Pointers

LEMMA SearchesRight ==
  ASSUME s \in Spans
  PROVE  SearchesAgree
<1>1. SUFFICES ASSUME NEW k \in Keys \union {0}
               PROVE  LET key   == Own(k).elem
                          Equal == { x \in Floats : eq_fn(x, k) } IN
                      /\ is_sorted(s) =>
                           /\ bsearch(s, key) = find(s, key)
                           /\ upper_bound(s, key) - lower_bound(s, key) = count(s, key)
                           /\ lower_bound(s, key) = Cardinality({ i \in DOMAIN s : cmp(s[i], key) < 0 })
                      /\ find_if(s, Equal) = find(s, key)
                      /\ count_if(s, Equal) = count(s, key)
                      /\ s # <<>> =>
                           LET lo == minmax_element(s)[1]
                               hi == minmax_element(s)[2]
                           IN \A i \in 0 .. End :
                                /\ cmp(get(s, lo), get(s, i)) <= (IF i < lo THEN -1 ELSE 0)
                                /\ cmp(get(s, hi), get(s, i)) >= (IF i < hi THEN 1 ELSE 0)
  BY DEF SearchesAgree
<1>2. PICK key \in Element : key = Own(k).elem /\ key.key = k
  BY OwnKeys
<1>3. PICK Equal : Equal = { x \in Floats : eq_fn(x, k) }
  OBVIOUS
<1>4. is_sorted(s) =>
        /\ bsearch(s, key) = find(s, key)
        /\ upper_bound(s, key) - lower_bound(s, key) = count(s, key)
        /\ lower_bound(s, key) = Cardinality({ i \in DOMAIN s : cmp(s[i], key) < 0 })
  BY Searches DEF Spans
<1>5. ASSUME NEW i \in 0 .. Len(s) - 1 PROVE get(s, i).key \in Equal <=> cmp(get(s, i), key) = 0
  <2>1. get(s, i).key \in Floats
    BY Positions DEF Element
  <2> QED
    BY <1>2, <1>3, <2>1 DEF eq_fn, cmp
<1>6. { i \in 0 .. Len(s) - 1 : get(s, i).key \in Equal } = { i \in 0 .. Len(s) - 1 : cmp(get(s, i), key) = 0 }
  BY <1>5
<1>7. find_if(s, Equal) = find(s, key)
  BY <1>6 DEF find_if, find
<1>8. count_if(s, Equal) = count(s, key)
  BY <1>6 DEF count_if, count
<1>9. ASSUME s # <<>>, NEW i \in 0 .. End
      PROVE  /\ cmp(get(s, min_element(s)), get(s, i)) <= (IF i < min_element(s) THEN -1 ELSE 0)
             /\ cmp(get(s, max_element(s)), get(s, i)) >= (IF i < max_element(s) THEN 1 ELSE 0)
  <2>1. i \in 0 .. Len(s) - 1 /\ s \in Seq(Element)
    BY DEF End, Spans
  <2>2. cmp(get(s, min_element(s)), get(s, i)) <= (IF i < min_element(s) THEN -1 ELSE 0)
    BY <1>9, <2>1, Minimum
  <2>3. cmp(get(s, max_element(s)), get(s, i)) >= (IF i < max_element(s) THEN 1 ELSE 0)
    BY <1>9, <2>1, Maximum
  <2> QED
    BY <2>2, <2>3
<1>10. minmax_element(s)[1] = min_element(s) /\ minmax_element(s)[2] = max_element(s)
  BY DEF minmax_element
<1> QED
  BY <1>2, <1>3, <1>4, <1>7, <1>8, <1>9, <1>10

\* The elements that such a loop has kept.
LEMMA WhatIsKept ==
  ASSUME NEW u, Numbered(u), NEW P, NEW t \in Spans, Len(t) = Len(u), NEW o \in 0 .. Len(u),
         Compact(u, P, Len(u), t, o)
  PROVE  /\ ToSet(sub(t, 0, o)) = { x \in ToSet(u) : x.tag - 1 \in P }
         /\ \A i, j \in DOMAIN sub(t, 0, o) : i < j => sub(t, 0, o)[i].tag < sub(t, 0, o)[j].tag
<1>1. PICK L \in Nat : L = Len(u) /\ u \in Spans /\ DOMAIN u = 1 .. L /\ \A i \in 1 .. L : u[i].tag = i
  BY Positions DEF Numbered
<1>2. PICK r : r = sub(t, 0, o)
  OBVIOUS
<1>3. r \in Spans /\ Len(r) = o /\ \A i \in 1 .. o : r[i] = t[i]
  <2>1. /\ sub(t, 0, o) \in Spans /\ Len(sub(t, 0, o)) = o
        /\ \A i \in 1 .. o : sub(t, 0, o)[i] = t[0 + i]
    <3>1. 0 \in Nat /\ o \in Nat /\ 0 + o <= Len(t)
      BY <1>1
    <3> QED
      BY <3>1, SubSpan
  <2>2. \A i \in 1 .. o : 0 + i = i
    OBVIOUS
  <2> QED
    BY <1>2, <2>1, <2>2
<1>4. Gathered(u, P, L, t, o) /\ Rising(t, o)
  BY <1>1 DEF Compact
<1>5. ASSUME NEW x, x \in ToSet(r) PROVE x \in ToSet(u) /\ x.tag - 1 \in P
  <2>1. PICK k \in 1 .. o : x = t[k]
    BY <1>3, <1>5, Members
  <2>2. PICK m \in 1 .. L : m - 1 \in P /\ t[k] = u[m]
    BY <1>4 DEF Gathered
  <2> QED
    BY <1>1, <2>1, <2>2, Members
<1>6. ASSUME NEW x, x \in ToSet(u), x.tag - 1 \in P PROVE x \in ToSet(r)
  <2>1. PICK m \in 1 .. L : x = u[m]
    BY <1>1, <1>6, Members
  <2>2. m - 1 \in P
    BY <1>1, <1>6, <2>1
  <2>3. PICK k \in 1 .. o : t[k] = u[m]
    BY <1>4, <2>2 DEF Gathered
  <2> QED
    BY <1>3, <2>1, <2>3, Members
<1>7. DOMAIN r = 1 .. o
  BY <1>3, Positions
<1>8. \A i, j \in DOMAIN r : i < j => r[i].tag < r[j].tag
  BY <1>3, <1>4, <1>7 DEF Rising
<1>9. ToSet(r) = { x \in ToSet(u) : x.tag - 1 \in P }
  BY <1>5, <1>6
<1> QED
  BY <1>2, <1>8, <1>9

\* An element of a numbered span is found at its tag.
LEMMA AtItsTag ==
  ASSUME NEW u, Numbered(u), NEW x \in ToSet(u)
  PROVE  x \in Element /\ x.tag \in 1 .. Len(u) /\ x = u[x.tag] /\ x.tag - 1 \in 0 .. Len(u) - 1
<1>1. u \in Spans /\ DOMAIN u = 1 .. Len(u) /\ Len(u) \in Nat
  BY Positions DEF Numbered
<1>2. PICK m \in 1 .. Len(u) : x = u[m]
  BY <1>1, Members
<1>3. x.tag = m
  BY <1>1, <1>2 DEF Numbered
<1>4. x \in Element
  BY <1>1, <1>2, Positions
<1> QED
  BY <1>1, <1>2, <1>3, <1>4

\* The elements of call.to that remain are those of s at the positions in P.
Remains(P) ==
  /\ ToSet(Remaining) = { x \in ToSet(s) : x.tag - 1 \in P }
  /\ \A i, j \in DOMAIN Remaining : i < j => Remaining[i].tag < Remaining[j].tag

LEMMA ReducedRemains ==
  ASSUME Numbered(s), NEW P, call.to \in Spans, Len(call.to) = Len(s), call.res \in 0 .. Len(s),
         Compact(s, P, Len(s), call.to, call.res)
  PROVE  Remains(P)
<1>1. /\ ToSet(sub(call.to, 0, call.res)) = { x \in ToSet(s) : x.tag - 1 \in P }
      /\ \A i, j \in DOMAIN sub(call.to, 0, call.res) : i < j =>
           sub(call.to, 0, call.res)[i].tag < sub(call.to, 0, call.res)[j].tag
  BY WhatIsKept
<1> QED
  BY <1>1 DEF Remains, Remaining

LEMMA RemoveRight ==
  ASSUME Numbered(s), call.op = "remove", Reducing(s, call.op, call.arg, call.to, call.res), SafeKey(call.arg[1])
  PROVE  Keeps(LAMBDA x : cmp(x, Deref(s, call.arg[1])) # 0)
<1>1. PICK p : p = call.arg[1]
  OBVIOUS
<1>2. Cnt(Others(s, p), Len(s)) = Cardinality({ i \in 0 .. End : cmp(get(s, i), Deref(s, p)) # 0 })
  <2>1. { i \in 0 .. Len(s) - 1 : i \in Others(s, p) } = { i \in 0 .. End : cmp(get(s, i), Deref(s, p)) # 0 }
    BY DEF Others, End
  <2> QED
    BY <2>1 DEF Cnt
<1>3. KeyStays(s, p)
  BY <1>1, <1>2 DEF KeyStays, SafeKey
<1>4. Remains(Others(s, p))
  BY <1>1, <1>3, ReducedRemains DEF Reducing
<1>5. ASSUME NEW x \in ToSet(s) PROVE x.tag - 1 \in Others(s, p) <=> cmp(x, Deref(s, p)) # 0
  <2>1. x.tag - 1 \in 0 .. Len(s) - 1 /\ x = s[x.tag] /\ x.tag \in Nat
    BY AtItsTag
  <2>2. get(s, x.tag - 1) = x
    <3>1. (x.tag - 1) + 1 = x.tag
      BY <2>1
    <3> QED
      BY <2>1, <3>1 DEF get
  <2> QED
    BY <2>1, <2>2 DEF Others
<1>6. { x \in ToSet(s) : x.tag - 1 \in Others(s, p) } = { x \in ToSet(s) : cmp(x, Deref(s, p)) # 0 }
  BY <1>5
<1> QED
  BY <1>1, <1>4, <1>6 DEF Keeps, Remains

LEMMA RemoveIfRight ==
  ASSUME Numbered(s), call.op = "remove_if", Reducing(s, call.op, call.arg, call.to, call.res)
  PROVE  Keeps(LAMBDA x : x.key # call.arg[1])
<1>1. PICK k : k = call.arg[1]
  OBVIOUS
<1>2. Remains(Without(s, k))
  BY <1>1, ReducedRemains DEF Reducing
<1>3. ASSUME NEW x \in ToSet(s) PROVE x.tag - 1 \in Without(s, k) <=> x.key # k
  <2>1. x.tag - 1 \in 0 .. Len(s) - 1 /\ x = s[x.tag] /\ x.tag \in Nat
    BY AtItsTag
  <2>2. (x.tag - 1) + 1 = x.tag
    BY <2>1
  <2> QED
    BY <2>1, <2>2 DEF Without
<1>4. { x \in ToSet(s) : x.tag - 1 \in Without(s, k) } = { x \in ToSet(s) : x.key # k }
  BY <1>3
<1> QED
  BY <1>1, <1>2, <1>4 DEF Keeps, Remains

LEMMA CopyIfRight ==
  ASSUME Numbered(s), call.op = "copy_if", Reducing(s, call.op, call.arg, call.to, call.res)
  PROVE  Keeps(LAMBDA x : x.key = call.arg[1])
<1>1. PICK k : k = call.arg[1]
  OBVIOUS
<1>2. Remains(With(s, k))
  BY <1>1, ReducedRemains DEF Reducing
<1>3. ASSUME NEW x \in ToSet(s) PROVE x.tag - 1 \in With(s, k) <=> x.key = k
  <2>1. x.tag - 1 \in 0 .. Len(s) - 1 /\ x = s[x.tag] /\ x.tag \in Nat
    BY AtItsTag
  <2>2. (x.tag - 1) + 1 = x.tag
    BY <2>1
  <2> QED
    BY <2>1, <2>2 DEF With
<1>4. { x \in ToSet(s) : x.tag - 1 \in With(s, k) } = { x \in ToSet(s) : x.key = k }
  BY <1>3
<1> QED
  BY <1>1, <1>2, <1>4 DEF Keeps, Remains

\* On a sorted span the first of a run differs from all those before.
LEMMA UniqueRight ==
  ASSUME Numbered(s), call.op = "unique", Reducing(s, call.op, call.arg, call.to, call.res)
  PROVE  Keeps(LAMBDA x : \A i \in 1 .. x.tag - 1 : cmp(s[i], x) # 0)
<1>1. PICK L \in Nat : L = Len(s) /\ s \in Spans /\ \A k \in 1 .. L : s[k] \in Element
  BY Positions DEF Numbered
<1>2. Remains(Firsts(s)) /\ is_sorted(s)
  BY ReducedRemains DEF Reducing
<1>3. ASSUME NEW i \in 1 .. L, NEW j \in 1 .. L
      PROVE  /\ rank(s[i].key) \in Int
             /\ cmp(s[i], s[j]) # 0 <=> rank(s[i].key) # rank(s[j].key)
             /\ i <= j => rank(s[i].key) <= rank(s[j].key)
  <2>1. PICK x \in Element, y \in Element : x = s[i] /\ y = s[j]
    BY <1>1
  <2>2. /\ rank(x.key) \in Int /\ rank(y.key) \in Int
        /\ cmp(x, y) # 0 <=> rank(x.key) # rank(y.key)
    BY ComparesElements
  <2>3. i <= j => rank(s[i].key) <= rank(s[j].key)
    BY <1>1, <1>2, OrderedByRank
  <2> QED
    BY <2>1, <2>2, <2>3
<1>4. ASSUME NEW x \in ToSet(s) PROVE x.tag - 1 \in Firsts(s) <=> \A i \in 1 .. x.tag - 1 : cmp(s[i], x) # 0
  <2>1. PICK n \in 1 .. L : n = x.tag /\ x = s[n] /\ n - 1 \in 0 .. Len(s) - 1 /\ (n - 1) + 1 = n
    BY <1>1, AtItsTag
  <2>2. n - 1 \in Firsts(s) <=> n = 1 \/ rank(s[n - 1].key) # rank(s[n].key)
    BY <2>1 DEF Firsts
  <2>3. CASE n = 1
    BY <2>1, <2>2, <2>3
  <2>4. CASE n # 1
    <3>1. n - 1 \in 1 .. L /\ n - 1 \in 1 .. n - 1
      BY <2>4
    <3>2. ASSUME rank(s[n - 1].key) # rank(s[n].key), NEW i \in 1 .. n - 1 PROVE cmp(s[i], x) # 0
      <4>1. i \in 1 .. L /\ i <= n - 1 /\ n - 1 <= n
        BY <2>1
      <4>2. rank(s[i].key) <= rank(s[n - 1].key) /\ rank(s[n - 1].key) <= rank(s[n].key)
        BY <1>3, <3>1, <4>1
      <4>3. rank(s[i].key) \in Int /\ rank(s[n - 1].key) \in Int /\ rank(s[n].key) \in Int
        BY <1>3, <3>1, <4>1
      <4>4. rank(s[i].key) # rank(s[n].key)
        BY <3>2, <4>2, <4>3
      <4> QED
        BY <1>3, <2>1, <4>1, <4>4
    <3>3. ASSUME \A i \in 1 .. n - 1 : cmp(s[i], x) # 0 PROVE rank(s[n - 1].key) # rank(s[n].key)
      BY <1>3, <2>1, <3>1, <3>3
    <3> QED
      BY <2>1, <2>2, <2>4, <3>2, <3>3
  <2> QED
    BY <2>3, <2>4
<1>5. { x \in ToSet(s) : x.tag - 1 \in Firsts(s) } = { x \in ToSet(s) : \A i \in 1 .. x.tag - 1 : cmp(s[i], x) # 0 }
  BY <1>4
<1> QED
  BY <1>2, <1>5 DEF Keeps, Remains

LEMMA ReplaceRight ==
  ASSUME Numbered(s), call.op = "replace", Reducing(s, call.op, call.arg, call.to, call.res),
         SafeOld(call.arg[1], call.arg[2])
  PROVE  /\ call.res = count(s, Deref(s, call.arg[1]))
         /\ \A i \in DOMAIN s :
              call.to[i] = IF cmp(s[i], Deref(s, call.arg[1])) = 0 THEN Deref(s, call.arg[2]) ELSE s[i]
<1>1. PICK p, q : p = call.arg[1] /\ q = call.arg[2]
  OBVIOUS
<1>2. OldStays(s, p, q)
  BY <1>1 DEF OldStays, SafeOld, End
<1>3. /\ Replaced(s, Equals(s, p), Len(s), call.to, Deref(s, q))
      /\ call.res = Cnt(Equals(s, p), Len(s))
  BY <1>1, <1>2 DEF Reducing
<1>4. Cnt(Equals(s, p), Len(s)) = count(s, Deref(s, p))
  <2>1. { i \in 0 .. Len(s) - 1 : i \in Equals(s, p) } = { i \in 0 .. Len(s) - 1 : cmp(get(s, i), Deref(s, p)) = 0 }
    BY DEF Equals
  <2> QED
    BY <2>1 DEF Cnt, count
<1>5. ASSUME NEW i \in DOMAIN s PROVE call.to[i] = IF cmp(s[i], Deref(s, p)) = 0 THEN Deref(s, q) ELSE s[i]
  <2>1. i \in 1 .. Len(s) /\ Len(s) \in Nat
    BY Positions DEF Numbered
  <2>2. i - 1 \in 0 .. Len(s) - 1 /\ (i - 1) + 1 = i /\ i <= Len(s)
    BY <2>1
  <2>3. i - 1 \in Equals(s, p) <=> cmp(s[i], Deref(s, p)) = 0
    BY <2>2 DEF Equals, get
  <2>4. call.to[i] = IF i <= Len(s) /\ i - 1 \in Equals(s, p) THEN Deref(s, q) ELSE s[i]
    BY <1>3, <2>1 DEF Replaced
  <2> QED
    BY <2>2, <2>3, <2>4
<1> QED
  BY <1>1, <1>3, <1>4, <1>5

LEMMA ReplaceIfRight ==
  ASSUME Numbered(s), call.op = "replace_if", Reducing(s, call.op, call.arg, call.to, call.res)
  PROVE  \A i \in DOMAIN s : cmp(call.to[i], IF s[i].key = call.arg[1] THEN Deref(s, call.arg[2]) ELSE s[i]) = 0
<1>1. PICK k, q : k = call.arg[1] /\ q = call.arg[2]
  OBVIOUS
<1>2. Fits(s, q) /\ Replaced(s, With(s, k), Len(s), call.to, Deref(s, q))
  BY <1>1 DEF Reducing
<1>3. SUFFICES ASSUME NEW i \in DOMAIN s
               PROVE  cmp(call.to[i], IF s[i].key = k THEN Deref(s, q) ELSE s[i]) = 0
  BY <1>1
<1>4. s \in Spans /\ i \in 1 .. Len(s) /\ Len(s) \in Nat /\ s[i] \in Element
  BY Positions DEF Numbered
<1>5. i - 1 \in 0 .. Len(s) - 1 /\ (i - 1) + 1 = i /\ i <= Len(s)
  BY <1>4
<1>6. i - 1 \in With(s, k) <=> s[i].key = k
  BY <1>5 DEF With
<1>7. call.to[i] = IF s[i].key = k THEN Deref(s, q) ELSE s[i]
  <2>1. call.to[i] = IF i <= Len(s) /\ i - 1 \in With(s, k) THEN Deref(s, q) ELSE s[i]
    BY <1>2, <1>4 DEF Replaced
  <2> QED
    BY <1>5, <1>6, <2>1
<1>8. Deref(s, q) \in Element
  BY <1>2, <1>4, Dereferenced
<1>9. PICK x \in Element : x = IF s[i].key = k THEN Deref(s, q) ELSE s[i]
  BY <1>4, <1>8
<1>10. cmp(x, x) = 0
  BY ComparesElements
<1> QED
  BY <1>7, <1>9, <1>10

LEMMA RearrangesRight ==
  ASSUME LibInv
  PROVE  Rearranges
<1>1. Numbered(s)
  BY DEF LibInv
<1>2. DOMAIN s = 1 .. Len(s)
  BY <1>1, Positions DEF Numbered
<1>3. CASE Idle
  BY <1>3 DEF Idle, Rearranges
<1>4. CASE Sorting(s, call.op, call.arg, call.to)
  <2>1. call.op \in {"sort", "sort_stable", "inplace_merge", "partial_sort", "nth_element"}
    BY <1>4, SortingOps
  <2> QED
    BY <2>1 DEF Rearranges
<1>5. CASE Moving(s, call.op, call.arg, call.to)
  <2>1. CASE call.op \in {"shuffle", "swap"}
    <3>1. Permuted
      BY <1>1, <1>5, <2>1, PermIsPermuted DEF Moving
    <3> QED
      BY <2>1, <3>1 DEF Rearranges
  <2>2. CASE call.op \notin {"shuffle", "swap"}
    <3>1. call.op \in {"reverse", "rotate", "copy", "fill", "transform"}
      BY <1>5, <2>2, SortingOps
    <3> QED
      BY <1>2, <1>5, <3>1 DEF Rearranges, Moving
  <2> QED
    BY <2>1, <2>2
<1>6. CASE Reducing(s, call.op, call.arg, call.to, call.res)
  <2>1. call.op \in {"remove", "replace", "unique", "remove_if", "copy_if", "replace_if"}
    BY <1>6, SortingOps
  <2>2. CASE call.op = "remove"
    BY <1>1, <1>6, <2>2, RemoveRight DEF Rearranges
  <2>3. CASE call.op = "replace"
    BY <1>1, <1>6, <2>3, ReplaceRight DEF Rearranges
  <2>4. CASE call.op = "unique"
    BY <1>1, <1>6, <2>4, UniqueRight DEF Rearranges
  <2>5. CASE call.op = "remove_if"
    BY <1>1, <1>6, <2>5, RemoveIfRight DEF Rearranges
  <2>6. CASE call.op = "copy_if"
    BY <1>1, <1>6, <2>6, CopyIfRight DEF Rearranges
  <2>7. CASE call.op = "replace_if"
    BY <1>1, <1>6, <2>7, ReplaceIfRight DEF Rearranges
  <2> QED
    BY <2>1, <2>2, <2>3, <2>4, <2>5, <2>6, <2>7
<1> QED
  BY <1>3, <1>4, <1>5, <1>6 DEF LibInv

LEMMA NumberedSpan ==
  ASSUME NEW n \in Nat, NEW t, t = [k \in 1 .. n |-> t[k]],
         \A k \in 1 .. n : t[k] \in Element /\ t[k].tag = k
  PROVE  Numbered(t)
<1>1. t \in Spans /\ Len(t) = n
  BY MakeSpan
<1>2. DOMAIN t = 1 .. n
  BY <1>1, Positions
<1> QED
  BY <1>1, <1>2 DEF Numbered

LEMMA InitNumbered ==
  ASSUME Init
  PROVE  LibInv
<1>1. s \in Spans /\ DOMAIN s = {}
  BY DEF Init, Spans
<1> QED
  BY <1>1 DEF Init, LibInv, Numbered, Idle

LEMMA PushKeeps ==
  ASSUME LibInv, Idle, NEW k \in Keys, Push(k)
  PROVE  LibInv'
<1>1. PICK n \in Nat : n = Len(s) /\ s \in Spans /\ \A i \in 1 .. n : s[i].tag = i
  BY Positions DEF LibInv, Numbered
<1>2. PICK x \in Element : x = [key |-> k, tag |-> n + 1]
  <2>1. k \in Floats /\ n + 1 \in Nat
    BY OwnKeys
  <2> QED
    BY <2>1 DEF Element
<1>3. PICK t : t = Append(s, x)
  OBVIOUS
<1>4. t \in Spans /\ Len(t) = n + 1 /\ (\A i \in 1 .. n : t[i] = s[i]) /\ t[n + 1] = x
  BY <1>1, <1>3, Appended
<1>5. DOMAIN t = 1 .. n + 1
  BY <1>4, Positions
<1>6. ASSUME NEW i \in 1 .. n + 1 PROVE t[i].tag = i
  <2>1. CASE i = n + 1
    BY <1>2, <1>4, <2>1
  <2>2. CASE i # n + 1
    <3>1. i \in 1 .. n
      BY <2>2
    <3> QED
      BY <1>1, <1>4, <3>1
  <2> QED
    BY <2>1, <2>2
<1>7. Numbered(t)
  BY <1>4, <1>5, <1>6 DEF Numbered
<1>8. s' = t /\ call' = call
  BY <1>1, <1>2, <1>3 DEF Push
<1> QED
  BY <1>7, <1>8 DEF LibInv, Idle

\* What the client sees of a call.
Outcome(op, arg, to, res) ==
  \/ Sorting(s, op, arg, to) /\ res = Len(s)
  \/ Moving(s, op, arg, to) /\ res = Len(s)
  \/ Reducing(s, op, arg, to, res)

LEMMA AnswerKeeps ==
  ASSUME LibInv, NEW op, NEW arg, NEW to, NEW res, Answer(op, arg, to, res), Outcome(op, arg, to, res)
  PROVE  LibInv'
<1>1. s' = s /\ call' = [op |-> op, arg |-> arg, to |-> to, res |-> res]
  BY DEF Answer
<1>2. call'.op = op /\ call'.arg = arg /\ call'.to = to /\ call'.res = res
  BY <1>1
<1>3. Numbered(s)
  BY DEF LibInv
<1> QED
  BY <1>1, <1>2, <1>3 DEF LibInv, Outcome

LEMMA SortsKeep ==
  ASSUME LibInv, Sorts
  PROVE  LibInv'
<1>1. Numbered(s) /\ s \in Spans /\ Len(s) \in Nat
  BY Positions DEF LibInv, Numbered
<1>2. ASSUME NEW u \in sort(s), Rearranged("sort", <<>>, u) PROVE LibInv'
  <2>1. Sorting(s, "sort", <<>>, u)
    BY <1>1, AnySort DEF Sorting
  <2>2. Answer("sort", <<>>, u, Len(s))
    BY <1>2 DEF Rearranged
  <2>3. Outcome("sort", <<>>, u, Len(s))
    BY <2>1 DEF Outcome
  <2> QED
    BY <2>2, <2>3, AnswerKeeps
<1>3. ASSUME Rearranged("sort_stable", <<>>, sort_stable(s)) PROVE LibInv'
  <2>1. Sorting(s, "sort_stable", <<>>, sort_stable(s))
    BY <1>1, SortsStable DEF Sorting
  <2>2. Answer("sort_stable", <<>>, sort_stable(s), Len(s))
    BY <1>3 DEF Rearranged
  <2>3. Outcome("sort_stable", <<>>, sort_stable(s), Len(s))
    BY <2>1 DEF Outcome
  <2> QED
    BY <2>2, <2>3, AnswerKeeps
<1>4. ASSUME NEW k \in 0 .. Len(s), NEW u \in partial_sort(s, k), Rearranged("partial_sort", <<k>>, u)
      PROVE  LibInv'
  <2>1. Perm(u, s) /\ \A i \in 1 .. k, j \in 1 .. Len(s) : i < j => rank(u[i].key) <= rank(u[j].key)
    BY <1>1, SortsPartially
  <2>2. Sorting(s, "partial_sort", <<k>>, u)
    BY <2>1 DEF Sorting
  <2>3. Answer("partial_sort", <<k>>, u, Len(s))
    BY <1>4 DEF Rearranged
  <2>4. Outcome("partial_sort", <<k>>, u, Len(s))
    BY <2>2 DEF Outcome
  <2> QED
    BY <2>3, <2>4, AnswerKeeps
<1>5. ASSUME NEW n \in 0 .. End, Rearranged("nth_element", <<n>>, nth_element(s, n)) PROVE LibInv'
  <2>1. n \in 0 .. Len(s) - 1
    BY DEF End
  <2>2. PICK t : t = nth_element(s, n)
    OBVIOUS
  <2>3. Perm(t, s) /\ Split(t, n) /\ Split(t, n + 1)
    BY <1>1, <2>1, <2>2, SelectsNth
  <2>4. Sorting(s, "nth_element", <<n>>, t)
    BY <2>1, <2>3 DEF Sorting
  <2>5. Answer("nth_element", <<n>>, t, Len(s))
    BY <1>5, <2>2 DEF Rearranged
  <2>6. Outcome("nth_element", <<n>>, t, Len(s))
    BY <2>4 DEF Outcome
  <2> QED
    BY <2>5, <2>6, AnswerKeeps
<1>6. ASSUME NEW mid \in 0 .. Len(s), is_sorted(sub(s, 0, mid)), is_sorted(sub(s, mid, Len(s) - mid)),
             Rearranged("inplace_merge", <<mid>>, inplace_merge(s, mid))
      PROVE  LibInv'
  <2>1. PICK t : t = inplace_merge(s, mid)
    OBVIOUS
  <2>2. Perm(t, s) /\ Sorted(t)
    BY <1>1, <1>6, <2>1, MergesInPlace
  <2>3. Sorting(s, "inplace_merge", <<mid>>, t)
    BY <2>2 DEF Sorting
  <2>4. Answer("inplace_merge", <<mid>>, t, Len(s))
    BY <1>6, <2>1 DEF Rearranged
  <2>5. Outcome("inplace_merge", <<mid>>, t, Len(s))
    BY <2>3 DEF Outcome
  <2> QED
    BY <2>4, <2>5, AnswerKeeps
<1> QED
  BY <1>2, <1>3, <1>4, <1>5, <1>6 DEF Sorts

LEMMA MovesKeep ==
  ASSUME LibInv, Moves
  PROVE  LibInv'
<1>1. Numbered(s) /\ s \in Spans /\ Len(s) \in Nat
  BY Positions DEF LibInv, Numbered
<1>2. ASSUME NEW op, NEW arg, NEW to, Rearranged(op, arg, to), Moving(s, op, arg, to)
      PROVE  LibInv'
  <2>1. Answer(op, arg, to, Len(s)) /\ Outcome(op, arg, to, Len(s))
    BY <1>2 DEF Rearranged, Outcome
  <2> QED
    BY <2>1, AnswerKeeps
<1>3. ASSUME Rearranged("reverse", <<>>, reverse(s)) PROVE LibInv'
  <2>1. PICK t : t = reverse(s)
    OBVIOUS
  <2>2. t = Reverse(s) /\ t \in Spans /\ Len(t) = Len(s)
    BY <1>1, <2>1, ReverseIsReverse, Reverses
  <2>3. Moving(s, "reverse", <<>>, t)
    BY <2>2 DEF Moving
  <2> QED
    BY <1>2, <1>3, <2>1, <2>3
<1>4. ASSUME NEW mid \in 0 .. Len(s), Rearranged("rotate", <<mid>>, rotate(s, mid)) PROVE LibInv'
  <2>1. PICK t : t = rotate(s, mid)
    OBVIOUS
  <2>2. t \in Spans /\ Len(t) = Len(s) /\ t = SubSeq(s, mid + 1, Len(s)) \o SubSeq(s, 1, mid)
    BY <1>1, <2>1, Rotates
  <2>3. Moving(s, "rotate", <<mid>>, t)
    BY <2>2 DEF Moving
  <2> QED
    BY <1>2, <1>4, <2>1, <2>3
<1>5. ASSUME NEW i \in 0 .. End, NEW j \in 0 .. End, Rearranged("swap", <<i, j>>, swap(s, i, j)) PROVE LibInv'
  <2>1. PICK t : t = swap(s, i, j)
    OBVIOUS
  <2>2. i \in 0 .. Len(s) - 1 /\ j \in 0 .. Len(s) - 1
    BY DEF End
  <2>3. Perm(t, s) /\ t \in Spans /\ Len(t) = Len(s)
    BY <1>1, <2>1, <2>2, SwapSpan
  <2>4. Moving(s, "swap", <<i, j>>, t)
    BY <2>3 DEF Moving
  <2> QED
    BY <1>2, <1>5, <2>1, <2>4
<1>6. ASSUME NEW to \in 0 .. End, NEW from \in 0 .. End, NEW n \in 0 .. End, to + n <= Len(s), from + n <= Len(s),
             Rearranged("copy", <<to, from, n>>, copy(s, to, from, n))
      PROVE  LibInv'
  <2>1. PICK t : t = copy(s, to, from, n)
    OBVIOUS
  <2>2. t \in Spans /\ Len(t) = Len(s)
    BY <1>1, <1>6, <2>1, Copies
  <2>3. Moving(s, "copy", <<to, from, n>>, t)
    BY <2>2 DEF Moving
  <2> QED
    BY <1>2, <1>6, <2>1, <2>3
<1>7. ASSUME NEW p \in Pointers, Rearranged("fill", <<p>>, fill(s, p)) PROVE LibInv'
  <2>1. PICK t : t = fill(s, p)
    OBVIOUS
  <2>2. Fits(s, p)
    BY <1>1, PointersFit
  <2>3. t \in Spans /\ Len(t) = Len(s) /\ \A k \in 1 .. Len(s) : t[k] = Deref(s, p)
    BY <1>1, <2>1, <2>2, Fills
  <2>4. Moving(s, "fill", <<p>>, t)
    BY <2>3 DEF Moving
  <2> QED
    BY <1>2, <1>7, <2>1, <2>4
<1>8. ASSUME NEW k \in Keys,
             Rearranged("transform", <<k>>, transform(s, [x \in 0 .. WORDS - 1 |-> IF x = k THEN 0 ELSE k]))
      PROVE  LibInv'
  <2>1. PICK F : F = [x \in 0 .. WORDS - 1 |-> IF x = k THEN 0 ELSE k]
    OBVIOUS
  <2>2. k \in Floats /\ 0 \in Floats
    BY OwnKeys
  <2>3. F \in [Floats -> Floats] /\ \A x \in Floats : F[x] = IF x = k THEN 0 ELSE k
    BY <2>1, <2>2 DEF Floats
  <2>4. PICK t : t = transform(s, F)
    OBVIOUS
  <2>5. t \in Spans /\ Len(t) = Len(s) /\ \A i \in 1 .. Len(s) : t[i].key = F[s[i].key]
    BY <1>1, <2>3, <2>4, Transforms
  <2>6. \A i \in 1 .. Len(s) : s[i].key \in Floats
    BY <1>1, Positions DEF Element
  <2>7. \A i \in 1 .. Len(s) : t[i].key = IF s[i].key = k THEN 0 ELSE k
    BY <2>3, <2>5, <2>6
  <2>8. Moving(s, "transform", <<k>>, t)
    BY <2>5, <2>7 DEF Moving
  <2> QED
    BY <1>2, <1>8, <2>1, <2>4, <2>8
<1>9. ASSUME NEW u \in shuffles(s), Rearranged("shuffle", <<>>, u) PROVE LibInv'
  <2>1. Perm(u, s)
    BY <1>1, Shuffles
  <2>2. Moving(s, "shuffle", <<>>, u)
    BY <2>1 DEF Moving, Perm
  <2> QED
    BY <1>2, <1>9, <2>2
<1> QED
  BY <1>3, <1>4, <1>5, <1>6, <1>7, <1>8, <1>9 DEF Moves

LEMMA ReducesKeep ==
  ASSUME LibInv, Reduces
  PROVE  LibInv'
<1>1. Numbered(s) /\ s \in Spans /\ Len(s) \in Nat
  BY Positions DEF LibInv, Numbered
<1>2. ASSUME NEW op, NEW arg, NEW a, Reduced(op, arg, a), Reducing(s, op, arg, a.s, a.out)
      PROVE  LibInv'
  <2>1. Answer(op, arg, a.s, a.out) /\ Outcome(op, arg, a.s, a.out)
    BY <1>2 DEF Reduced, Outcome
  <2> QED
    BY <2>1, AnswerKeeps
<1>3. ASSUME NEW p \in Pointers PROVE Fits(s, p)
  BY <1>1, PointersFit
<1>4. ASSUME NEW p \in Pointers, Reduced("remove", <<p>>, remove(s, p)) PROVE LibInv'
  <2>1. PICK a : a = remove(s, p)
    OBVIOUS
  <2>2. Reduction(s, a) /\ (KeyStays(s, p) => Compact(s, Others(s, p), Len(s), a.s, a.out))
    BY <1>1, <1>3, <2>1, Removes
  <2>3. Reducing(s, "remove", <<p>>, a.s, a.out)
    BY <2>2 DEF Reducing, Reduction
  <2> QED
    BY <1>2, <1>4, <2>1, <2>3
<1>5. ASSUME NEW old \in Pointers, NEW new \in Pointers, Reduced("replace", <<old, new>>, replace(s, old, new))
      PROVE  LibInv'
  <2>1. PICK a : a = replace(s, old, new)
    OBVIOUS
  <2>2. /\ Reduction(s, a)
        /\ OldStays(s, old, new) =>
             /\ Replaced(s, Equals(s, old), Len(s), a.s, Deref(s, new))
             /\ a.out = Cnt(Equals(s, old), Len(s))
    BY <1>1, <1>3, <2>1, Replaces
  <2>3. Reducing(s, "replace", <<old, new>>, a.s, a.out)
    BY <2>2 DEF Reducing, Reduction
  <2> QED
    BY <1>2, <1>5, <2>1, <2>3
<1>6. ASSUME is_sorted(s), Reduced("unique", <<>>, unique(s)) PROVE LibInv'
  <2>1. PICK a : a = unique(s)
    OBVIOUS
  <2>2. Reduction(s, a) /\ Compact(s, Firsts(s), Len(s), a.s, a.out)
    BY <1>1, <2>1, KeepsUnique
  <2>3. Reducing(s, "unique", <<>>, a.s, a.out)
    BY <1>6, <2>2 DEF Reducing, Reduction
  <2> QED
    BY <1>2, <1>6, <2>1, <2>3
<1>7. ASSUME NEW k \in Keys, Reduced("remove_if", <<k>>, remove_if(s, {k})) PROVE LibInv'
  <2>1. PICK a : a = remove_if(s, {k})
    OBVIOUS
  <2>2. Reduction(s, a) /\ Compact(s, Without(s, k), Len(s), a.s, a.out)
    BY <1>1, <2>1, RemovesIf DEF Without
  <2>3. Reducing(s, "remove_if", <<k>>, a.s, a.out)
    BY <2>2 DEF Reducing, Reduction
  <2> QED
    BY <1>2, <1>7, <2>1, <2>3
<1>8. ASSUME NEW k \in Keys, Reduced("copy_if", <<k>>, copy_if(s, {k})) PROVE LibInv'
  <2>1. PICK a : a = copy_if(s, {k})
    OBVIOUS
  <2>2. Reduction(s, a) /\ Compact(s, With(s, k), Len(s), a.s, a.out)
    BY <1>1, <2>1, CopiesIf DEF With
  <2>3. Reducing(s, "copy_if", <<k>>, a.s, a.out)
    BY <2>2 DEF Reducing, Reduction
  <2> QED
    BY <1>2, <1>8, <2>1, <2>3
<1>9. ASSUME NEW k \in Keys, NEW p \in Pointers, Reduced("replace_if", <<k, p>>, replace_if(s, {k}, p))
      PROVE  LibInv'
  <2>1. PICK a : a = replace_if(s, {k}, p)
    OBVIOUS
  <2>2. Reduction(s, a) /\ Replaced(s, With(s, k), Len(s), a.s, Deref(s, p)) /\ Fits(s, p)
    BY <1>1, <1>3, <2>1, ReplacesIf DEF With
  <2>3. Reducing(s, "replace_if", <<k, p>>, a.s, a.out)
    BY <2>2 DEF Reducing, Reduction
  <2> QED
    BY <1>2, <1>9, <2>1, <2>3
<1> QED
  BY <1>4, <1>5, <1>6, <1>7, <1>8, <1>9 DEF Reduces

LEMMA ReturnKeeps ==
  ASSUME LibInv, ~Idle, Return
  PROVE  LibInv'
<1>1. Numbered(s) /\ s \in Spans /\ Len(s) \in Nat
  BY Positions DEF LibInv, Numbered
<1>2. call.to \in Spans /\ Len(call.to) = Len(s) /\ call.res \in 0 .. Len(s)
  BY <1>1 DEF LibInv, Sorting, Perm, Moving, Reducing
<1>3. PICK n \in Nat : n = Taken /\ n <= Len(s)
  BY <1>1, <1>2 DEF Taken
<1>4. PICK t : t = [i \in 1 .. n |-> [key |-> call.to[i].key, tag |-> i]]
  OBVIOUS
<1>5. ASSUME NEW i \in 1 .. n PROVE t[i] \in Element /\ t[i].tag = i
  <2>1. i \in 1 .. Len(call.to) /\ i \in Nat
    BY <1>1, <1>2, <1>3
  <2>2. call.to[i].key \in Floats
    BY <1>2, <2>1, Positions DEF Element
  <2> QED
    BY <1>4, <2>1, <2>2 DEF Element
<1>6. Numbered(t)
  <2>1. t = [i \in 1 .. n |-> t[i]]
    BY <1>4
  <2> QED
    BY <1>5, <2>1, NumberedSpan
<1>7. s' = t /\ call'.op = "none"
  BY <1>3, <1>4 DEF Return
<1> QED
  BY <1>6, <1>7 DEF LibInv, Idle

LEMMA LibInvHolds == Spec => []LibInv
<1>1. Init => LibInv
  BY InitNumbered
<1>2. LibInv /\ [Next]_vars => LibInv'
  <2>1. SUFFICES ASSUME LibInv, [Next]_vars PROVE LibInv'
    OBVIOUS
  <2>2. CASE Idle /\ \E k \in Keys : Push(k)
    BY <2>1, <2>2, PushKeeps
  <2>3. CASE Idle /\ (Sorts \/ Moves \/ Reduces)
    BY <2>1, <2>3, SortsKeep, MovesKeep, ReducesKeep
  <2>4. CASE ~Idle /\ Return
    BY <2>1, <2>4, ReturnKeeps
  <2>5. CASE UNCHANGED vars
    BY <2>1, <2>5 DEF vars, LibInv, Idle
  <2> QED
    BY <2>1, <2>2, <2>3, <2>4, <2>5 DEF Next
<1> QED
  BY <1>1, <1>2, PTL DEF Spec

\* sort.c, merge.c: whatever spans a client builds, sorting loses no element
\* and doubles none, the stable sort and the merge keep equal elements in their
\* order, and nth_element and partial_sort leave each element on its side.
THEOREM SortsAndSelectsHolds == Spec => []SortsAndSelects
BY LibInvHolds, SortsRight, PTL

\* transform.c: each algorithm keeps, moves or overwrites what it should, in
\* place, and returns how many there are; also when the value or key it was
\* given is an element of the span, as far as no step moves another onto it.
THEOREM RearrangesHolds == Spec => []Rearranges
BY LibInvHolds, RearrangesRight, PTL

\* search.c, minmax.c: on a sorted span of any length binary search finds what
\* the linear one does, and the two bounds enclose exactly the equal elements,
\* with NaN and the two zeros among them; minmax finds the first of each.
THEOREM SearchesAgreeHolds == Spec => []SearchesAgree
<1>1. LibInv => SearchesAgree
  BY SearchesRight DEF LibInv, Numbered
<1> QED
  BY <1>1, LibInvHolds, PTL

-----------------------------------------------------------------------------
(* src/numeric: no intermediate step overflows where its result is used.   *)

\* A quotient is exceeded when the product exceeds the dividend: the test by
\* which sat.c finds out that a product overflows, without computing it.
LEMMA ExceedsQuotient ==
  ASSUME NEW n \in Nat, NEW a \in Nat, NEW b \in Nat \ {0}
  PROVE  /\ n \div b \in 0 .. n
         /\ a > n \div b <=> a * b > n
<1> DEFINE q == n \div b
           r == n % b
<1>1. q \in Int /\ r \in 0 .. b - 1 /\ n = b * q + r
  BY DivMod
<1> HIDE DEF q, r
<1>2. q \in Nat
  <2>1. SUFFICES ASSUME q < 0 PROVE FALSE
    BY <1>1
  <2>2. q + 1 <= 0 /\ b * (q + 1) = b * q + b
    BY <1>1, <2>1
  <2>3. b * (q + 1) <= 0
    BY <1>1, <2>2
  <2> QED
    BY <1>1, <2>2, <2>3
<1>3. q <= b * q
  BY <1>2
<1>4. ASSUME a > q PROVE a * b > n
  <2>1. a * b >= (q + 1) * b
    BY <1>2, <1>4
  <2>2. (q + 1) * b = b * q + b
    BY <1>2
  <2> QED
    BY <1>1, <2>1, <2>2
<1>5. ASSUME a <= q PROVE a * b <= n
  <2>1. a * b <= q * b /\ q * b = b * q
    BY <1>2, <1>5
  <2> QED
    BY <1>1, <2>1
<1>6. a > q <=> a * b > n
  <2>1. a * b \in Int /\ q \in Int
    BY <1>2
  <2> QED
    BY <1>4, <1>5, <2>1
<1>7. q \in 0 .. n
  BY <1>1, <1>2, <1>3
<1> QED
  BY <1>6, <1>7 DEF q

-----------------------------------------------------------------------------
(* Conversion to a type keeps what fits and always yields a value of it.   *)

LEMMA WordWidths ==
  /\ HALF \in Nat /\ HALF >= 1 /\ 2 * HALF \in Nat \ {0}
  /\ I_MAX = HALF - 1 /\ I_MIN = -HALF /\ U_MAX = 2 * HALF - 1
  /\ Signed = I_MIN .. I_MAX /\ Unsigned = 0 .. U_MAX
BY HalfAssumption DEF I_MAX, I_MIN, U_MAX, Signed, Unsigned

LEMMA Remainder ==
  ASSUME NEW x \in Int
  PROVE  /\ as_u(x) \in Unsigned
         /\ x \in Unsigned => as_u(x) = x
         /\ x \in -(2 * HALF) .. -1 => as_u(x) = x + 2 * HALF
         /\ x \in 2 * HALF .. 4 * HALF - 1 => as_u(x) = x - 2 * HALF
<1> DEFINE d == 2 * HALF
           q == x \div d
           r == x % d
<1>1. d \in Nat \ {0} /\ U_MAX = d - 1 /\ 4 * HALF = 2 * d /\ Unsigned = 0 .. U_MAX
  BY WordWidths
<1>2. r \in 0 .. d - 1 /\ q \in Int /\ x = d * q + r
  BY <1>1, DivMod
<1>3. as_u(x) = r
  BY DEF as_u
<1> HIDE DEF d, q, r
<1>4. ASSUME NEW k \in Int, q < k PROVE d * q <= d * k - d
  <2>1. d * q <= d * (k - 1)
    BY <1>1, <1>2, <1>4
  <2> QED
    BY <1>1, <2>1
<1>5. ASSUME NEW k \in Int, q > k PROVE d * q >= d * k + d
  <2>1. d * q >= d * (k + 1)
    BY <1>1, <1>2, <1>5
  <2> QED
    BY <1>1, <2>1
<1>6. d * q \in Int /\ d * 0 = 0 /\ d * (-1) = -d /\ d * 1 = d
  BY <1>1, <1>2
<1>7. ASSUME x \in 0 .. d - 1 PROVE r = x
  BY <1>1, <1>2, <1>4, <1>5, <1>6, <1>7
<1>8. ASSUME x \in -d .. -1 PROVE r = x + d
  BY <1>1, <1>2, <1>4, <1>5, <1>6, <1>8
<1>9. ASSUME x \in d .. 2 * d - 1 PROVE r = x - d
  BY <1>1, <1>2, <1>4, <1>5, <1>6, <1>9
<1> QED
  BY <1>1, <1>2, <1>3, <1>7, <1>8, <1>9 DEF d

LEMMA Converted ==
  ASSUME NEW x \in Int
  PROVE  as_i(x) \in Signed /\ (x \in Signed => as_i(x) = x)
<1>1. as_u(x) \in 0 .. U_MAX
  BY Remainder, WordWidths
<1>2. as_i(x) \in Signed
  BY <1>1, WordWidths DEF as_i
<1>3. ASSUME x \in Signed PROVE as_i(x) = x
  <2>1. CASE x >= 0
    <3>1. as_u(x) = x
      BY <1>3, <2>1, Remainder, WordWidths
    <3> QED
      BY <1>3, <3>1, WordWidths DEF as_i
  <2>2. CASE x < 0
    <3>1. as_u(x) = x + 2 * HALF
      BY <1>3, <2>2, Remainder, WordWidths
    <3> QED
      BY <1>3, <2>2, <3>1, WordWidths DEF as_i
  <2> QED
    BY <2>1, <2>2
<1> QED
  BY <1>2, <1>3

-----------------------------------------------------------------------------
(* Sums and differences.                                                   *)

LEMMA SignedSums ==
  ASSUME NEW a \in Signed, NEW b \in Signed
  PROVE  /\ sat_add_i(a, b) = clamp(a + b, I_MIN, I_MAX)
         /\ sat_sub_i(a, b) = clamp(a - b, I_MIN, I_MAX)
<1>1. a \in Int /\ b \in Int /\ a \in I_MIN .. I_MAX /\ b \in I_MIN .. I_MAX
  BY WordWidths
<1>2. /\ b > 0 => I_MAX - b \in Signed /\ I_MIN + b \in Signed
      /\ b < 0 => I_MIN - b \in Signed /\ I_MAX + b \in Signed
  BY <1>1, WordWidths
<1>3. /\ b > 0 => Sub(I_MAX, b) = I_MAX - b /\ Add(I_MIN, b) = I_MIN + b
      /\ b < 0 => Sub(I_MIN, b) = I_MIN - b /\ Add(I_MAX, b) = I_MAX + b
  <2>1. I_MAX - b \in Int /\ I_MIN + b \in Int /\ I_MIN - b \in Int /\ I_MAX + b \in Int
    BY <1>1, WordWidths
  <2> QED
    BY <1>2, <2>1, Converted DEF Sub, Add
<1>4. /\ a + b \in Signed => Add(a, b) = a + b
      /\ a - b \in Signed => Sub(a, b) = a - b
  <2>1. a + b \in Int /\ a - b \in Int
    BY <1>1
  <2> QED
    BY <2>1, Converted DEF Sub, Add
<1>5. sat_add_i(a, b) = clamp(a + b, I_MIN, I_MAX)
  BY <1>1, <1>3, <1>4, WordWidths DEF sat_add_i, clamp
<1>6. sat_sub_i(a, b) = clamp(a - b, I_MIN, I_MAX)
  BY <1>1, <1>3, <1>4, WordWidths DEF sat_sub_i, clamp
<1> QED
  BY <1>5, <1>6

LEMMA UnsignedSums ==
  ASSUME NEW a \in Unsigned, NEW b \in Unsigned
  PROVE  /\ sat_add_u(a, b) = clamp(a + b, 0, U_MAX)
         /\ sat_sub_u(a, b) = clamp(a - b, 0, U_MAX)
<1>1. a \in 0 .. U_MAX /\ b \in 0 .. U_MAX /\ a + b \in Int /\ a - b \in Int
  BY WordWidths
<1>2. sat_add_u(a, b) = clamp(a + b, 0, U_MAX)
  <2>1. CASE a + b <= U_MAX
    <3>1. as_u(a + b) = a + b
      BY <1>1, <2>1, Remainder, WordWidths
    <3> QED
      BY <1>1, <2>1, <3>1, WordWidths DEF sat_add_u, clamp
  <2>2. CASE a + b > U_MAX
    <3>1. as_u(a + b) = a + b - 2 * HALF
      BY <1>1, <2>2, Remainder, WordWidths
    <3> QED
      BY <1>1, <2>2, <3>1, WordWidths DEF sat_add_u, clamp
  <2> QED
    BY <1>1, <2>1, <2>2, WordWidths
<1>3. sat_sub_u(a, b) = clamp(a - b, 0, U_MAX)
  <2>1. a > b => as_u(a - b) = a - b
    BY <1>1, Remainder, WordWidths
  <2> QED
    BY <1>1, <2>1, WordWidths DEF sat_sub_u, clamp
<1> QED
  BY <1>2, <1>3

-----------------------------------------------------------------------------
(* Products, up to 32 bits through a wider type and 64 bits by division.   *)

LEMMA SignedProducts ==
  ASSUME NEW a \in Signed, NEW b \in Signed
  PROVE  /\ sat_mul_i(a, b) = clamp(a * b, I_MIN, I_MAX)
         /\ sat_mul_wide_i(a, b) = clamp(a * b, I_MIN, I_MAX)
<1> DEFINE p == a * b
<1>1. a \in Int /\ b \in Int /\ a \in I_MIN .. I_MAX /\ b \in I_MIN .. I_MAX /\ p \in Int
  BY WordWidths
<1>2. I_MIN \in Int /\ I_MAX \in Nat /\ I_MIN = -HALF /\ HALF \in Nat /\ I_MIN <= I_MAX
      /\ I_MIN < 0 /\ HALF > I_MAX
  BY WordWidths
<1>3. p \in Signed => as_i(p) = p /\ Mul(a, b) = p
  BY <1>1, Converted DEF Mul
<1>4. p \in Signed <=> I_MIN <= p /\ p <= I_MAX
  BY <1>1, <1>2, WordWidths
<1>5. sat_mul_wide_i(a, b) = clamp(p, I_MIN, I_MAX)
  BY <1>1, <1>2, <1>3, <1>4 DEF sat_mul_wide_i, clamp
<1>6. CASE a = 0 \/ b = 0
  <2>1. p = 0
    BY <1>1, <1>6
  <2> QED
    BY <1>2, <1>5, <1>6, <2>1 DEF sat_mul_i, clamp
<1>7. CASE a > 0 /\ b > 0
  <2>1. a \in Nat /\ b \in Nat \ {0} /\ p > 0
    BY <1>1, <1>7
  <2>2. Div(I_MAX, b) = I_MAX \div b
    <3>1. I_MAX \div b \in 0 .. I_MAX
      BY <1>2, <2>1, ExceedsQuotient
    <3>2. Abs(I_MAX) = I_MAX /\ Abs(b) = b /\ (I_MAX < 0) = (b < 0)
      BY <1>2, <2>1 DEF Abs
    <3>3. I_MAX \div b \in Signed
      BY <1>2, <3>1, WordWidths
    <3> QED
      BY <3>1, <3>2, <3>3, Converted DEF Div
  <2>3. a > Div(I_MAX, b) <=> p > I_MAX
    BY <1>2, <2>1, <2>2, ExceedsQuotient
  <2>4. sat_mul_i(a, b) = IF p > I_MAX THEN I_MAX ELSE Mul(a, b)
    BY <1>1, <1>7, <2>3 DEF sat_mul_i
  <2>5. sat_mul_i(a, b) = clamp(p, I_MIN, I_MAX)
    BY <1>1, <1>2, <1>3, <1>4, <2>1, <2>4 DEF clamp
  <2> QED
    BY <1>5, <2>5
<1>8. CASE a > 0 /\ b < 0
  <2>1. a \in Nat \ {0} /\ -b \in Nat /\ p < 0 /\ (-b) * a = -p
    BY <1>1, <1>8
  <2>2. Div(I_MIN, a) = -(HALF \div a)
    <3>1. HALF \div a \in 0 .. HALF
      BY <1>2, <2>1, ExceedsQuotient
    <3>2. Abs(I_MIN) = HALF /\ Abs(a) = a /\ (I_MIN < 0) # (a < 0)
      BY <1>2, <2>1 DEF Abs
    <3>3. -(HALF \div a) \in Signed
      BY <1>2, <3>1, WordWidths
    <3> QED
      BY <3>1, <3>2, <3>3, Converted DEF Div
  <2>3. b < Div(I_MIN, a) <=> p < I_MIN
    <3>1. -b > HALF \div a <=> -p > HALF
      BY <1>2, <2>1, ExceedsQuotient
    <3>2. HALF \div a \in Int
      BY <1>2, <2>1, ExceedsQuotient
    <3> QED
      BY <1>1, <1>2, <2>2, <3>1, <3>2
  <2>4. sat_mul_i(a, b) = IF p < I_MIN THEN I_MIN ELSE Mul(a, b)
    BY <1>1, <1>8, <2>3 DEF sat_mul_i
  <2>5. sat_mul_i(a, b) = clamp(p, I_MIN, I_MAX)
    BY <1>1, <1>2, <1>3, <1>4, <2>1, <2>4 DEF clamp
  <2> QED
    BY <1>5, <2>5
<1>9. CASE a < 0 /\ b > 0
  <2>1. b \in Nat \ {0} /\ -a \in Nat /\ p < 0 /\ (-a) * b = -p
    BY <1>1, <1>9
  <2>2. Div(I_MIN, b) = -(HALF \div b)
    <3>1. HALF \div b \in 0 .. HALF
      BY <1>2, <2>1, ExceedsQuotient
    <3>2. Abs(I_MIN) = HALF /\ Abs(b) = b /\ (I_MIN < 0) # (b < 0)
      BY <1>2, <2>1 DEF Abs
    <3>3. -(HALF \div b) \in Signed
      BY <1>2, <3>1, WordWidths
    <3> QED
      BY <3>1, <3>2, <3>3, Converted DEF Div
  <2>3. a < Div(I_MIN, b) <=> p < I_MIN
    <3>1. -a > HALF \div b <=> -p > HALF
      BY <1>2, <2>1, ExceedsQuotient
    <3>2. HALF \div b \in Int
      BY <1>2, <2>1, ExceedsQuotient
    <3> QED
      BY <1>1, <1>2, <2>2, <3>1, <3>2
  <2>4. sat_mul_i(a, b) = IF p < I_MIN THEN I_MIN ELSE Mul(a, b)
    BY <1>1, <1>9, <2>3 DEF sat_mul_i
  <2>5. sat_mul_i(a, b) = clamp(p, I_MIN, I_MAX)
    BY <1>1, <1>2, <1>3, <1>4, <2>1, <2>4 DEF clamp
  <2> QED
    BY <1>5, <2>5
<1>10. CASE a < 0 /\ b < 0
  <2>1. -a \in Nat \ {0} /\ -b \in Nat \ {0} /\ (-a) * (-b) = p /\ p > 0
    BY <1>1, <1>10
  <2>2. CASE a = I_MIN \/ b = I_MIN
    <3>1. p >= HALF
      <4>1. CASE a = I_MIN
        <5>1. HALF * (-b) >= HALF * 1
          BY <1>2, <2>1
        <5> QED
          BY <1>2, <2>1, <4>1, <5>1
      <4>2. CASE b = I_MIN
        <5>1. (-a) * HALF >= 1 * HALF
          BY <1>2, <2>1
        <5> QED
          BY <1>2, <2>1, <4>2, <5>1
      <4> QED
        BY <2>2, <4>1, <4>2
    <3>2. sat_mul_i(a, b) = I_MAX
      BY <1>1, <1>10, <2>2 DEF sat_mul_i
    <3>3. clamp(p, I_MIN, I_MAX) = I_MAX
      BY <1>1, <1>2, <3>1 DEF clamp
    <3> QED
      BY <1>5, <3>2, <3>3
  <2>3. CASE a # I_MIN /\ b # I_MIN
    <3>1. Sub(0, a) = -a /\ Sub(0, b) = -b
      <4>1. -a \in Signed /\ -b \in Signed /\ 0 - a = -a /\ 0 - b = -b
        BY <1>1, <2>3, WordWidths
      <4> QED
        BY <1>1, <4>1, Converted DEF Sub
    <3>2. Div(I_MAX, -b) = I_MAX \div (-b)
      <4>1. I_MAX \div (-b) \in 0 .. I_MAX
        BY <1>2, <2>1, ExceedsQuotient
      <4>2. Abs(I_MAX) = I_MAX /\ Abs(-b) = -b /\ (I_MAX < 0) = (-b < 0)
        BY <1>2, <2>1 DEF Abs
      <4>3. I_MAX \div (-b) \in Signed
        BY <1>2, <4>1, WordWidths
      <4> QED
        BY <4>1, <4>2, <4>3, Converted DEF Div
    <3>3. -a > Div(I_MAX, -b) <=> p > I_MAX
      BY <1>2, <2>1, <3>2, ExceedsQuotient
    <3>4. sat_mul_i(a, b) = IF p > I_MAX THEN I_MAX ELSE Mul(a, b)
      BY <1>1, <1>10, <2>3, <3>1, <3>3 DEF sat_mul_i
    <3>5. sat_mul_i(a, b) = clamp(p, I_MIN, I_MAX)
      BY <1>1, <1>2, <1>3, <1>4, <2>1, <3>4 DEF clamp
    <3> QED
      BY <1>5, <3>5
  <2> QED
    BY <2>2, <2>3
<1> QED
  BY <1>1, <1>6, <1>7, <1>8, <1>9, <1>10

LEMMA UnsignedProducts ==
  ASSUME NEW a \in Unsigned, NEW b \in Unsigned
  PROVE  /\ sat_mul_u(a, b) = clamp(a * b, 0, U_MAX)
         /\ sat_mul_wide_u(a, b) = clamp(a * b, 0, U_MAX)
<1> DEFINE p == a * b
<1>1. a \in Nat /\ b \in Nat /\ p \in Nat /\ U_MAX \in Nat /\ Unsigned = 0 .. U_MAX
  BY WordWidths
<1>2. p <= U_MAX => as_u(p) = p
  BY <1>1, Remainder
<1>3. sat_mul_wide_u(a, b) = clamp(p, 0, U_MAX)
  BY <1>1, <1>2 DEF sat_mul_wide_u, clamp
<1>4. CASE a = 0 \/ b = 0
  <2>1. p = 0
    BY <1>1, <1>4
  <2> QED
    BY <1>1, <1>3, <1>4, <2>1 DEF sat_mul_u, clamp
<1>5. CASE a # 0 /\ b # 0
  <2>1. a > U_MAX \div b <=> p > U_MAX
    BY <1>1, <1>5, ExceedsQuotient
  <2>2. sat_mul_u(a, b) = clamp(p, 0, U_MAX)
    BY <1>1, <1>2, <1>5, <2>1 DEF sat_mul_u, clamp
  <2> QED
    BY <1>3, <2>2
<1> QED
  BY <1>4, <1>5

-----------------------------------------------------------------------------
(* The flag of a checked result says whether the exact one fits.           *)

LEMMA SignedChecked ==
  ASSUME NEW x \in Int, NEW sat, sat = clamp(x, I_MIN, I_MAX)
  PROVE  Agrees(ckd_i(x), sat, x, I_MIN, I_MAX)
<1>1. x \in Signed <=> I_MIN <= x /\ x <= I_MAX
  BY WordWidths
<1>2. (ckd_i(x).flag <=> x \notin Signed) /\ (x \in Signed => ckd_i(x).val = x)
  BY Converted DEF ckd_i
<1>3. I_MIN \in Int /\ I_MAX \in Int /\ I_MIN < 0 /\ I_MAX >= 0
  BY WordWidths
<1>4. CASE x \in Signed
  BY <1>1, <1>2, <1>3, <1>4 DEF Agrees, clamp
<1>5. CASE x \notin Signed
  <2>1. sat = IF x < I_MIN THEN I_MIN ELSE I_MAX
    BY <1>1, <1>3, <1>5 DEF clamp
  <2>2. x < I_MIN <=> x < 0
    BY <1>1, <1>3, <1>5
  <2> QED
    BY <1>2, <1>5, <2>1, <2>2 DEF Agrees
<1> QED
  BY <1>4, <1>5

LEMMA UnsignedChecked ==
  ASSUME NEW x \in Int, NEW sat, sat = clamp(x, 0, U_MAX)
  PROVE  Agrees(ckd_u(x), sat, x, 0, U_MAX)
<1>1. x \in Unsigned <=> 0 <= x /\ x <= U_MAX
  BY WordWidths
<1>2. (ckd_u(x).flag <=> x \notin Unsigned) /\ (x \in Unsigned => ckd_u(x).val = x)
  BY Remainder DEF ckd_u
<1>3. U_MAX \in Nat
  BY WordWidths
<1>4. CASE x \in Unsigned
  BY <1>1, <1>2, <1>3, <1>4 DEF Agrees, clamp
<1>5. CASE x \notin Unsigned
  <2>1. sat = IF x < 0 THEN 0 ELSE U_MAX
    BY <1>1, <1>3, <1>5 DEF clamp
  <2>2. x < 0 <=> x < 0
    BY <1>1, <1>3, <1>5
  <2> QED
    BY <1>2, <1>5, <2>1, <2>2 DEF Agrees
<1> QED
  BY <1>4, <1>5

LEMMA SignAndSize ==
  ASSUME NEW a \in Signed, a # I_MIN
  PROVE  sign(a) * abs(a) = a /\ abs(a) = max(a, sat_sub_i(0, a))
<1>1. a \in Int /\ -a \in Signed /\ 0 \in Signed /\ 0 - a = -a
  BY WordWidths
<1>2. Sub(0, a) = -a
  BY <1>1, Converted DEF Sub
<1>3. sat_sub_i(0, a) = -a
  <2>1. I_MIN <= -a /\ -a <= I_MAX
    BY <1>1, WordWidths
  <2>2. sat_sub_i(0, a) = clamp(-a, I_MIN, I_MAX)
    BY <1>1, SignedSums
  <2> QED
    BY <1>1, <2>1, <2>2, WordWidths DEF clamp
<1>4. sign(a) * abs(a) = a
  <2>1. CASE a > 0
    BY <1>1, <2>1 DEF sign, abs
  <2>2. CASE a = 0
    BY <1>1, <2>2 DEF sign, abs
  <2>3. CASE a < 0
    <3>1. sign(a) = -1 /\ abs(a) = -a
      BY <1>1, <1>2, <2>3 DEF sign, abs
    <3> QED
      BY <1>1, <3>1
  <2> QED
    BY <1>1, <2>1, <2>2, <2>3
<1>5. abs(a) = max(a, sat_sub_i(0, a))
  BY <1>1, <1>2, <1>3 DEF abs, max
<1> QED
  BY <1>4, <1>5

\* The saturating functions of sat.c return the exact result clamped to the
\* range of their type, for integers of every width, and agree with ckd.c.
THEOREM ArithmeticIsExact == ArithmeticExact
<1>1. ASSUME NEW a \in Signed, NEW b \in Signed
      PROVE  /\ SignedSaturates(a, b)
             /\ Agrees(ckd_i(a + b), sat_add_i(a, b), a + b, I_MIN, I_MAX)
             /\ Agrees(ckd_i(a - b), sat_sub_i(a, b), a - b, I_MIN, I_MAX)
             /\ Agrees(ckd_i(a * b), sat_mul_i(a, b), a * b, I_MIN, I_MAX)
             /\ a # I_MIN => sign(a) * abs(a) = a /\ abs(a) = max(a, sat_sub_i(0, a))
             /\ a <= b => clamp(0, a, b) = max(a, min(0, b))
  <2>1. SignedSaturates(a, b)
    BY SignedSums, SignedProducts DEF SignedSaturates
  <2>2. a \in Int /\ b \in Int /\ a + b \in Int /\ a - b \in Int /\ a * b \in Int
    BY WordWidths
  <2>3. Agrees(ckd_i(a + b), sat_add_i(a, b), a + b, I_MIN, I_MAX)
    BY <2>2, SignedSums, SignedChecked
  <2>4. Agrees(ckd_i(a - b), sat_sub_i(a, b), a - b, I_MIN, I_MAX)
    BY <2>2, SignedSums, SignedChecked
  <2>5. Agrees(ckd_i(a * b), sat_mul_i(a, b), a * b, I_MIN, I_MAX)
    BY <2>2, SignedProducts, SignedChecked
  <2>6. a <= b => clamp(0, a, b) = max(a, min(0, b))
    BY <2>2 DEF clamp, max, min
  <2> QED
    BY <2>1, <2>3, <2>4, <2>5, <2>6, SignAndSize
<1>2. ASSUME NEW a \in Unsigned, NEW b \in Unsigned
      PROVE  /\ UnsignedSaturates(a, b)
             /\ Agrees(ckd_u(a + b), sat_add_u(a, b), a + b, 0, U_MAX)
             /\ Agrees(ckd_u(a - b), sat_sub_u(a, b), a - b, 0, U_MAX)
             /\ Agrees(ckd_u(a * b), sat_mul_u(a, b), a * b, 0, U_MAX)
  <2>1. UnsignedSaturates(a, b)
    BY UnsignedSums, UnsignedProducts DEF UnsignedSaturates
  <2>2. a + b \in Int /\ a - b \in Int /\ a * b \in Int
    BY WordWidths
  <2>3. Agrees(ckd_u(a + b), sat_add_u(a, b), a + b, 0, U_MAX)
    BY <2>2, UnsignedSums, UnsignedChecked
  <2>4. Agrees(ckd_u(a - b), sat_sub_u(a, b), a - b, 0, U_MAX)
    BY <2>2, UnsignedSums, UnsignedChecked
  <2>5. Agrees(ckd_u(a * b), sat_mul_u(a, b), a * b, 0, U_MAX)
    BY <2>2, UnsignedProducts, UnsignedChecked
  <2> QED
    BY <2>1, <2>3, <2>4, <2>5
<1> QED
  BY <1>1, <1>2 DEF ArithmeticExact

\* sat.c, ckd.c, abs.c, sign.c, bounds.c: whatever the client does, saturating
\* arithmetic is the exact one, clamped, and the checked one says when it is
\* not exact.
THEOREM SatExactHolds == Spec => []SatExact
<1>1. SatExact
  BY ArithmeticIsExact DEF SatExact
<1> QED
  BY <1>1, PTL

-----------------------------------------------------------------------------
(* rand.c: draws.                                                          *)

\* Quotient and remainder are what they have to be.
LEMMA ModUnique ==
  ASSUME NEW x \in Int, NEW d \in Nat \ {0}, NEW q \in Int, NEW r \in 0 .. d - 1, x = d * q + r
  PROVE  x % d = r
<1>0. PICK p, e : p = x \div d /\ e = x % d
  OBVIOUS
<1>1. p \in Int /\ e \in 0 .. d - 1 /\ x = d * p + e
  BY <1>0, DivMod
<1>2. d * (p - q) = r - e
  <2>1. PICK a \in Int, b \in Int : a = d * p /\ b = d * q
    BY <1>1
  <2>2. d * (p - q) = a - b
    BY <1>1, <2>1
  <2>3. x = a + e /\ x = b + r
    BY <1>1, <2>1
  <2>4. a - b = r - e
    BY <1>1, <2>3
  <2> QED
    BY <2>2, <2>4
<1>3. PICK k \in Int : k = p - q
  BY <1>1
<1>4. d * k = r - e
  BY <1>2, <1>3
<1>5. ~ (k >= 1)
  <2>1. SUFFICES ASSUME k >= 1 PROVE FALSE
    OBVIOUS
  <2>2. d * k >= d
    BY <2>1
  <2> QED
    BY <1>1, <1>4, <2>2
<1>6. ~ (k <= -1)
  <2>1. SUFFICES ASSUME k <= -1 PROVE FALSE
    OBVIOUS
  <2>2. d * k <= -d
    BY <2>1
  <2> QED
    BY <1>1, <1>4, <2>2
<1>7. k = 0
  BY <1>5, <1>6
<1>8. r - e = 0
  BY <1>4, <1>7
<1>9. r = e
  BY <1>1, <1>8
<1> QED
  BY <1>0, <1>9

\* As many numbers as multiples of d fit leave each remainder equally often.
LEMMA Residues ==
  ASSUME NEW d \in Nat \ {0}, NEW t \in 0 .. d - 1, NEW m \in Nat, NEW r \in 0 .. d - 1
  PROVE  /\ IsFiniteSet({ x \in t .. t + d * m - 1 : x % d = r })
         /\ Cardinality({ x \in t .. t + d * m - 1 : x % d = r }) = m
<1>1. PICK S : S = { x \in t .. t + d * m - 1 : x % d = r }
  OBVIOUS
<1>2. PICK b \in t .. t + d - 1, c \in {0, 1} : b = r + d * c
  <2>1. CASE r >= t
    <3>1. r = r + d * 0
      OBVIOUS
    <3> QED
      BY <2>1, <3>1
  <2>2. CASE r < t
    <3>1. r + d = r + d * 1 /\ r + d \in t .. t + d - 1
      BY <2>2
    <3> QED
      BY <3>1
  <2> QED
    BY <2>1, <2>2
<1>3. d * m \in Nat
  OBVIOUS
<1>4. PICK f : f = [k \in 0 .. m - 1 |-> b + d * k]
  OBVIOUS
<1>5. ASSUME NEW k \in 0 .. m - 1 PROVE f[k] \in S /\ f[k] = b + d * k
  <2>1. f[k] = b + d * k
    BY <1>4
  <2>2. d * k \in Nat /\ d * (k + 1) = d * k + d /\ d * (k + 1) <= d * m
    OBVIOUS
  <2>3. b + d * k \in t .. t + d * m - 1
    BY <1>2, <1>3, <2>2
  <2>4. d * (k + c) = d * k + d * c /\ k + c \in Int
    BY <1>2
  <2>5. b + d * k = d * (k + c) + r
    BY <1>2, <2>2, <2>4
  <2>6. (b + d * k) % d = r
    BY <2>3, <2>4, <2>5, ModUnique
  <2> QED
    BY <1>1, <2>1, <2>3, <2>6
<1>6. ASSUME NEW x \in S PROVE \E k \in 0 .. m - 1 : f[k] = x
  <2>1. x \in t .. t + d * m - 1 /\ x % d = r
    BY <1>1
  <2>2. PICK q \in Int : x = d * q + r
    <3>1. x \in Int
      BY <1>3, <2>1
    <3>2. x = d * (x \div d) + (x % d) /\ x \div d \in Int
      BY <3>1, DivMod
    <3> QED
      BY <2>1, <3>2
  <2>3. PICK k \in Int : k = q - c
    BY <1>2
  <2>4. d * k = d * q - d * c
    BY <1>2, <2>3
  <2>5. x = b + d * k
    BY <1>2, <2>2, <2>4
  <2>6. d * k \in Int /\ d * k > -d /\ d * k < d * m
    BY <1>2, <1>3, <2>1, <2>5
  <2>7. k >= 0
    <3>1. SUFFICES ASSUME k <= -1 PROVE FALSE
      OBVIOUS
    <3>2. d * k <= -d
      BY <3>1
    <3> QED
      BY <2>6, <3>2
  <2>8. k <= m - 1
    <3>1. SUFFICES ASSUME k >= m PROVE FALSE
      OBVIOUS
    <3>2. d * k >= d * m
      BY <3>1
    <3> QED
      BY <1>3, <2>6, <3>2
  <2>9. k \in 0 .. m - 1
    BY <2>7, <2>8
  <2>10. f[k] = b + d * k
    BY <1>5, <2>9
  <2> QED
    BY <2>5, <2>9, <2>10
<1>7. ASSUME NEW k \in 0 .. m - 1, NEW j \in 0 .. m - 1, f[k] = f[j] PROVE k = j
  <2>1. d * k \in Int /\ d * j \in Int /\ b \in Int
    BY <1>2
  <2>2. d * k = d * j
    BY <1>5, <1>7, <2>1
  <2>3. d * (k - j) = d * k - d * j
    OBVIOUS
  <2>4. d * (k - j) = 0
    BY <2>1, <2>2, <2>3
  <2>5. ~ (k - j >= 1) /\ ~ (k - j <= -1)
    BY <2>4
  <2> QED
    BY <2>5
<1>8. f \in Bijection(0 .. m - 1, S)
  <2>1. f \in [0 .. m - 1 -> S]
    BY <1>4, <1>5
  <2> QED
    BY <1>6, <1>7, <2>1 DEF Bijection, Injection, Surjection, IsInjective
<1>9. IsFiniteSet(0 .. m - 1) /\ Cardinality(0 .. m - 1) = m
  <2>1. m - 1 \in Int /\ 0 \in Int /\ (0 > m - 1 <=> m = 0) /\ m - 1 - 0 + 1 = m
    OBVIOUS
  <2> QED
    BY <2>1, FS_Interval
<1>10. ExistsBijection(0 .. m - 1, S)
  BY <1>8 DEF ExistsBijection
<1>11. IsFiniteSet(S) /\ Cardinality(S) = m
  BY <1>9, <1>10, FS_Bijection
<1> QED
  BY <1>1, <1>11

LEMMA WordCount == WORDS \in Nat /\ WORDS >= 2 /\ Half \in Nat \ {0} /\ WORDS = 2 * Half
BY HalfPositive DEF WORDS

\* What is accepted is as long as a multiple of the range.
LEMMA AcceptsMultiple ==
  ASSUME NEW d \in 1 .. WORDS - 1
  PROVE  \E t \in 0 .. d - 1, m \in Nat \ {0} : Accepted(d) = t .. t + d * m - 1
<1>1. PICK W \in Nat : W = WORDS
  BY WordCount
<1>2. (W - d) % W = W - d
  <2>1. W - d \in 0 .. W - 1 /\ W - d = W * 0 + (W - d) /\ W \in Nat \ {0}
    BY <1>1
  <2> QED
    BY <2>1, ModUnique
<1>3. PICK t, q : t = (W - d) % d /\ q = (W - d) \div d
  OBVIOUS
<1>4. t \in 0 .. d - 1 /\ q \in Int /\ W - d = d * q + t
  BY <1>1, <1>3, DivMod
<1>5. q >= 0
  <2>1. SUFFICES ASSUME q <= -1 PROVE FALSE
    BY <1>4
  <2>2. d * q <= -d
    BY <1>4, <2>1
  <2> QED
    BY <1>1, <1>4, <2>2
<1>6. PICK m \in Nat \ {0} : m = q + 1
  BY <1>4, <1>5
<1>7. d * m = d * q + d /\ d * q \in Int /\ d * m \in Int
  BY <1>4, <1>6
<1>8. W = t + d * m
  BY <1>1, <1>4, <1>7
<1>9. Accepted(d) = { x \in 0 .. W - 1 : x >= t }
  BY <1>1, <1>2, <1>3 DEF Accepted
<1>10. { x \in 0 .. W - 1 : x >= t } = t .. t + d * m - 1
  BY <1>4, <1>7, <1>8
<1> QED
  BY <1>4, <1>6, <1>9, <1>10

\* Each result below the bound comes from equally many words.
LEMMA DrawsEven ==
  ASSUME NEW hi \in 0 .. WORDS - 1
  PROVE  /\ \A x \in Draws(hi) : max_of(hi, x) \in 0 .. hi
         /\ \E m \in Nat \ {0} : \A r \in 0 .. hi :
              /\ IsFiniteSet({ x \in Draws(hi) : max_of(hi, x) = r })
              /\ Cardinality({ x \in Draws(hi) : max_of(hi, x) = r }) = m
<1>1. CASE hi = WORDS - 1
  <2>1. Draws(hi) = 0 .. hi /\ \A x \in Draws(hi) : max_of(hi, x) = x
    BY <1>1 DEF Draws, max_of
  <2>2. ASSUME NEW r \in 0 .. hi PROVE { x \in Draws(hi) : max_of(hi, x) = r } = {r}
    BY <2>1
  <2>3. \A r \in 0 .. hi : IsFiniteSet({r}) /\ Cardinality({r}) = 1
    BY FS_Singleton
  <2>4. \A r \in 0 .. hi : /\ IsFiniteSet({ x \in Draws(hi) : max_of(hi, x) = r })
                           /\ Cardinality({ x \in Draws(hi) : max_of(hi, x) = r }) = 1
    BY <2>2, <2>3
  <2> QED
    BY <2>1, <2>4
<1>2. CASE hi # WORDS - 1
  <2>1. PICK d \in 1 .. WORDS - 1 : d = hi + 1 /\ d \in Nat \ {0}
    BY <1>2, WordCount
  <2>2. Draws(hi) = Accepted(d) /\ \A x : max_of(hi, x) = x % d
    BY <1>2, <2>1 DEF Draws, max_of
  <2>3. PICK t \in 0 .. d - 1, m \in Nat \ {0} : Accepted(d) = t .. t + d * m - 1
    BY AcceptsMultiple
  <2>4. \A r \in 0 .. hi : { x \in Draws(hi) : max_of(hi, x) = r } = { x \in t .. t + d * m - 1 : x % d = r }
    BY <2>2, <2>3
  <2>5. ASSUME NEW r \in 0 .. hi
        PROVE  /\ IsFiniteSet({ x \in t .. t + d * m - 1 : x % d = r })
               /\ Cardinality({ x \in t .. t + d * m - 1 : x % d = r }) = m
    <3>1. r \in 0 .. d - 1
      BY <2>1
    <3> QED
      BY <2>1, <3>1, Residues
  <2>6. ASSUME NEW x \in Draws(hi) PROVE max_of(hi, x) \in 0 .. hi
    <3>1. d * m \in Int
      BY <2>1
    <3>2. x \in Int
      BY <2>2, <2>3, <3>1
    <3>3. x % d \in 0 .. d - 1
      BY <2>1, <3>2, DivMod
    <3> QED
      BY <2>1, <2>2, <3>3
  <2> QED
    BY <2>4, <2>5, <2>6
<1> QED
  BY <1>1, <1>2

LEMMA DrawsUniform ==
  ASSUME NEW hi \in 0 .. WORDS - 1
  PROVE  Uniform(0 .. hi, Draws(hi), LAMBDA x : max_of(hi, x))
<1>1. PICK m \in Nat \ {0} : \A r \in 0 .. hi :
              /\ IsFiniteSet({ x \in Draws(hi) : max_of(hi, x) = r })
              /\ Cardinality({ x \in Draws(hi) : max_of(hi, x) = r }) = m
  BY DrawsEven
<1>2. ASSUME NEW r \in 0 .. hi PROVE \E x \in Draws(hi) : max_of(hi, x) = r
  <2>1. Cardinality({ x \in Draws(hi) : max_of(hi, x) = r }) = m /\ m # 0
    BY <1>1
  <2>2. { x \in Draws(hi) : max_of(hi, x) = r } # {}
    BY <2>1, FS_EmptySet
  <2> QED
    BY <2>2
<1>3. { max_of(hi, x) : x \in Draws(hi) } = 0 .. hi
  BY <1>2, DrawsEven
<1> QED
  BY <1>1, <1>3 DEF Uniform

\* The conversion to the signed type.
LEMMA ConvertsToSigned ==
  ASSUME NEW y \in 0 .. WORDS - 1
  PROVE  Wrapped(y) = IF y < Half THEN y ELSE y - WORDS
<1>1. y = WORDS * 0 + y
  BY WordCount
<1>2. y % WORDS = y
  BY <1>1, WordCount, ModUnique
<1> QED
  BY <1>2 DEF Wrapped

\* A draw below Half is added to lo; one of Half or more overflows.
LEMMA RangeShifts ==
  ASSUME NEW lo \in Ints, NEW hi \in Ints, lo <= hi, NEW x \in Draws(hi - lo)
  PROVE  /\ max_of(hi - lo, x) < Half => int_range(lo, hi, x) = {lo + max_of(hi - lo, x)}
         /\ max_of(hi - lo, x) >= Half => int_range(lo, hi, x) = Ints
<1>1. PICK W \in Nat \ {0}, H \in Nat \ {0} : W = WORDS /\ H = Half /\ W = 2 * H
  BY WordCount
<1>2. PICK d \in 0 .. W - 1 : d = hi - lo
  BY <1>1 DEF Ints
<1>3. d % W = d
  <2>1. d = W * 0 + d
    BY <1>1
  <2> QED
    BY <1>2, <2>1, ModUnique
<1>4. PICK y \in 0 .. d : y = max_of(d, x)
  BY <1>1, <1>2, DrawsEven
<1>5. Wrapped(y) = IF y < H THEN y ELSE y - W
  BY <1>1, <1>2, <1>4, ConvertsToSigned
<1>6. int_range(lo, hi, x) = IF lo + Wrapped(y) \in Ints THEN {lo + Wrapped(y)} ELSE Ints
  BY <1>1, <1>2, <1>3, <1>4 DEF int_range
<1>7. lo \in -H .. H - 1 /\ hi \in -H .. H - 1 /\ Ints = -H .. H - 1
  BY <1>1 DEF Ints
<1>8. CASE y < H
  <2>1. lo + y \in Ints
    BY <1>2, <1>7
  <2> QED
    BY <1>1, <1>2, <1>4, <1>5, <1>6, <1>8, <2>1
<1>9. CASE y >= H
  <2>1. lo + (y - W) \notin Ints
    BY <1>1, <1>2, <1>4, <1>7, <1>9
  <2>2. Wrapped(y) = y - W
    BY <1>4, <1>5, <1>9
  <2> QED
    BY <1>1, <1>2, <1>4, <1>6, <1>9, <2>1, <2>2
<1> QED
  BY <1>1, <1>2, <1>4, <1>8, <1>9

LEMMA RangesUniform ==
  ASSUME NEW lo \in Ints, NEW hi \in Ints, lo <= hi
  PROVE  RangeDraws(lo, hi)
<1>1. PICK d \in 0 .. WORDS - 1 : d = hi - lo
  BY WordCount DEF Ints
<1>2. lo \in Int /\ hi \in Int /\ Half \in Nat \ {0}
  BY WordCount DEF Ints
<1> HIDE DEF Half
<1>3. PICK m \in Nat \ {0} : \A r \in 0 .. d :
              /\ IsFiniteSet({ x \in Draws(d) : max_of(d, x) = r })
              /\ Cardinality({ x \in Draws(d) : max_of(d, x) = r }) = m
  BY DrawsEven
<1>4. \A x \in Draws(d) : max_of(d, x) \in 0 .. d
  BY DrawsEven
<1>5. \A r \in 0 .. d : \E x \in Draws(d) : max_of(d, x) = r
  <2>1. \A r \in 0 .. d : { x \in Draws(d) : max_of(d, x) = r } # {}
    BY <1>3, FS_EmptySet
  <2> QED
    BY <2>1
<1>6. CASE d < Half
  <2>1. \A x \in Draws(d) : int_range(lo, hi, x) = {lo + max_of(d, x)}
    BY <1>1, <1>2, <1>4, <1>6, RangeShifts
  <2>2. ASSUME NEW r \in lo .. hi
        PROVE  /\ { x \in Draws(d) : int_range(lo, hi, x) = {r} } = { x \in Draws(d) : max_of(d, x) = r - lo }
               /\ r - lo \in 0 .. d
    <3>1. r - lo \in 0 .. d
      BY <1>1, <1>2
    <3>2. \A x \in Draws(d) : lo + max_of(d, x) = r <=> max_of(d, x) = r - lo
      BY <1>2, <1>4
    <3>3. \A x \in Draws(d) : int_range(lo, hi, x) = {r} <=> max_of(d, x) = r - lo
      BY <2>1, <3>2
    <3> QED
      BY <3>1, <3>3
  <2>3. \A r \in lo .. hi : Cardinality({ x \in Draws(d) : int_range(lo, hi, x) = {r} }) = m
    BY <1>3, <2>2
  <2>4. ASSUME NEW r \in lo .. hi PROVE \E x \in Draws(d) : int_range(lo, hi, x) = {r}
    <3>1. PICK x \in Draws(d) : max_of(d, x) = r - lo
      BY <1>5, <2>2
    <3>2. lo + max_of(d, x) = r
      BY <1>2, <3>1
    <3> QED
      BY <2>1, <3>2
  <2>5. \A x \in Draws(d) : lo + max_of(d, x) \in lo .. hi
    BY <1>1, <1>2, <1>4
  <2>6. { int_range(lo, hi, x) : x \in Draws(d) } = { {r} : r \in lo .. hi }
    <3>1. \A x \in Draws(d) : int_range(lo, hi, x) \in { {r} : r \in lo .. hi }
      BY <2>1, <2>5
    <3>2. \A r \in lo .. hi : {r} \in { int_range(lo, hi, x) : x \in Draws(d) }
      BY <2>4
    <3> QED
      BY <3>1, <3>2
  <2>7. \A r, q \in { {i} : i \in lo .. hi } :
          Cardinality({ x \in Draws(d) : int_range(lo, hi, x) = r })
            = Cardinality({ x \in Draws(d) : int_range(lo, hi, x) = q })
    BY <2>3
  <2> QED
    BY <1>1, <1>6, <2>6, <2>7 DEF RangeDraws, Uniform
<1>7. CASE ~ (d < Half)
  <2>1. PICK x \in Draws(d) : max_of(d, x) = Half
    BY <1>2, <1>5, <1>7
  <2>2. int_range(lo, hi, x) = Ints
    BY <1>1, <1>2, <2>1, RangeShifts
  <2> QED
    BY <1>1, <1>7, <2>2 DEF RangeDraws
<1> QED
  BY <1>6, <1>7

-----------------------------------------------------------------------------
(* rand.c: the generator.                                                  *)

LEMMA XorEmpty ==
  ASSUME NEW a, NEW b
  PROVE  xor(a, b) = {} <=> a = b
BY DEF xor

\* A rotation moves every bit.
LEMMA RotatesAll ==
  ASSUME NEW w \in Nat \ {0}, NEW n \in 0 .. w, NEW v \in SUBSET Pos(w), rotl(w, v, n) = {}
  PROVE  v = {}
<1>1. SUFFICES ASSUME NEW p \in v PROVE FALSE
  OBVIOUS
<1>2. p \in 0 .. w - 1
  BY DEF Pos
<1>3. CASE n = 0
  BY <1>3 DEF rotl
<1>4. CASE n # 0 /\ p + n < w
  <2>1. p + n \in shl(w, v, n)
    BY <1>2, <1>4 DEF shl, Pos
  <2> QED
    BY <1>4, <2>1 DEF rotl
<1>5. CASE n # 0 /\ ~ (p + n < w)
  <2>1. p - (w - n) \in shr(w, v, w - n)
    BY <1>2, <1>5 DEF shr, Pos
  <2> QED
    BY <1>5, <2>1 DEF rotl
<1> QED
  BY <1>2, <1>3, <1>4, <1>5

\* A word that is its own shift has no lowest bit.
LEMMA ShiftsItself ==
  ASSUME NEW w \in Nat \ {0}, NEW v \in SUBSET Pos(w), v = shl(w, v, 1)
  PROVE  v = {}
<1>1. PICK S : S = { n \in Nat : n \notin v }
  OBVIOUS
<1>2. 0 \in S
  <2>1. \A p \in v : p \in Int /\ p >= 0 /\ p + 1 # 0
    BY DEF Pos
  <2> QED
    BY <1>1, <2>1 DEF shl
<1>3. ASSUME NEW n \in 0 .. w - 1, n \in S PROVE n + 1 \in S
  <2>1. SUFFICES ASSUME n + 1 \in v PROVE FALSE
    BY <1>1, <1>3
  <2>2. PICK p \in v : n + 1 = p + 1
    BY <2>1 DEF shl
  <2>3. p = n
    BY <2>2 DEF Pos
  <2> QED
    BY <1>1, <1>3, <2>2, <2>3
<1>4. \A n \in 0 .. w : n \in S
  <2>1. \A n \in 0 .. w - 1 : n \in S => n + 1 \in S
    BY <1>3
  <2> QED
    BY <1>2, <2>1, UpTo_Induction
<1> QED
  BY <1>1, <1>4 DEF Pos

\* rand.c: from a state that is not all zeros the generator never gets to the
\* one that is, whatever the width of its four words.
THEOREM NextNotZero ==
  ASSUME NEW w \in Nat \ {0}
  PROVE  NeverZero(w)
<1>1. SUFFICES ASSUME NEW st \in [0 .. 3 -> SUBSET Pos(w)], \A k \in 0 .. 3 : next(w, st).state[k] = {}
               PROVE  \A k \in 0 .. 3 : st[k] = {}
  BY DEF NeverZero
<1>2. PICK a, b, c, d : a = st[0] /\ b = st[1] /\ c = st[2] /\ d = st[3]
  OBVIOUS
<1>3. a \in SUBSET Pos(w) /\ b \in SUBSET Pos(w) /\ c \in SUBSET Pos(w) /\ d \in SUBSET Pos(w)
  BY <1>1, <1>2
<1>4. PICK c2, d2 : c2 = xor(c, a) /\ d2 = xor(d, b)
  OBVIOUS
<1>5. /\ next(w, st).state[0] = xor(a, d2) /\ next(w, st).state[1] = xor(b, c2)
      /\ next(w, st).state[2] = xor(c2, shl(w, b, 1)) /\ next(w, st).state[3] = rotl(w, d2, w - 1)
  BY <1>2, <1>4 DEF next
<1>6. xor(a, d2) = {} /\ xor(b, c2) = {} /\ xor(c2, shl(w, b, 1)) = {} /\ rotl(w, d2, w - 1) = {}
  BY <1>1, <1>5
<1>7. d2 \in SUBSET Pos(w)
  BY <1>3, <1>4 DEF xor
<1>8. d2 = {}
  BY <1>6, <1>7, RotatesAll
<1>9. a = {} /\ b = c2 /\ c2 = shl(w, b, 1) /\ d = b
  BY <1>4, <1>6, <1>8, XorEmpty
<1>10. b = {}
  BY <1>3, <1>9, ShiftsItself
<1>11. c = {}
  BY <1>4, <1>9, <1>10, XorEmpty
<1>12. st[0] = {} /\ st[1] = {} /\ st[2] = {} /\ st[3] = {}
  BY <1>2, <1>9, <1>10, <1>11
<1> QED
  BY <1>12

-----------------------------------------------------------------------------
(* rand.c: shuffles.                                                       *)

\* The tags of a permuted span are a permutation of the positions.
Tags(t) == [k \in DOMAIN t |-> t[k].tag]

LEMMA TagsPermute ==
  ASSUME NEW u, Numbered(u), NEW t, Perm(t, u)
  PROVE  Tags(t) \in Bijection(1 .. Len(u), 1 .. Len(u))
<1>1. PICK L \in Nat : L = Len(u) /\ DOMAIN u = 1 .. L /\ \A k \in 1 .. L : u[k].tag = k
  BY Positions DEF Numbered
<1>2. t \in Spans /\ Len(t) = L /\ DOMAIN t = 1 .. L /\ ToSet(t) = ToSet(u)
  BY <1>1, Positions DEF Perm
<1>3. u \in Spans
  BY DEF Numbered
<1>4. ASSUME NEW k \in 1 .. L PROVE t[k].tag \in 1 .. L
  <2>1. t[k] \in ToSet(t)
    BY <1>2, Members
  <2>2. PICK j \in 1 .. L : t[k] = u[j]
    BY <1>1, <1>2, <1>3, <2>1, Members
  <2> QED
    BY <1>1, <2>2
<1>5. ASSUME NEW j \in 1 .. L PROVE \E k \in 1 .. L : t[k].tag = j
  <2>1. u[j] \in ToSet(u)
    BY <1>1, <1>3, Members
  <2>2. PICK k \in 1 .. L : u[j] = t[k]
    BY <1>2, <2>1, Members
  <2> QED
    BY <1>1, <2>2
<1>6. Tags(t) = [k \in 1 .. L |-> t[k].tag]
  BY <1>2 DEF Tags
<1>7. Tags(t) \in Surjection(1 .. L, 1 .. L)
  <2>1. Tags(t) \in [1 .. L -> 1 .. L]
    BY <1>4, <1>6
  <2> QED
    BY <1>5, <1>6, <2>1 DEF Surjection
<1>8. IsFiniteSet(1 .. L)
  BY FS_Interval
<1>9. Tags(t) \in Injection(1 .. L, 1 .. L)
  BY <1>7, <1>8, FS_SurjSameCardinalityImpliesInj
<1> QED
  BY <1>1, <1>7, <1>9 DEF Bijection

\* Some span in T has at the positions behind m the elements that p puts there.
Reaches(T, L, m) ==
  \A p \in Bijection(1 .. L, 1 .. L) : \E t \in T : \A k \in m + 1 .. L : t[k].tag = p[k]

LEMMA DrawReaches ==
  ASSUME NEW u, Numbered(u), NEW L \in Nat, L = Len(u), NEW m \in 2 .. L,
         NEW T, \A t \in T : Perm(t, u), Reaches(T, L, m)
  PROVE  Reaches(Drawn(T, m - 1), L, m - 1)
<1>1. SUFFICES ASSUME NEW p \in Bijection(1 .. L, 1 .. L)
               PROVE  \E v \in Drawn(T, m - 1) : \A k \in (m - 1) + 1 .. L : v[k].tag = p[k]
  BY DEF Reaches
<1>2. /\ \A k \in 1 .. L : p[k] \in 1 .. L
      /\ \A i, k \in 1 .. L : p[i] = p[k] => i = k
  BY DEF Bijection, Injection, Surjection, IsInjective
<1>3. PICK t \in T : \A k \in m + 1 .. L : t[k].tag = p[k]
  BY <1>1 DEF Reaches
<1>4. t \in Spans /\ Len(t) = L /\ DOMAIN t = 1 .. L
  BY Positions DEF Perm
<1>5. Tags(t) \in Bijection(1 .. L, 1 .. L)
  BY TagsPermute
<1>6. PICK j \in 1 .. L : t[j].tag = p[m]
  <2>1. m \in 1 .. L
    OBVIOUS
  <2>2. \E j \in 1 .. L : Tags(t)[j] = p[m]
    BY <1>2, <1>5, <2>1 DEF Bijection, Surjection
  <2> QED
    BY <1>4, <2>2 DEF Tags
<1>7. j <= m
  BY <1>2, <1>3, <1>6
<1>8. PICK v : v = swap(t, m - 1, j - 1)
  OBVIOUS
<1>9. v \in Drawn(T, m - 1)
  <2>1. j - 1 \in 0 .. m - 1
    BY <1>7
  <2> QED
    BY <1>8, <2>1 DEF Drawn
<1>10. ASSUME NEW k \in (m - 1) + 1 .. L PROVE v[k].tag = p[k]
  <2>1. m - 1 \in 0 .. Len(t) - 1 /\ j - 1 \in 0 .. Len(t) - 1 /\ k \in 1 .. Len(t)
    BY <1>4, <1>7
  <2>2. v[k] = IF k = (j - 1) + 1 THEN t[(m - 1) + 1] ELSE IF k = (m - 1) + 1 THEN t[(j - 1) + 1] ELSE t[k]
    BY <1>4, <1>8, <2>1, SwapSpan
  <2>3. v[k] = IF k = j THEN t[m] ELSE IF k = m THEN t[j] ELSE t[k]
    BY <2>2
  <2>4. CASE k = m
    BY <1>6, <2>3, <2>4
  <2>5. CASE k # m
    <3>1. k \in m + 1 .. L /\ k # j
      BY <1>7, <2>5
    <3> QED
      BY <1>3, <2>3, <2>5, <3>1
  <2> QED
    BY <2>4, <2>5
<1> QED
  BY <1>9, <1>10

\* Only the first element is left: it is the one that p puts there.
LEMMA ReachesFirst ==
  ASSUME NEW u, Numbered(u), NEW L \in Nat \ {0}, L = Len(u),
         NEW T, \A t \in T : Perm(t, u), Reaches(T, L, 1), NEW p \in Bijection(1 .. L, 1 .. L)
  PROVE  \E t \in T : Tags(t) = p
<1>2. /\ p \in [1 .. L -> 1 .. L]
      /\ \A i, k \in 1 .. L : p[i] = p[k] => i = k
  BY DEF Bijection, Injection, Surjection, IsInjective
<1>3. PICK t \in T : \A k \in 2 .. L : t[k].tag = p[k]
  <2>1. PICK t \in T : \A k \in 1 + 1 .. L : t[k].tag = p[k]
    BY DEF Reaches
  <2> QED
    BY <2>1
<1>4. t \in Spans /\ Len(t) = L /\ DOMAIN t = 1 .. L
  BY Positions DEF Perm
<1>5. Tags(t) \in Bijection(1 .. L, 1 .. L)
  BY TagsPermute
<1>6. PICK j \in 1 .. L : t[j].tag = p[1]
  <2>1. 1 \in 1 .. L
    OBVIOUS
  <2>2. \E j \in 1 .. L : Tags(t)[j] = p[1]
    BY <1>2, <1>5, <2>1 DEF Bijection, Surjection
  <2> QED
    BY <1>4, <2>2 DEF Tags
<1>7. j = 1
  <2>1. SUFFICES ASSUME j # 1 PROVE FALSE
    OBVIOUS
  <2>2. j \in 2 .. L /\ 1 \in 1 .. L
    BY <2>1
  <2> QED
    BY <1>2, <1>3, <1>6, <2>1, <2>2
<1>8. \A k \in 1 .. L : t[k].tag = p[k]
  <2>1. \A k \in 1 .. L : k = 1 \/ k \in 2 .. L
    OBVIOUS
  <2> QED
    BY <1>3, <1>6, <1>7, <2>1
<1>9. Tags(t) = p
  BY <1>2, <1>4, <1>8 DEF Tags
<1> QED
  BY <1>9

LEMMA ShufflesReach ==
  ASSUME NEW u, Numbered(u), NEW p \in Bijection(1 .. Len(u), 1 .. Len(u))
  PROVE  \E t \in shuffles(u) : Tags(t) = p
<1>a. PICK L \in Nat : L = Len(u) /\ DOMAIN u = 1 .. L /\ u \in Spans /\ \A k \in 1 .. L : u[k].tag = k
  BY Positions DEF Numbered
<1>b. Perm(u, u)
  BY <1>a DEF Perm
<1>c. CASE L < 2
  <2>1. shuffles(u) = {u}
    BY <1>a, <1>c DEF shuffles, Loop
  <2>2. p \in [1 .. L -> 1 .. L]
    BY <1>a DEF Bijection, Injection
  <2>3. \A k \in 1 .. L : k = 1 /\ 1 .. L = {1}
    BY <1>c
  <2>4. \A k \in 1 .. L : p[k] = u[k].tag
    BY <1>a, <2>2, <2>3
  <2>5. Tags(u) = p
    BY <1>a, <2>2, <2>4 DEF Tags
  <2> QED
    BY <2>1, <2>5
<1>d. CASE L >= 2
  <2>a. PICK len \in Nat : len = L - 1
    BY <1>d
  <2> DEFINE step(T, n) == Drawn(T, Len(u) - 1 - n)
             start == {u}
             P == { t \in Spans : Perm(t, u) }
             A == [n \in 0 .. len |-> { T \in SUBSET P : Reaches(T, L, L - n) }]
             F == [n \in 0 .. len - 1 |-> [a \in A[n] |-> step(a, n)]]
  <2>1. start \in A[0]
    <3>1. 0 \in 0 .. len /\ (L - 0) + 1 .. L = {}
      BY <2>a
    <3>2. start \in SUBSET P
      BY <1>a, <1>b
    <3>3. Reaches(start, L, L - 0)
      BY <3>1 DEF Reaches
    <3> QED
      BY <3>1, <3>2, <3>3
  <2>2. ASSUME NEW n \in 0 .. len - 1, NEW T \in A[n] PROVE step(T, n) \in A[n + 1]
    <3>1. n \in 0 .. len /\ n + 1 \in 0 .. len /\ L - 1 - n \in 0 .. L - 1
      BY <2>a
    <3>2. ASSUME NEW t \in T, NEW j \in 0 .. Len(u) - 1 - n PROVE swap(t, Len(u) - 1 - n, j) \in P
      <4>1. t \in Spans /\ Perm(t, u) /\ Len(t) = L
        BY <1>a, <3>1 DEF Perm
      <4>2. j \in 0 .. Len(t) - 1 /\ Len(u) - 1 - n \in 0 .. Len(t) - 1
        BY <1>a, <3>1, <4>1
      <4>3. swap(t, Len(u) - 1 - n, j) \in Spans /\ Perm(swap(t, Len(u) - 1 - n, j), t)
        BY <4>1, <4>2, SwapSpan
      <4> QED
        BY <4>1, <4>3, PermTrans
    <3>3. step(T, n) \in SUBSET P
      BY <3>2 DEF Drawn
    <3>4. T \in SUBSET P /\ Reaches(T, L, L - n)
      BY <3>1
    <3>5. L - n \in 2 .. L /\ Len(u) - 1 - n = (L - n) - 1 /\ L - (n + 1) = (L - n) - 1
      BY <1>a, <2>a, <3>1
    <3>6. Reaches(Drawn(T, (L - n) - 1), L, (L - n) - 1)
      BY <1>a, <3>4, <3>5, DrawReaches
    <3>7. Reaches(step(T, n), L, L - (n + 1))
      BY <3>5, <3>6
    <3> QED
      BY <3>1, <3>3, <3>7
  <2> HIDE DEF A
  <2>3. Leads(F, len, A)
    BY <2>2 DEF Leads
  <2> HIDE DEF F, step, start
  <2>4. PICK f : Runs(f, len, start, F) /\ \A n \in 0 .. len : f[n] \in A[n]
    BY <2>1, <2>3, LoopExists
  <2>5. f = [n \in 0 .. len |-> IF n = 0 THEN start ELSE step(f[n - 1], n - 1)]
    <3>1. ASSUME NEW n \in 0 .. len PROVE f[n] = IF n = 0 THEN start ELSE step(f[n - 1], n - 1)
      <4>1. CASE n = 0
        BY <2>4, <4>1 DEF Runs
      <4>2. CASE n # 0
        <5>1. n - 1 \in 0 .. len - 1 /\ n - 1 \in 0 .. len
          BY <4>2
        <5>2. f[n] = F[n - 1][f[n - 1]] /\ f[n - 1] \in A[n - 1]
          BY <2>4, <4>2, <5>1 DEF Runs
        <5> QED
          BY <4>2, <5>1, <5>2 DEF F
      <4> QED
        BY <4>1, <4>2
    <3> QED
      BY <2>4, <3>1 DEF Runs
  <2>c. /\ Len(u) - 1 = len /\ ~(Len(u) < 2)
        /\ f = [n \in 0 .. Len(u) - 1 |-> IF n = 0 THEN {u} ELSE Drawn(f[n - 1], Len(u) - 1 - (n - 1))]
    <3>1. Len(u) - 1 = len /\ ~(Len(u) < 2)
      BY <1>a, <1>d, <2>a
    <3>2. f = [n \in 0 .. len |-> IF n = 0 THEN {u} ELSE Drawn(f[n - 1], Len(u) - 1 - (n - 1))]
      BY <2>5 DEF step, start
    <3> QED
      BY <3>1, <3>2
  <2>d. PICK g : /\ g = [n \in 0 .. Len(u) - 1 |-> IF n = 0 THEN {u} ELSE Drawn(g[n - 1], Len(u) - 1 - (n - 1))]
                 /\ shuffles(u) = g[Len(u) - 1]
    BY <2>c DEF shuffles, Loop
  <2>6. /\ g = [n \in 0 .. len |-> IF n = 0 THEN start ELSE step(g[n - 1], n - 1)]
        /\ shuffles(u) = g[len]
    BY <2>c, <2>d DEF step, start
  <2>7. g[len] \in A[len]
    <3>1. g[0] \in A[0]
      BY <2>1, <2>6
    <3>2. ASSUME NEW n \in 0 .. len - 1, g[n] \in A[n] PROVE g[n + 1] \in A[n + 1]
      <4>1. g[n + 1] = step(g[n], n)
        BY <2>6
      <4> QED
        BY <2>2, <3>2, <4>1
    <3> QED
      BY <3>1, <3>2, LoopKeeps
  <2>8. len \in 0 .. len /\ L - len = 1
    BY <2>a
  <2>9. shuffles(u) \in SUBSET P /\ Reaches(shuffles(u), L, 1)
    BY <2>6, <2>7, <2>8 DEF A
  <2> QED
    BY <1>a, <1>d, <2>9, ReachesFirst
<1> QED
  BY <1>a, <1>c, <1>d

LEMMA RandomRight ==
  ASSUME Numbered(s)
  PROVE  RandomUniform
<1>1. ASSUME NEW u \in shuffles(s) PROVE [i \in DOMAIN s |-> u[i].tag] = Tags(u) /\ Perm(u, s)
  <2>1. s \in Spans
    BY DEF Numbered
  <2>2. Perm(u, s)
    BY <2>1, Shuffles
  <2>3. DOMAIN u = DOMAIN s
    BY <2>1, <2>2, Positions DEF Perm
  <2> QED
    BY <2>2, <2>3 DEF Tags
<1>2. DOMAIN s = 1 .. Len(s)
  BY Positions DEF Numbered
<1>3. { [i \in DOMAIN s |-> u[i].tag] : u \in shuffles(s) } = Bijection(DOMAIN s, DOMAIN s)
  <2>1. ASSUME NEW u \in shuffles(s) PROVE [i \in DOMAIN s |-> u[i].tag] \in Bijection(DOMAIN s, DOMAIN s)
    BY <1>1, <1>2, TagsPermute
  <2>2. ASSUME NEW p \in Bijection(DOMAIN s, DOMAIN s)
        PROVE  \E u \in shuffles(s) : p = [i \in DOMAIN s |-> u[i].tag]
    <3>1. PICK u \in shuffles(s) : Tags(u) = p
      BY <1>2, ShufflesReach
    <3> QED
      BY <1>1, <3>1
  <2> QED
    BY <2>1, <2>2
<1>4. \A hi \in 0 .. WORDS - 1 : Uniform(0 .. hi, Draws(hi), LAMBDA x : max_of(hi, x))
  BY DrawsUniform
<1>5. \A lo, hi \in Ints : lo <= hi => RangeDraws(lo, hi)
  BY RangesUniform
<1>6. \A w \in Widths : NeverZero(w)
  <2>1. SUFFICES ASSUME NEW w \in Widths PROVE NeverZero(w)
    OBVIOUS
  <2>2. w \in Nat \ {0}
    BY KeysAssumption, Powers
  <2> QED
    BY <2>2, NextNotZero
<1> QED
  BY <1>3, <1>4, <1>5, <1>6 DEF RandomUniform

\* rand.c: draws below a bound are uniform over it, and those from a range exactly
\* if it spans less than half of the type; a shuffle can have every outcome and no
\* other; and the generator never gets from another state to that of all zeros.
THEOREM RandomUniformHolds == Spec => []RandomUniform
<1>1. LibInv => RandomUniform
  BY RandomRight DEF LibInv
<1> QED
  BY <1>1, LibInvHolds, PTL

-----------------------------------------------------------------------------
(* cmp.c and hash.c: keys.                                                 *)

\* Only the two zeros are different words for one number.
LEMMA EqualNumbers ==
  ASSUME NEW a \in Floats, NEW b \in Floats, number(a) = number(b)
  PROVE  a = b \/ number(a) = 0
<1>1. /\ a \in 0 .. 2 * Half - 1 /\ b \in 0 .. 2 * Half - 1 /\ Half \in Nat \ {0}
  BY WordCount DEF Floats
<1> HIDE DEF Half
<1>2. ASSUME NEW x \in 0 .. 2 * Half - 1
      PROVE  /\ x < Half => mag(x) = x
             /\ x >= Half => mag(x) = x - Half
  <2>1. x = Half * 0 + x /\ x = Half * 1 + (x - Half)
    BY <1>1
  <2>2. CASE x < Half
    <3>1. x \in 0 .. Half - 1
      BY <1>1, <2>2
    <3>2. x % Half = x
      BY <1>1, <2>1, <3>1, ModUnique
    <3> QED
      BY <1>1, <2>2, <3>2 DEF mag
  <2>3. CASE x >= Half
    <3>1. x - Half \in 0 .. Half - 1 /\ x \in Int
      BY <1>1, <2>3
    <3>2. x % Half = x - Half
      BY <1>1, <2>1, <3>1, ModUnique
    <3> QED
      BY <1>1, <2>3, <3>2 DEF mag
  <2> QED
    BY <1>1, <2>2, <2>3
<1> QED
  BY <1>1, <1>2 DEF number

LEMMA KeysRight == KeysConsistent
<1>1. SUFFICES ASSUME NEW a \in Floats, NEW b \in Floats
               PROVE  /\ cmp_fp(a, b) = -cmp_fp(b, a) /\ cmp_desc(a, b) = -cmp_fp(a, b)
                      /\ eq_fn(a, b) => hash_fp(a) = hash_fp(b)
                      /\ \A c \in Floats : cmp_fp(a, b) <= 0 /\ cmp_fp(b, c) <= 0 => cmp_fp(a, c) <= 0
  BY DEF KeysConsistent
<1>2. rank(a) \in Int /\ rank(b) \in Int /\ \A c \in Floats : rank(c) \in Int
  BY Ranks
<1>3. cmp_fp(a, b) = -cmp_fp(b, a)
  BY <1>2, ComparesRanks
<1>4. cmp_desc(a, b) = -cmp_fp(a, b)
  <2>1. cmp_fp(b, a) = -cmp_fp(a, b)
    BY <1>2, ComparesRanks
  <2> QED
    BY <2>1 DEF cmp_desc
<1>5. ASSUME eq_fn(a, b) PROVE hash_fp(a) = hash_fp(b)
  <2>1. rank(a) = rank(b)
    BY <1>2, <1>5, ComparesRanks DEF eq_fn
  <2>2. Half \in Int /\ (~isnan(a) => rank(a) < Half) /\ (~isnan(b) => rank(b) < Half)
    BY HalfPositive, Ranks
  <2>3. isnan(a) <=> isnan(b)
    BY <2>1, <2>2 DEF rank
  <2>4. ~isnan(a) => number(a) = number(b)
    BY <2>1, <2>3 DEF rank
  <2>5. ~isnan(a) => a = b \/ (number(a) = 0 /\ number(b) = 0)
    BY <2>4, EqualNumbers
  <2>6. (IF isnan(a) \/ number(a) = 0 THEN 0 ELSE a) = (IF isnan(b) \/ number(b) = 0 THEN 0 ELSE b)
    BY <2>3, <2>5
  <2> QED
    BY <2>6 DEF hash_fp
<1>6. ASSUME NEW c \in Floats, cmp_fp(a, b) <= 0, cmp_fp(b, c) <= 0 PROVE cmp_fp(a, c) <= 0
  <2>1. rank(a) <= rank(b) /\ rank(b) <= rank(c)
    BY <1>2, <1>6, ComparesRanks
  <2> QED
    BY <1>2, <2>1, ComparesRanks
<1> QED
  BY <1>3, <1>4, <1>5, <1>6

-----------------------------------------------------------------------------
(* str_view.c: comparing.                                                  *)

Views == Seq(Nat)
Agree(a, b, n) == \A k \in 1 .. n : a[k] = b[k]
Shorter(a, b)  == IF Len(a) < Len(b) THEN Len(a) ELSE Len(b)

LEMMA Smallest ==
  ASSUME NEW S, S \subseteq Nat, S # {}
  PROVE  Min(S) \in S /\ \A y \in S : Min(S) <= y
<1>1. IsWellFoundedOn(OpToRel(<, Nat), Nat)
  BY NatLessThanWellFounded
<1>2. PICK R : R = OpToRel(<, Nat)
  OBVIOUS
<1>3. PICK x \in S : \A y \in S : ~ (<<y, x>> \in R)
  BY <1>1, <1>2, WFMin
<1>4. R = { q \in Nat \X Nat : q[1] < q[2] }
  BY <1>2 DEF OpToRel
<1>5. ASSUME NEW y \in S PROVE x <= y
  <2>1. x \in Nat /\ y \in Nat
    OBVIOUS
  <2>2. <<y, x>> \in Nat \X Nat
    BY <2>1
  <2>3. ~ (y < x)
    <3>1. SUFFICES ASSUME y < x PROVE FALSE
      OBVIOUS
    <3>2. <<y, x>> \in R
      BY <1>4, <2>1, <3>1
    <3> QED
      BY <1>3, <3>2
  <2> QED
    BY <2>1, <2>3
<1> QED
  BY <1>5 DEF Min

LEMMA ViewType ==
  ASSUME NEW a \in Views
  PROVE  Len(a) \in Nat /\ DOMAIN a = 1 .. Len(a) /\ \A k \in 1 .. Len(a) : a[k] \in Nat
BY DEF Views

LEMMA SameView ==
  ASSUME NEW a \in Views, NEW b \in Views, Len(a) = Len(b), Agree(a, b, Len(a))
  PROVE  a = b
BY DEF Views, Agree

\* Two views agree, or there is a first position where they differ.
LEMMA FirstDifference ==
  ASSUME NEW a, NEW b, NEW n \in Nat, ~Agree(a, b, n)
  PROVE  \E i \in 1 .. n : a[i] # b[i] /\ Agree(a, b, i - 1)
<1>1. PICK S : S = { i \in 1 .. n : a[i] # b[i] }
  OBVIOUS
<1>2. S \subseteq Nat /\ S # {}
  BY <1>1 DEF Agree
<1>3. PICK i \in S : \A y \in S : i <= y
  BY <1>2, Smallest
<1>4. i \in 1 .. n /\ a[i] # b[i]
  BY <1>1, <1>3
<1>5. Agree(a, b, i - 1)
  BY <1>1, <1>3, <1>4 DEF Agree
<1> QED
  BY <1>4, <1>5

\* What memcmp finds.
LEMMA MemcmpEqual ==
  ASSUME NEW a, NEW b, NEW n \in Nat, Agree(a, b, n)
  PROVE  memcmp(a, b, n) = 0
BY DEF memcmp, Agree

LEMMA MemcmpDiffers ==
  ASSUME NEW a, NEW b, NEW n \in Nat, NEW i \in 1 .. n, a[i] # b[i], Agree(a, b, i - 1)
  PROVE  memcmp(a, b, n) = cmp_int(a[i], b[i])
<1>1. PICK S : S = { k \in 1 .. n : a[k] # b[k] }
  OBVIOUS
<1>2. S \subseteq Nat /\ i \in S
  BY <1>1
<1>3. Min(S) \in S /\ \A y \in S : Min(S) <= y
  BY <1>2, Smallest
<1>4. Min(S) = i
  <2>1. Min(S) \in 1 .. n /\ a[Min(S)] # b[Min(S)] /\ Min(S) <= i
    BY <1>1, <1>2, <1>3
  <2>2. SUFFICES ASSUME Min(S) < i PROVE FALSE
    BY <2>1
  <2>3. Min(S) \in 1 .. i - 1
    BY <2>1, <2>2
  <2> QED
    BY <2>1, <2>3 DEF Agree
<1> QED
  BY <1>1, <1>2, <1>4 DEF memcmp

LEMMA MemcmpZero ==
  ASSUME NEW a \in Views, NEW b \in Views, NEW n \in Nat, n <= Len(a), n <= Len(b)
  PROVE  memcmp(a, b, n) = 0 <=> Agree(a, b, n)
<1>1. ASSUME ~Agree(a, b, n) PROVE memcmp(a, b, n) # 0
  <2>1. PICK i \in 1 .. n : a[i] # b[i] /\ Agree(a, b, i - 1)
    BY <1>1, FirstDifference
  <2>2. memcmp(a, b, n) = cmp_int(a[i], b[i])
    BY <2>1, MemcmpDiffers
  <2>3. a[i] \in Nat /\ b[i] \in Nat
    BY ViewType
  <2> QED
    BY <2>1, <2>2, <2>3 DEF cmp_int
<1> QED
  BY <1>1, MemcmpEqual

LEMMA EqualViews ==
  ASSUME NEW a \in Views, NEW b \in Views
  PROVE  view_eq(a, b) <=> Len(a) = Len(b) /\ Agree(a, b, Len(b))
BY ViewType, MemcmpZero DEF view_eq

\* The outcomes of view_cmp.
LEMMA ComparesAgreeing ==
  ASSUME NEW a \in Views, NEW b \in Views, Agree(a, b, Shorter(a, b))
  PROVE  view_cmp(a, b) = cmp_int(Len(a), Len(b))
<1>1. Shorter(a, b) \in Nat
  BY ViewType DEF Shorter
<1>2. memcmp(a, b, Shorter(a, b)) = 0
  BY <1>1, MemcmpEqual
<1> QED
  BY <1>2 DEF view_cmp, Shorter

LEMMA ComparesDiffering ==
  ASSUME NEW a \in Views, NEW b \in Views,
         NEW i \in 1 .. Shorter(a, b), a[i] # b[i], Agree(a, b, i - 1)
  PROVE  view_cmp(a, b) = cmp_int(a[i], b[i]) /\ a[i] \in Nat /\ b[i] \in Nat
<1>1. Shorter(a, b) \in Nat /\ i \in 1 .. Len(a) /\ i \in 1 .. Len(b)
  BY ViewType DEF Shorter
<1>2. a[i] \in Nat /\ b[i] \in Nat
  BY <1>1, ViewType
<1>3. memcmp(a, b, Shorter(a, b)) = cmp_int(a[i], b[i])
  BY <1>1, MemcmpDiffers
<1>4. cmp_int(a[i], b[i]) # 0
  BY <1>2 DEF cmp_int
<1> QED
  BY <1>2, <1>3, <1>4 DEF view_cmp, Shorter

LEMMA ViewsCompare ==
  ASSUME NEW a \in Views, NEW b \in Views
  PROVE  /\ view_eq(a, b) <=> view_cmp(a, b) = 0
         /\ view_cmp(a, b) = -view_cmp(b, a)
<1>1. PICK n \in Nat : n = Shorter(a, b) /\ n = Shorter(b, a)
  BY ViewType DEF Shorter
<1>2. Len(a) \in Nat /\ Len(b) \in Nat
  BY ViewType
<1>3. CASE Agree(a, b, n)
  <2>1. Agree(b, a, n)
    BY <1>3 DEF Agree
  <2>2. view_cmp(a, b) = cmp_int(Len(a), Len(b)) /\ view_cmp(b, a) = cmp_int(Len(b), Len(a))
    BY <1>1, <1>3, <2>1, ComparesAgreeing
  <2>3. view_eq(a, b) <=> Len(a) = Len(b)
    <3>1. Len(a) = Len(b) => n = Len(b)
      BY <1>1 DEF Shorter
    <3> QED
      BY <1>3, <3>1, EqualViews
  <2> QED
    BY <1>2, <2>2, <2>3 DEF cmp_int
<1>4. CASE ~Agree(a, b, n)
  <2>1. PICK i \in 1 .. n : a[i] # b[i] /\ Agree(a, b, i - 1)
    BY <1>4, FirstDifference
  <2>2. Agree(b, a, i - 1) /\ b[i] # a[i]
    BY <2>1 DEF Agree
  <2>3. view_cmp(a, b) = cmp_int(a[i], b[i]) /\ a[i] \in Nat /\ b[i] \in Nat
    BY <1>1, <2>1, ComparesDiffering
  <2>4. view_cmp(b, a) = cmp_int(b[i], a[i])
    BY <1>1, <2>2, ComparesDiffering
  <2>5. ~view_eq(a, b)
    <3>1. i \in 1 .. Len(b)
      BY <1>1, <1>2 DEF Shorter
    <3> QED
      BY <2>1, <3>1, EqualViews DEF Agree
  <2> QED
    BY <2>1, <2>3, <2>4, <2>5 DEF cmp_int
<1> QED
  BY <1>3, <1>4

-----------------------------------------------------------------------------
(* str_view.c: parts of a view.                                            *)

LEMMA SubView ==
  ASSUME NEW a \in Views, NEW i \in Nat, NEW j \in Nat, i <= j, j <= Len(a)
  PROVE  /\ SubSeq(a, i + 1, j) \in Views /\ Len(SubSeq(a, i + 1, j)) = j - i
         /\ \A k \in 1 .. j - i : SubSeq(a, i + 1, j)[k] = a[i + k]
<1>1. SubSeq(a, i + 1, j) \in Views /\ Len(SubSeq(a, i + 1, j)) = j - i
  BY DEF Views
<1>2. ASSUME NEW k \in 1 .. j - i PROVE SubSeq(a, i + 1, j)[k] = a[i + k]
  <2>1. (i + 1) + k - 1 = i + k
    OBVIOUS
  <2> QED
    BY <2>1 DEF Views
<1> QED
  BY <1>1, <1>2

LEMMA EmptyView ==
  ASSUME NEW a \in Views
  PROVE  /\ <<>> \in Views /\ Len(<<>>) = 0 /\ (Len(a) = 0 <=> a = <<>>)
         /\ \A i \in Nat, j \in Nat : j < i => SubSeq(a, i, j) = <<>>
<1>1. <<>> \in Views /\ Len(<<>>) = 0 /\ (Len(a) = 0 <=> a = <<>>)
  BY DEF Views
<1>2. ASSUME NEW i \in Nat, NEW j \in Nat, j < i PROVE SubSeq(a, i, j) = <<>>
  BY <1>2 DEF Views
<1> QED
  BY <1>1, <1>2

LEMMA CutView ==
  ASSUME NEW a \in Views, NEW i \in 0 .. Len(a), NEW n \in Nat
  PROVE  /\ view_sub(a, i, n) \in Views
         /\ i + n <= Len(a) => /\ Len(view_sub(a, i, n)) = n
                               /\ \A k \in 1 .. n : view_sub(a, i, n)[k] = a[i + k]
         /\ i + n > Len(a) => Len(view_sub(a, i, n)) < n
<1>1. Len(a) \in Nat
  BY ViewType
<1>2. CASE i + n <= Len(a)
  <2>1. view_sub(a, i, n) = SubSeq(a, i + 1, i + n)
    BY <1>1, <1>2 DEF view_sub
  <2>2. (i + n) - i = n /\ i + n \in Nat /\ i \in Nat /\ i <= i + n
    OBVIOUS
  <2>3. /\ SubSeq(a, i + 1, i + n) \in Views /\ Len(SubSeq(a, i + 1, i + n)) = n
        /\ \A k \in 1 .. n : SubSeq(a, i + 1, i + n)[k] = a[i + k]
    BY <1>2, <2>2, SubView
  <2> QED
    BY <1>1, <1>2, <2>1, <2>3
<1>3. CASE i + n > Len(a)
  <2>1. view_sub(a, i, n) = SubSeq(a, i + 1, Len(a))
    BY <1>1, <1>3 DEF view_sub
  <2>2. SubSeq(a, i + 1, Len(a)) \in Views /\ Len(SubSeq(a, i + 1, Len(a))) = Len(a) - i
    BY <1>1, SubView
  <2> QED
    BY <1>1, <1>3, <2>1, <2>2
<1> QED
  BY <1>1, <1>2, <1>3

\* v is what a has behind its first i characters, or begins with.
At(a, v, i) == i + Len(v) <= Len(a) /\ \A k \in 1 .. Len(v) : a[i + k] = v[k]

LEMMA CutEquals ==
  ASSUME NEW a \in Views, NEW v \in Views, NEW i \in 0 .. Len(a)
  PROVE  view_eq(view_sub(a, i, Len(v)), v) <=> At(a, v, i)
<1>1. Len(v) \in Nat /\ Len(a) \in Nat
  BY ViewType
<1>2. view_sub(a, i, Len(v)) \in Views
  BY <1>1, CutView
<1>3. view_eq(view_sub(a, i, Len(v)), v) <=>
        Len(view_sub(a, i, Len(v))) = Len(v) /\ Agree(view_sub(a, i, Len(v)), v, Len(v))
  BY <1>2, EqualViews
<1> QED
  BY <1>1, <1>3, CutView DEF At, Agree

LEMMA StartsWith ==
  ASSUME NEW a \in Views, NEW v \in Views
  PROVE  starts_with(a, v) <=> At(a, v, 0)
<1>1. Len(v) \in Nat /\ Len(a) \in Nat
  BY ViewType
<1>2. Len(v) <= Len(a) => (memcmp(a, v, Len(v)) = 0 <=> Agree(a, v, Len(v)))
  BY <1>1, MemcmpZero
<1>3. Agree(a, v, Len(v)) <=> \A k \in 1 .. Len(v) : a[0 + k] = v[k]
  BY <1>1 DEF Agree
<1> QED
  BY <1>1, <1>2, <1>3 DEF starts_with, At

LEMMA EndsWith ==
  ASSUME NEW a \in Views, NEW v \in Views
  PROVE  ends_with(a, v) <=> Len(v) <= Len(a) /\ At(a, v, Len(a) - Len(v))
<1>1. PICK L \in Nat, M \in Nat : L = Len(a) /\ M = Len(v)
  BY ViewType
<1>2. ASSUME M <= L PROVE memcmp(SubSeq(a, L - M + 1, L), v, M) = 0 <=> At(a, v, L - M)
  <2>1. PICK d \in Nat : d = L - M /\ L - d = M /\ d <= L
    BY <1>2
  <2>2. PICK c \in Views : /\ c = SubSeq(a, L - M + 1, L) /\ Len(c) = M
                           /\ \A k \in 1 .. M : c[k] = a[(L - M) + k]
    <3>1. d \in Nat /\ L \in Nat /\ d <= L /\ L <= Len(a)
      BY <1>1, <2>1
    <3>2. /\ SubSeq(a, d + 1, L) \in Views /\ Len(SubSeq(a, d + 1, L)) = L - d
          /\ \A k \in 1 .. L - d : SubSeq(a, d + 1, L)[k] = a[d + k]
      BY <3>1, SubView
    <3> QED
      BY <2>1, <3>2
  <2>3. memcmp(c, v, M) = 0 <=> Agree(c, v, M)
    <3>1. M <= Len(c) /\ M <= Len(v)
      BY <1>1, <2>2
    <3> QED
      BY <3>1, MemcmpZero
  <2>4. Agree(c, v, M) <=> At(a, v, L - M)
    BY <1>1, <2>1, <2>2 DEF Agree, At
  <2> QED
    BY <2>2, <2>3, <2>4
<1> QED
  BY <1>1, <1>2 DEF ends_with

LEMMA ReversedView ==
  ASSUME NEW a \in Views
  PROVE  /\ Reverse(a) \in Views /\ Len(Reverse(a)) = Len(a)
         /\ \A k \in 1 .. Len(a) : Reverse(a)[k] = a[(Len(a) - k) + 1]
<1>1. PICK L \in Nat : L = Len(a) /\ \A k \in 1 .. L : a[k] \in Nat
  BY ViewType
<1>2. \A k \in 1 .. L : (L - k) + 1 \in 1 .. L
  OBVIOUS
<1>3. Reverse(a) = [k \in 1 .. L |-> a[(L - k) + 1]]
  BY <1>1 DEF Reverse
<1>4. Reverse(a) \in [1 .. L -> Nat]
  BY <1>1, <1>2, <1>3
<1> QED
  BY <1>1, <1>3, <1>4 DEF Views

LEMMA EndsLikeReversed ==
  ASSUME NEW a \in Views, NEW v \in Views
  PROVE  ends_with(a, v) <=> starts_with(Reverse(a), Reverse(v))
<1>1. PICK L \in Nat, M \in Nat : L = Len(a) /\ M = Len(v)
  BY ViewType
<1>2. PICK b \in Views : b = Reverse(a) /\ Len(b) = L /\ \A k \in 1 .. L : b[k] = a[(L - k) + 1]
  BY <1>1, ReversedView
<1>3. PICK w \in Views : w = Reverse(v) /\ Len(w) = M /\ \A k \in 1 .. M : w[k] = v[(M - k) + 1]
  BY <1>1, ReversedView
<1>4. SUFFICES ASSUME M <= L PROVE At(a, v, L - M) <=> At(b, w, 0)
  <2>1. ends_with(a, v) <=> M <= L /\ At(a, v, L - M)
    BY <1>1, EndsWith
  <2>2. starts_with(b, w) <=> At(b, w, 0)
    BY StartsWith
  <2>3. At(b, w, 0) => M <= L
    BY <1>2, <1>3 DEF At
  <2> QED
    BY <1>2, <1>3, <2>1, <2>2, <2>3
<1>5. ASSUME NEW k \in 1 .. M
      PROVE  /\ (M - k) + 1 \in 1 .. M /\ k \in 1 .. L
             /\ b[k] = a[(L - M) + ((M - k) + 1)] /\ w[k] = v[(M - k) + 1]
             /\ (M - ((M - k) + 1)) + 1 = k
  <2>1. (M - k) + 1 \in 1 .. M /\ k \in 1 .. L /\ (L - M) + ((M - k) + 1) = (L - k) + 1
    BY <1>4
  <2> QED
    BY <1>2, <1>3, <2>1
<1>6. ASSUME At(a, v, L - M) PROVE At(b, w, 0)
  <2>1. \A k \in 1 .. M : a[(L - M) + k] = v[k]
    BY <1>1, <1>6 DEF At
  <2>2. \A k \in 1 .. M : b[k] = w[k]
    BY <1>5, <2>1
  <2> QED
    BY <1>2, <1>3, <1>4, <2>2 DEF At
<1>7. ASSUME At(b, w, 0) PROVE At(a, v, L - M)
  <2>1. \A k \in 1 .. M : b[k] = w[k]
    <3>1. \A k \in 1 .. M : b[0 + k] = w[k] /\ 0 + k = k
      BY <1>3, <1>7 DEF At
    <3> QED
      BY <3>1
  <2>2. ASSUME NEW k \in 1 .. M PROVE a[(L - M) + k] = v[k]
    <3>1. PICK j \in 1 .. M : j = (M - k) + 1 /\ (M - j) + 1 = k
      OBVIOUS
    <3> QED
      BY <1>5, <2>1, <3>1
  <2> QED
    BY <1>1, <1>4, <2>2 DEF At
<1> QED
  BY <1>6, <1>7

\* find_sub: the first place where the needle is.
LEMMA FindsFirst ==
  ASSUME NEW a \in Views, NEW v \in Views
  PROVE  \/ find_sub(a, v) = -1 /\ \A i \in Nat : ~At(a, v, i)
         \/ /\ find_sub(a, v) \in 0 .. Len(a) /\ At(a, v, find_sub(a, v))
            /\ \A i \in 0 .. find_sub(a, v) - 1 : ~At(a, v, i)
<1>1. PICK L \in Nat, M \in Nat : L = Len(a) /\ M = Len(v)
  BY ViewType
<1>2. CASE M = 0
  <2>1. find_sub(a, v) = 0
    BY <1>1, <1>2, EmptyView DEF find_sub
  <2>2. At(a, v, 0)
    BY <1>1, <1>2 DEF At
  <2> QED
    BY <1>1, <2>1, <2>2
<1>3. CASE M # 0
  <2>1. PICK S : S = { i \in 0 .. L - M : a[i + 1] = v[1] /\ memcmp(SubSeq(a, i + 1, i + M), v, M) = 0 }
    OBVIOUS
  <2>2. find_sub(a, v) = FirstOr(S)
    BY <1>1, <1>3, <2>1, EmptyView DEF find_sub
  <2>3. ASSUME NEW i \in Nat PROVE i \in S <=> At(a, v, i)
    <3>1. CASE i + M <= L
      <4>1. i \in 0 .. L - M /\ i + M \in Nat /\ (i + M) - i = M /\ i <= i + M
        BY <3>1
      <4>2. PICK c \in Views : c = SubSeq(a, i + 1, i + M) /\ Len(c) = M /\ \A k \in 1 .. M : c[k] = a[i + k]
        <5>1. PICK j \in Nat : j = i + M /\ j - i = M /\ i <= j /\ j <= Len(a)
          BY <1>1, <3>1, <4>1
        <5>2. /\ SubSeq(a, i + 1, j) \in Views /\ Len(SubSeq(a, i + 1, j)) = j - i
              /\ \A k \in 1 .. j - i : SubSeq(a, i + 1, j)[k] = a[i + k]
          BY <5>1, SubView
        <5> QED
          BY <5>1, <5>2
      <4>3. memcmp(c, v, M) = 0 <=> Agree(c, v, M)
        <5>1. M <= Len(c) /\ M <= Len(v)
          BY <1>1, <4>2
        <5> QED
          BY <5>1, MemcmpZero
      <4>4. Agree(c, v, M) <=> At(a, v, i)
        BY <1>1, <3>1, <4>2 DEF Agree, At
      <4>5. At(a, v, i) => a[i + 1] = v[1]
        <5>1. 1 \in 1 .. M
          BY <1>3
        <5> QED
          BY <1>1, <5>1 DEF At
      <4> QED
        BY <2>1, <4>1, <4>2, <4>3, <4>4, <4>5
    <3>2. CASE ~ (i + M <= L)
      BY <1>1, <2>1, <3>2 DEF At
    <3> QED
      BY <3>1, <3>2
  <2>4. CASE S = {}
    BY <2>2, <2>3, <2>4 DEF FirstOr
  <2>5. CASE S # {}
    <3>1. S \subseteq Nat
      BY <2>1
    <3>2. Min(S) \in S /\ \A y \in S : Min(S) <= y
      BY <2>5, <3>1, Smallest
    <3>3. find_sub(a, v) = Min(S)
      BY <2>2, <2>5 DEF FirstOr
    <3>4. Min(S) \in 0 .. L /\ At(a, v, Min(S))
      BY <2>1, <2>3, <3>1, <3>2
    <3>5. ASSUME NEW i \in 0 .. Min(S) - 1 PROVE ~At(a, v, i)
      <4>1. i \in Nat /\ ~ (Min(S) <= i)
        BY <3>4
      <4> QED
        BY <2>3, <3>2, <4>1
    <3> QED
      BY <1>1, <3>3, <3>4, <3>5
  <2> QED
    BY <2>4, <2>5
<1> QED
  BY <1>2, <1>3

-----------------------------------------------------------------------------
(* str_view.c: C strings.                                                  *)

\* The string in the array c has p characters.
Ends(c, p) == p + 1 \in 1 .. Len(c) /\ c[p + 1] = 0 /\ \A k \in 1 .. p : c[k] # 0

LEMMA FromCstr ==
  ASSUME NEW c \in Views, NEW z \in 1 .. Len(c), c[z] = 0
  PROVE  \E p \in Nat : /\ Ends(c, p) /\ p + 1 <= z
                        /\ from_cstr(c) \in Views /\ Len(from_cstr(c)) = p /\ Agree(from_cstr(c), c, p)
<1>1. PICK S : S = { i \in 0 .. Len(c) - 1 : c[i + 1] = 0 }
  OBVIOUS
<1>2. Len(c) \in Nat
  BY ViewType
<1>3. z - 1 \in S /\ S \subseteq Nat
  <2>1. z - 1 \in 0 .. Len(c) - 1 /\ (z - 1) + 1 = z
    BY <1>2
  <2> QED
    BY <1>1, <2>1
<1>4. PICK p \in S : p = Min(S) /\ \A y \in S : p <= y
  BY <1>3, Smallest
<1>5. p \in 0 .. Len(c) - 1 /\ c[p + 1] = 0
  BY <1>1, <1>4
<1>6. ASSUME NEW k \in 1 .. p PROVE c[k] # 0
  <2>1. k - 1 \in 0 .. Len(c) - 1 /\ (k - 1) + 1 = k /\ ~ (p <= k - 1)
    BY <1>2, <1>5
  <2> QED
    BY <1>1, <1>4, <2>1
<1>7. find_char(c, 0) = p
  BY <1>1, <1>3, <1>4 DEF find_char, FirstOr
<1>8. from_cstr(c) = view_sub(c, 0, p)
  BY <1>7 DEF from_cstr
<1>9. 0 \in 0 .. Len(c) /\ p \in Nat /\ 0 + p <= Len(c)
  BY <1>2, <1>5
<1>10. /\ view_sub(c, 0, p) \in Views /\ Len(view_sub(c, 0, p)) = p
       /\ \A k \in 1 .. p : view_sub(c, 0, p)[k] = c[0 + k]
  BY <1>9, CutView
<1>11. Agree(view_sub(c, 0, p), c, p)
  BY <1>9, <1>10 DEF Agree
<1>12. p + 1 <= z
  BY <1>3, <1>4, <1>5
<1>13. Ends(c, p)
  BY <1>2, <1>5, <1>6 DEF Ends
<1> QED
  BY <1>8, <1>9, <1>10, <1>11, <1>12, <1>13

LEMMA CstrsCompare ==
  ASSUME NEW a \in Views, NEW b \in Views, Len(a) > 0, Len(b) > 0, a[Len(a)] = 0, b[Len(b)] = 0
  PROVE  cmp_cstr(a, b) = view_cmp(from_cstr(a), from_cstr(b))
<1>1. PICK L \in Nat \ {0}, M \in Nat \ {0} : L = Len(a) /\ M = Len(b) /\ DOMAIN a = 1 .. L /\ DOMAIN b = 1 .. M
  BY ViewType
<1>2. PICK p \in Nat : /\ Ends(a, p) /\ from_cstr(a) \in Views /\ Len(from_cstr(a)) = p
                       /\ Agree(from_cstr(a), a, p)
  BY <1>1, FromCstr
<1>3. PICK q \in Nat : /\ Ends(b, q) /\ from_cstr(b) \in Views /\ Len(from_cstr(b)) = q
                       /\ Agree(from_cstr(b), b, q)
  BY <1>1, FromCstr
<1>4. PICK x \in Views, y \in Views : x = from_cstr(a) /\ y = from_cstr(b)
  BY <1>2, <1>3
<1>5. p + 1 \in 1 .. L /\ a[p + 1] = 0 /\ q + 1 \in 1 .. M /\ b[q + 1] = 0
  BY <1>1, <1>2, <1>3 DEF Ends
<1>6. /\ \A k \in 1 .. p : a[k] # 0 /\ x[k] = a[k]
      /\ \A k \in 1 .. q : b[k] # 0 /\ y[k] = b[k]
  BY <1>2, <1>3, <1>4 DEF Ends, Agree
<1>7. a # <<>> /\ b # <<>>
  BY <1>1, EmptyView
<1>8. PICK D : D = { i \in DOMAIN a \cap DOMAIN b : a[i] # b[i] }
  OBVIOUS
<1>9. D \subseteq Nat
  BY <1>1, <1>8
<1>10. cmp_cstr(a, b) = IF D = {} THEN 0
                        ELSE LET i == Min(D) IN IF \E j \in 1 .. i - 1 : a[j] = 0 THEN 0 ELSE cmp_int(a[i], b[i])
  BY <1>7, <1>8 DEF cmp_cstr
\* The strings are equal when they agree up to the end of one of them.
<1>11. ASSUME NEW z \in 1 .. L, z \in 1 .. M, Agree(a, b, z), a[z] = 0
       PROVE  view_cmp(x, y) = 0
  <2>1. p + 1 <= z
    <3>1. z \in 1 .. p => FALSE
      BY <1>6, <1>11
    <3> QED
      BY <3>1
  <2>2. q = p
    <3>1. b[p + 1] = 0
      BY <1>5, <1>11, <2>1 DEF Agree
    <3>2. ~ (p + 1 <= q)
      BY <1>6, <3>1
    <3>3. ~ (q + 1 <= p)
      <4>1. SUFFICES ASSUME q + 1 <= p PROVE FALSE
        OBVIOUS
      <4>2. a[q + 1] = b[q + 1] /\ q + 1 \in 1 .. p
        BY <1>11, <2>1, <4>1 DEF Agree
      <4> QED
        BY <1>5, <1>6, <4>2
    <3> QED
      BY <3>2, <3>3
  <2>3. Len(x) = p /\ Len(y) = p
    BY <1>2, <1>3, <1>4, <2>2
  <2>4. Agree(x, y, Shorter(x, y))
    <3>1. \A k \in 1 .. p : x[k] = y[k]
      BY <1>6, <1>11, <2>1, <2>2 DEF Agree
    <3> QED
      BY <2>3, <3>1 DEF Agree, Shorter
  <2>5. view_cmp(x, y) = cmp_int(p, p)
    BY <2>3, <2>4, ComparesAgreeing
  <2> QED
    BY <2>5 DEF cmp_int
<1>12. CASE D = {}
  <2>1. PICK z \in 1 .. L : z \in 1 .. M /\ (z = L \/ z = M)
    <3>1. L <= M \/ M <= L
      OBVIOUS
    <3> QED
      BY <3>1
  <2>2. \A k \in 1 .. z : a[k] = b[k]
    BY <1>1, <1>8, <1>12, <2>1
  <2>3. a[z] = 0
    BY <1>1, <2>1, <2>2
  <2>4. view_cmp(x, y) = 0
    BY <1>11, <2>1, <2>2, <2>3 DEF Agree
  <2> QED
    BY <1>4, <1>10, <1>12, <2>4
<1>13. CASE D # {}
  <2>1. PICK i \in D : i = Min(D) /\ \A d \in D : i <= d
    BY <1>9, <1>13, Smallest
  <2>2. i \in 1 .. L /\ i \in 1 .. M /\ a[i] # b[i]
    BY <1>1, <1>8, <2>1
  <2>3. \A k \in 1 .. i - 1 : a[k] = b[k]
    <3>1. SUFFICES ASSUME NEW k \in 1 .. i - 1, a[k] # b[k] PROVE FALSE
      OBVIOUS
    <3>2. k \in 1 .. L /\ k \in 1 .. M /\ ~ (i <= k)
      BY <2>2
    <3> QED
      BY <1>1, <1>8, <2>1, <3>1, <3>2
  <2>4. CASE \E j \in 1 .. i - 1 : a[j] = 0
    <3>1. PICK j \in 1 .. i - 1 : a[j] = 0
      BY <2>4
    <3>2. j \in 1 .. L /\ j \in 1 .. M /\ Agree(a, b, j)
      BY <2>2, <2>3 DEF Agree
    <3>3. view_cmp(x, y) = 0
      BY <1>11, <3>1, <3>2
    <3> QED
      BY <1>4, <1>10, <1>13, <2>1, <2>4, <3>3
  <2>5. CASE \A j \in 1 .. i - 1 : a[j] # 0
    <3>1. p >= i - 1 /\ q >= i - 1
      <4>1. ~ (p + 1 \in 1 .. i - 1) /\ ~ (q + 1 \in 1 .. i - 1)
        BY <1>5, <2>3, <2>5
      <4> QED
        BY <2>2, <4>1
    <3>2. cmp_cstr(a, b) = cmp_int(a[i], b[i])
      BY <1>10, <1>13, <2>1, <2>5
    <3>3. a[i] \in Nat /\ b[i] \in Nat
      BY <1>1, <2>2, ViewType
    <3>4. Len(x) = p /\ Len(y) = q
      BY <1>2, <1>3, <1>4
    <3>5. Agree(x, y, i - 1)
      BY <1>6, <2>2, <2>3, <3>1 DEF Agree
    <3>6. CASE p >= i /\ q >= i
      <4>1. i \in 1 .. Shorter(x, y)
        BY <2>2, <3>4, <3>6 DEF Shorter
      <4>2. x[i] = a[i] /\ y[i] = b[i]
        BY <1>6, <2>2, <3>6
      <4>3. view_cmp(x, y) = cmp_int(x[i], y[i])
        BY <2>2, <3>5, <4>1, <4>2, ComparesDiffering
      <4> QED
        BY <1>4, <3>2, <4>2, <4>3
    <3>7. CASE ~ (p >= i /\ q >= i)
      <4>1. Shorter(x, y) = i - 1
        BY <2>2, <3>1, <3>4, <3>7 DEF Shorter
      <4>2. view_cmp(x, y) = cmp_int(p, q)
        BY <3>4, <3>5, <4>1, ComparesAgreeing
      <4>3. (p = i - 1 => a[i] = 0) /\ (q = i - 1 => b[i] = 0)
        BY <1>5, <2>2
      <4>4. (p >= i => a[i] # 0) /\ (q >= i => b[i] # 0)
        BY <1>6, <2>2
      <4>5. (p = i - 1 /\ q >= i) \/ (q = i - 1 /\ p >= i)
        BY <2>2, <3>1, <3>7, <4>3
      <4>6. cmp_int(p, q) = cmp_int(a[i], b[i])
        BY <2>2, <3>3, <4>3, <4>4, <4>5 DEF cmp_int
      <4> QED
        BY <1>4, <3>2, <4>2, <4>6
    <3> QED
      BY <3>6, <3>7
  <2> QED
    BY <2>4, <2>5
<1> QED
  BY <1>12, <1>13

-----------------------------------------------------------------------------
(* str_view.c: trimming.                                                   *)

\* Where the space at the start of a ends, and the one at its end begins.
SpaceUpTo(a, i) == i \in 0 .. Len(a) /\ (\A k \in 1 .. i : a[k] \in Space) /\ (i < Len(a) => a[i + 1] \notin Space)
SpaceFrom(a, i)  == i \in 0 .. Len(a) /\ (\A k \in i + 1 .. Len(a) : a[k] \in Space) /\ (i > 0 => a[i] \notin Space)

LEMMA TrimsStart ==
  ASSUME NEW a \in Views
  PROVE  \E i \in 0 .. Len(a) : SpaceUpTo(a, i) /\ trim_start(a) = SubSeq(a, i + 1, Len(a))
<1>1. PICK L \in Nat : L = Len(a)
  BY ViewType
<1>2. PICK S : S = { i \in 0 .. L : i = L \/ a[i + 1] \notin Space }
  OBVIOUS
<1>3. L \in S /\ S \subseteq Nat
  BY <1>2
<1>4. PICK m \in S : \A y \in S : m <= y
  BY <1>3, Smallest
<1>5. SpaceUpTo(a, m)
  <2>1. m \in 0 .. L /\ (m < L => a[m + 1] \notin Space)
    BY <1>2
  <2>2. ASSUME NEW k \in 1 .. m PROVE a[k] \in Space
    <3>1. k - 1 \in 0 .. L /\ (k - 1) + 1 = k /\ ~ (m <= k - 1)
      BY <2>1
    <3>2. ~ (k - 1 \in S)
      BY <1>4, <3>1
    <3> QED
      BY <1>2, <3>1, <3>2
  <2> QED
    BY <1>1, <2>1, <2>2 DEF SpaceUpTo
<1>6. PICK e : e = CHOOSE i \in 0 .. Len(a) :
                     /\ \A j \in 1 .. i : a[j] \in Space
                     /\ i < Len(a) => a[i + 1] \notin Space
  OBVIOUS
<1>7. SpaceUpTo(a, e)
  <2>1. \E i \in 0 .. Len(a) : /\ \A j \in 1 .. i : a[j] \in Space
                               /\ i < Len(a) => a[i + 1] \notin Space
    BY <1>5 DEF SpaceUpTo
  <2> QED
    BY <1>6, <2>1 DEF SpaceUpTo
<1>8. trim_start(a) = SubSeq(a, e + 1, Len(a))
  BY <1>6 DEF trim_start
<1> QED
  BY <1>7, <1>8 DEF SpaceUpTo

LEMMA TrimsEnd ==
  ASSUME NEW a \in Views
  PROVE  \E i \in 0 .. Len(a) : SpaceFrom(a, i) /\ trim_end(a) = SubSeq(a, 1, i)
<1>1. PICK L \in Nat : L = Len(a)
  BY ViewType
<1>2. PICK S : S = { n \in 0 .. L : n = L \/ a[L - n] \notin Space }
  OBVIOUS
<1>3. L \in S /\ S \subseteq Nat
  BY <1>2
<1>4. PICK m \in S : \A y \in S : m <= y
  BY <1>3, Smallest
<1>5. PICK b \in 0 .. L : b = L - m
  BY <1>2
<1>6. SpaceFrom(a, b)
  <2>1. m \in 0 .. L /\ (m = L \/ a[L - m] \notin Space)
    BY <1>2
  <2>2. b > 0 => a[b] \notin Space
    BY <1>5, <2>1
  <2>3. ASSUME NEW k \in b + 1 .. L PROVE a[k] \in Space
    <3>1. L - k \in 0 .. L /\ L - (L - k) = k /\ L - k # L /\ ~ (m <= L - k)
      BY <1>5, <2>1
    <3>2. ~ (L - k \in S)
      BY <1>4, <3>1
    <3> QED
      BY <1>2, <3>1, <3>2
  <2> QED
    BY <1>1, <1>5, <2>2, <2>3 DEF SpaceFrom
<1>7. PICK e : e = CHOOSE i \in 0 .. Len(a) :
                     /\ \A j \in i + 1 .. Len(a) : a[j] \in Space
                     /\ i > 0 => a[i] \notin Space
  OBVIOUS
<1>8. SpaceFrom(a, e)
  <2>1. \E i \in 0 .. Len(a) : /\ \A j \in i + 1 .. Len(a) : a[j] \in Space
                               /\ i > 0 => a[i] \notin Space
    BY <1>6 DEF SpaceFrom
  <2> QED
    BY <1>7, <2>1 DEF SpaceFrom
<1>9. trim_end(a) = SubSeq(a, 1, e)
  BY <1>7 DEF trim_end
<1> QED
  BY <1>8, <1>9 DEF SpaceFrom

\* The first i characters of a view, and the others.
LEMMA FirstPart ==
  ASSUME NEW a \in Views, NEW i \in 0 .. Len(a)
  PROVE  /\ SubSeq(a, 1, i) \in Views /\ Len(SubSeq(a, 1, i)) = i
         /\ \A k \in 1 .. i : SubSeq(a, 1, i)[k] = a[k]
<1>1. 0 \in Nat /\ i \in Nat /\ 0 <= i /\ i <= Len(a) /\ 0 + 1 = 1 /\ i - 0 = i /\ \A k \in 1 .. i : 0 + k = k
  BY ViewType
<1>2. /\ SubSeq(a, 0 + 1, i) \in Views /\ Len(SubSeq(a, 0 + 1, i)) = i - 0
      /\ \A k \in 1 .. i - 0 : SubSeq(a, 0 + 1, i)[k] = a[0 + k]
  BY <1>1, SubView
<1> QED
  BY <1>1, <1>2

LEMMA LastPart ==
  ASSUME NEW a \in Views, NEW i \in 0 .. Len(a)
  PROVE  /\ SubSeq(a, i + 1, Len(a)) \in Views /\ Len(SubSeq(a, i + 1, Len(a))) = Len(a) - i
         /\ \A k \in 1 .. Len(a) - i : SubSeq(a, i + 1, Len(a))[k] = a[i + k]
<1>1. i \in Nat /\ Len(a) \in Nat /\ i <= Len(a) /\ Len(a) <= Len(a)
  BY ViewType
<1> QED
  BY <1>1, SubView

\* Either order of trimming leaves what is between the first and the last
\* character that is no space.
LEMMA TrimsBoth ==
  ASSUME NEW a \in Views
  PROVE  \E i \in 0 .. Len(a), n \in Nat :
           /\ \A k \in 1 .. i : a[k] \in Space
           /\ trim(a) \in Views /\ Len(trim(a)) = n /\ i + n <= Len(a)
           /\ \A k \in 1 .. n : trim(a)[k] = a[i + k]
           /\ trim(a) = trim_start(trim_end(a))
<1>1. PICK L \in Nat : L = Len(a)
  BY ViewType
<1>2. PICK i \in 0 .. L : SpaceUpTo(a, i) /\ trim_start(a) = SubSeq(a, i + 1, L)
  BY <1>1, TrimsStart
<1>3. PICK t \in Views : t = trim_start(a) /\ Len(t) = L - i /\ \A k \in 1 .. L - i : t[k] = a[i + k]
  BY <1>1, <1>2, LastPart
<1>4. PICK j \in 0 .. L - i : SpaceFrom(t, j) /\ trim_end(t) = SubSeq(t, 1, j)
  BY <1>3, TrimsEnd
<1>5. PICK x \in Views : x = trim_end(t) /\ Len(x) = j /\ \A k \in 1 .. j : x[k] = t[k]
  <2>1. j \in 0 .. Len(t)
    BY <1>3
  <2> QED
    BY <1>4, <2>1, FirstPart
<1>6. PICK e \in 0 .. L : SpaceFrom(a, e) /\ trim_end(a) = SubSeq(a, 1, e)
  BY <1>1, TrimsEnd
<1>7. PICK u \in Views : u = trim_end(a) /\ Len(u) = e /\ \A k \in 1 .. e : u[k] = a[k]
  BY <1>1, <1>6, FirstPart
<1>8. PICK g \in 0 .. e : SpaceUpTo(u, g) /\ trim_start(u) = SubSeq(u, g + 1, e)
  BY <1>7, TrimsStart
<1>9. PICK y \in Views : y = trim_start(u) /\ Len(y) = e - g /\ \A k \in 1 .. e - g : y[k] = u[g + k]
  <2>1. g \in 0 .. Len(u)
    BY <1>7
  <2> QED
    BY <1>7, <1>8, <2>1, LastPart
<1>10. /\ \A k \in 1 .. i : a[k] \in Space
       /\ i < L => a[i + 1] \notin Space
  BY <1>1, <1>2 DEF SpaceUpTo
<1>11. /\ \A k \in e + 1 .. L : a[k] \in Space
       /\ e > 0 => a[e] \notin Space
  BY <1>1, <1>6 DEF SpaceFrom
<1>12. /\ \A k \in j + 1 .. L - i : t[k] \in Space
       /\ j > 0 => t[j] \notin Space
  BY <1>3, <1>4 DEF SpaceFrom
<1>13. /\ \A k \in 1 .. g : u[k] \in Space
       /\ g < e => u[g + 1] \notin Space
  BY <1>7, <1>8 DEF SpaceUpTo
<1>14. Len(x) = Len(y) /\ \A k \in 1 .. j : x[k] = y[k]
  <2>1. CASE i = L
    <3>1. e = 0
      BY <1>10, <1>11, <2>1
    <3>2. g = 0 /\ j = 0
      BY <2>1, <3>1
    <3>3. e - g = j
      BY <3>1, <3>2
    <3>4. Len(x) = Len(y)
      BY <1>5, <1>9, <3>3
    <3>5. \A k \in 1 .. j : FALSE
      BY <3>2
    <3> QED
      BY <3>4, <3>5
  <2>2. CASE i < L
    <3>1. t[1] = a[i + 1] /\ 1 \in 1 .. L - i
      BY <1>3, <2>2
    <3>2. j > 0
      <4>1. SUFFICES ASSUME j = 0 PROVE FALSE
        OBVIOUS
      <4> QED
        BY <1>10, <1>12, <2>2, <3>1, <4>1
    <3>3. a[i + j] \notin Space
      BY <1>3, <1>12, <3>2
    <3>4. e >= i + j
      <4>1. SUFFICES ASSUME e < i + j PROVE FALSE
        OBVIOUS
      <4>2. i + j \in e + 1 .. L
        BY <4>1
      <4> QED
        BY <1>11, <3>3, <4>2
    <3>5. e <= i + j
      <4>1. SUFFICES ASSUME e > i + j PROVE FALSE
        OBVIOUS
      <4>2. PICK k \in j + 1 .. L - i : k \in 1 .. L - i /\ i + k = e /\ k = e - i
        BY <4>1
      <4>3. t[k] \in Space /\ t[k] = a[i + k]
        BY <1>3, <1>12, <4>2
      <4>4. a[e] \in Space
        BY <4>2, <4>3
      <4>5. e > 0
        BY <4>1
      <4> QED
        BY <1>11, <4>4, <4>5
    <3>6. e = i + j
      BY <3>4, <3>5
    <3>7. g >= i
      <4>1. SUFFICES ASSUME g < i PROVE FALSE
        OBVIOUS
      <4>2. g + 1 \in 1 .. i /\ g + 1 \in 1 .. e /\ g < e
        BY <3>2, <3>6, <4>1
      <4> QED
        BY <1>7, <1>10, <1>13, <4>2
    <3>8. g <= i
      <4>1. SUFFICES ASSUME g > i PROVE FALSE
        OBVIOUS
      <4>2. i + 1 \in 1 .. g /\ i + 1 \in 1 .. e
        BY <3>2, <3>6, <4>1
      <4> QED
        BY <1>7, <1>10, <1>13, <2>2, <4>2
    <3>9. g = i
      BY <3>7, <3>8
    <3>10. e - g = j /\ \A k \in 1 .. j : k \in 1 .. L - i /\ i + k \in 1 .. e
      BY <3>6, <3>9
    <3>11. \A k \in 1 .. j : x[k] = y[k]
      <4>1. SUFFICES ASSUME NEW k \in 1 .. j PROVE x[k] = y[k]
        OBVIOUS
      <4>2. k \in 1 .. L - i /\ i + k \in 1 .. e /\ k \in 1 .. e - g /\ g + k = i + k
        BY <3>9, <3>10
      <4>3. x[k] = a[i + k]
        BY <1>3, <1>5, <4>2
      <4>4. y[k] = a[i + k]
        BY <1>7, <1>9, <4>2
      <4> QED
        BY <4>3, <4>4
    <3> QED
      BY <1>5, <1>9, <3>10, <3>11
  <2> QED
    BY <2>1, <2>2
<1>15. x = y
  BY <1>5, <1>14, SameView DEF Agree
<1>16. trim(a) = x /\ trim_start(trim_end(a)) = y
  BY <1>3, <1>5, <1>7, <1>9 DEF trim
<1>17. j \in Nat /\ i + j <= L /\ \A k \in 1 .. j : x[k] = a[i + k]
  BY <1>3, <1>5
<1> QED
  BY <1>1, <1>5, <1>10, <1>15, <1>16, <1>17

-----------------------------------------------------------------------------
(* The views of the client's span.                                         *)

LEMMA TextView ==
  ASSUME Numbered(s)
  PROVE  text \in Views
<1>1. PICK L \in Nat : L = Len(s) /\ DOMAIN s = 1 .. L /\ \A k \in 1 .. L : s[k] \in Element
  BY Positions DEF Numbered
<1>2. \A k \in 1 .. L : s[k].key \in Nat
  BY <1>1, WordCount DEF Element, Floats
<1>3. text = [k \in 1 .. L |-> s[k].key]
  BY <1>1 DEF text
<1>4. text \in [1 .. L -> Nat]
  BY <1>2, <1>3
<1> QED
  BY <1>4 DEF Views

Pieces(a) == { SubSeq(a, i, j) : i \in 1 .. Len(a) + 1, j \in 0 .. Len(a) }

LEMMA PiecesAreViews ==
  ASSUME NEW a \in Views, NEW v \in Pieces(a)
  PROVE  v \in Views /\ (v = <<>> \/ \E i \in 0 .. Len(a) : At(a, v, i))
<1>1. PICK i \in 1 .. Len(a) + 1, j \in 0 .. Len(a) : v = SubSeq(a, i, j)
  BY DEF Pieces
<1>2. Len(a) \in Nat
  BY ViewType
<1>3. CASE j < i
  <2>1. i \in Nat /\ j \in Nat
    BY <1>2
  <2>2. SubSeq(a, i, j) = <<>> /\ <<>> \in Views
    BY <1>3, <2>1, EmptyView
  <2> QED
    BY <1>1, <2>2
<1>4. CASE i <= j
  <2>1. PICK h \in Nat : h + 1 = i /\ h = i - 1
    BY <1>2
  <2>2. h <= j /\ j <= Len(a) /\ j \in Nat
    BY <1>2, <1>4, <2>1
  <2>3. /\ SubSeq(a, h + 1, j) \in Views /\ Len(SubSeq(a, h + 1, j)) = j - h
        /\ \A k \in 1 .. j - h : SubSeq(a, h + 1, j)[k] = a[h + k]
    BY <2>2, SubView
  <2>4. v \in Views /\ Len(v) = j - h /\ \A k \in 1 .. j - h : v[k] = a[h + k]
    BY <1>1, <2>1, <2>3
  <2>5. At(a, v, h) /\ h \in 0 .. Len(a)
    BY <1>2, <2>2, <2>4 DEF At
  <2> QED
    BY <2>4, <2>5
<1> QED
  BY <1>2, <1>3, <1>4

LEMMA AppendedView ==
  ASSUME NEW v \in Views, NEW k \in Nat
  PROVE  /\ Append(v, k) \in Views /\ Len(Append(v, k)) = Len(v) + 1
         /\ Append(v, k)[Len(v) + 1] = k
BY DEF Views

\* What is claimed of the view a and another one.
LEMMA ViewRight ==
  ASSUME NEW a \in Views, NEW v \in Views
  PROVE  /\ view_eq(a, v) <=> view_cmp(a, v) = 0
         /\ view_cmp(a, v) = -view_cmp(v, a)
         /\ cmp_cstr(Append(a, 0), Append(v, 0)) = view_cmp(from_cstr(Append(a, 0)), from_cstr(Append(v, 0)))
         /\ IF find_sub(a, v) = -1 THEN v \notin Pieces(a)
            ELSE /\ view_eq(view_sub(a, find_sub(a, v), Len(v)), v)
                 /\ \A i \in 0 .. find_sub(a, v) - 1 : ~view_eq(view_sub(a, i, Len(v)), v)
         /\ starts_with(a, v) <=> view_eq(view_sub(a, 0, Len(v)), v)
         /\ ends_with(a, v) <=> starts_with(Reverse(a), Reverse(v))
<1>1. Len(a) \in Nat /\ Len(v) \in Nat
  BY ViewType
<1>2. (view_eq(a, v) <=> view_cmp(a, v) = 0) /\ view_cmp(a, v) = -view_cmp(v, a)
  BY ViewsCompare
<1>3. cmp_cstr(Append(a, 0), Append(v, 0)) = view_cmp(from_cstr(Append(a, 0)), from_cstr(Append(v, 0)))
  <2>1. PICK b \in Views, w \in Views :
          /\ b = Append(a, 0) /\ Len(b) > 0 /\ b[Len(b)] = 0
          /\ w = Append(v, 0) /\ Len(w) > 0 /\ w[Len(w)] = 0
    <3>1. 0 \in Nat /\ Len(a) + 1 > 0 /\ Len(v) + 1 > 0
      BY <1>1
    <3>2. Append(a, 0) \in Views /\ Len(Append(a, 0)) = Len(a) + 1 /\ Append(a, 0)[Len(a) + 1] = 0
      BY <3>1, AppendedView
    <3>3. Append(v, 0) \in Views /\ Len(Append(v, 0)) = Len(v) + 1 /\ Append(v, 0)[Len(v) + 1] = 0
      BY <3>1, AppendedView
    <3> QED
      BY <3>1, <3>2, <3>3
  <2> QED
    BY <2>1, CstrsCompare
<1>4. ASSUME find_sub(a, v) = -1 PROVE v \notin Pieces(a)
  <2>1. \A i \in Nat : ~At(a, v, i)
    BY <1>1, <1>4, FindsFirst
  <2>2. v # <<>>
    <3>1. SUFFICES ASSUME v = <<>> PROVE FALSE
      OBVIOUS
    <3>2. At(a, v, 0)
      BY <1>1, <3>1, EmptyView DEF At
    <3> QED
      BY <2>1, <3>2
  <2>3. \A i \in 0 .. Len(a) : i \in Nat
    OBVIOUS
  <2> QED
    BY <2>1, <2>2, <2>3, PiecesAreViews
<1>5. ASSUME find_sub(a, v) # -1
      PROVE  /\ view_eq(view_sub(a, find_sub(a, v), Len(v)), v)
             /\ \A i \in 0 .. find_sub(a, v) - 1 : ~view_eq(view_sub(a, i, Len(v)), v)
  <2>1. PICK f \in 0 .. Len(a) : /\ f = find_sub(a, v) /\ At(a, v, f)
                                 /\ \A i \in 0 .. f - 1 : ~At(a, v, i)
    BY <1>5, FindsFirst
  <2>2. view_eq(view_sub(a, f, Len(v)), v)
    BY <2>1, CutEquals
  <2>3. \A i \in 0 .. f - 1 : i \in 0 .. Len(a)
    BY <1>1, <2>1
  <2>4. \A i \in 0 .. f - 1 : ~view_eq(view_sub(a, i, Len(v)), v)
    BY <2>1, <2>3, CutEquals
  <2> QED
    BY <2>1, <2>2, <2>4
<1>6. starts_with(a, v) <=> view_eq(view_sub(a, 0, Len(v)), v)
  <2>1. 0 \in 0 .. Len(a)
    BY <1>1
  <2> QED
    BY <2>1, StartsWith, CutEquals
<1>7. ends_with(a, v) <=> starts_with(Reverse(a), Reverse(v))
  BY EndsLikeReversed
<1> QED
  BY <1>2, <1>3, <1>4, <1>5, <1>6, <1>7

LEMMA ViewsRight ==
  ASSUME Numbered(s)
  PROVE  ViewsConsistent
<1> DEFINE a == text
           Other == Pieces(a) \union { Append(v, k) : v \in Pieces(a), k \in Keys }
<1>1. a \in Views
  BY TextView
<1>2. ASSUME NEW v \in Other PROVE v \in Pieces(a) \/ \E w \in Pieces(a), k \in Keys : v = Append(w, k)
  OBVIOUS
<1> HIDE DEF a, Other
<1>3. ASSUME NEW v \in Other PROVE v \in Views
  <2>1. \A k \in Keys : k \in Nat
    BY KeysAssumption, WordCount
  <2>2. CASE v \in Pieces(a)
    BY <1>1, <2>2, PiecesAreViews
  <2>3. CASE \E w \in Pieces(a), k \in Keys : v = Append(w, k)
    <3>1. PICK w \in Pieces(a), k \in Keys : v = Append(w, k)
      BY <2>3
    <3> QED
      BY <1>1, <2>1, <3>1, PiecesAreViews, AppendedView
  <2> QED
    BY <1>2, <2>2, <2>3
<1>4. PICK i \in 0 .. Len(a), n \in Nat :
        /\ \A k \in 1 .. i : a[k] \in Space
        /\ trim(a) \in Views /\ Len(trim(a)) = n /\ i + n <= Len(a)
        /\ \A k \in 1 .. n : trim(a)[k] = a[i + k]
        /\ trim(a) = trim_start(trim_end(a))
  BY <1>1, TrimsBoth
<1>5. At(a, trim(a), i)
  BY <1>4 DEF At
<1>6. i \in Nat /\ Len(a) \in Nat
  BY <1>1, ViewType
<1>7. /\ find_sub(a, trim(a)) \in 0 .. Len(a)
      /\ \A k \in 0 .. find_sub(a, trim(a)) - 1 : ~At(a, trim(a), k)
  BY <1>1, <1>4, <1>5, <1>6, FindsFirst
<1>8. find_sub(a, trim(a)) <= i
  <2>1. SUFFICES ASSUME i < find_sub(a, trim(a)) PROVE FALSE
    BY <1>6, <1>7
  <2>2. i \in 0 .. find_sub(a, trim(a)) - 1
    BY <1>6, <1>7, <2>1
  <2> QED
    BY <1>5, <1>7, <2>2
<1>9. find_sub(a, trim(a)) # -1 /\ \A k \in 1 .. find_sub(a, trim(a)) : a[k] \in Space
  BY <1>4, <1>6, <1>7, <1>8
<1>10. \A v \in Other :
         /\ view_eq(a, v) <=> view_cmp(a, v) = 0
         /\ view_cmp(a, v) = -view_cmp(v, a)
         /\ cmp_cstr(Append(a, 0), Append(v, 0)) = view_cmp(from_cstr(Append(a, 0)), from_cstr(Append(v, 0)))
         /\ IF find_sub(a, v) = -1 THEN v \notin Pieces(a)
            ELSE /\ view_eq(view_sub(a, find_sub(a, v), Len(v)), v)
                 /\ \A k \in 0 .. find_sub(a, v) - 1 : ~view_eq(view_sub(a, k, Len(v)), v)
         /\ starts_with(a, v) <=> view_eq(view_sub(a, 0, Len(v)), v)
         /\ ends_with(a, v) <=> starts_with(Reverse(a), Reverse(v))
  BY <1>1, <1>3, ViewRight
<1> QED
  <2> USE DEF a, Other
  <2>1. trim(text) = trim_start(trim_end(text))
    BY <1>4
  <2>2. \A k \in { find_sub(text, trim(text)) } : k # -1 /\ \A h \in 1 .. k : text[h] \in Space
    BY <1>9
  <2> DEFINE Parts == { SubSeq(text, b, e) : b \in 1 .. Len(text) + 1, e \in 0 .. Len(text) }
             Second == Parts \union { Append(v, k) : v \in Parts, k \in Keys }
             Claim(v, at) ==
               /\ view_eq(text, v) <=> view_cmp(text, v) = 0
               /\ view_cmp(text, v) = -view_cmp(v, text)
               /\ cmp_cstr(Append(text, 0), Append(v, 0)) = view_cmp(from_cstr(Append(text, 0)), from_cstr(Append(v, 0)))
               /\ IF at = -1 THEN v \notin Parts
                  ELSE /\ view_eq(view_sub(text, at, Len(v)), v)
                       /\ \A k \in 0 .. at - 1 : ~view_eq(view_sub(text, k, Len(v)), v)
               /\ starts_with(text, v) <=> view_eq(view_sub(text, 0, Len(v)), v)
               /\ ends_with(text, v) <=> starts_with(Reverse(text), Reverse(v))
  <2>3. Pieces(text) = Parts
    BY DEF Pieces
  <2>4. Second = Other
    BY <2>3
  <2>5. ASSUME NEW v \in Other PROVE Claim(v, find_sub(text, v))
    <3> HIDE DEF Other, Parts
    <3>1. /\ view_eq(text, v) <=> view_cmp(text, v) = 0
          /\ view_cmp(text, v) = -view_cmp(v, text)
          /\ cmp_cstr(Append(text, 0), Append(v, 0)) = view_cmp(from_cstr(Append(text, 0)), from_cstr(Append(v, 0)))
          /\ starts_with(text, v) <=> view_eq(view_sub(text, 0, Len(v)), v)
          /\ ends_with(text, v) <=> starts_with(Reverse(text), Reverse(v))
      BY <1>10
    <3>2. IF find_sub(text, v) = -1 THEN v \notin Parts
          ELSE /\ view_eq(view_sub(text, find_sub(text, v), Len(v)), v)
               /\ \A k \in 0 .. find_sub(text, v) - 1 : ~view_eq(view_sub(text, k, Len(v)), v)
      BY <1>10, <2>3
    <3> QED
      BY <3>1, <3>2
  <2>6. ViewsConsistent <=> /\ \A v \in Second : Claim(v, find_sub(text, v))
                            /\ trim(text) = trim_start(trim_end(text))
                            /\ \A k \in { find_sub(text, trim(text)) } : k # -1 /\ \A h \in 1 .. k : text[h] \in Space
    BY DEF ViewsConsistent
  <2> HIDE DEF Other, Second, Claim
  <2> QED
    BY <2>1, <2>2, <2>4, <2>5, <2>6

\* cmp.c, hash.c, str_view.c: the comparison of numbers is a total preorder in
\* which NaN and the two zeros have their places, equal numbers have equal
\* hashes; whatever the text, comparing views agrees with equality and with
\* strcmp, a search ends at the first match, and trimming takes just the space.
THEOREM ComparesConsistentlyHolds == Spec => []ComparesConsistently
<1>1. LibInv => ComparesConsistently
  BY KeysRight, ViewsRight DEF LibInv, ComparesConsistently
<1> QED
  BY <1>1, LibInvHolds, PTL

-----------------------------------------------------------------------------
(* bit.c: words and the numbers they are.                                  *)

LEMMA Values ==
  ASSUME NEW v
  PROVE  /\ Value(0, v) = 0
         /\ \A n \in Nat : /\ Value(n, v) \in Nat
                           /\ Value(n + 1, v) = Value(n, v) + (IF n \in v THEN Power[n] ELSE 0)
<1>1. PICK F : F = [n \in Nat |-> [a \in Nat |-> a + (IF n \in v THEN Power[n] ELSE 0)]]
  OBVIOUS
<1>2. \A n \in Nat : \A a \in Nat : /\ F[n][a] = a + (IF n \in v THEN Power[n] ELSE 0)
                                    /\ F[n][a] \in Nat
  BY <1>1, Powers
<1>3. PICK f \in [Nat -> Nat] : f = [n \in Nat |-> IF n = 0 THEN 0 ELSE F[n - 1][f[n - 1]]]
  <2>1. 0 \in Nat /\ \A n \in Nat : \A a \in Nat : F[n][a] \in Nat
    BY <1>2
  <2> QED
    BY <2>1, Unrolls
<1>4. f = [n \in Nat |-> IF n = 0 THEN 0 ELSE f[n - 1] + (IF n - 1 \in v THEN Power[n - 1] ELSE 0)]
  <2>1. ASSUME NEW n \in Nat
        PROVE  f[n] = IF n = 0 THEN 0 ELSE f[n - 1] + (IF n - 1 \in v THEN Power[n - 1] ELSE 0)
    <3>1. f[n] = IF n = 0 THEN 0 ELSE F[n - 1][f[n - 1]]
      BY <1>3
    <3>2. n # 0 => n - 1 \in Nat /\ f[n - 1] \in Nat
      OBVIOUS
    <3> QED
      BY <1>2, <3>1, <3>2
  <2>2. f = [n \in Nat |-> f[n]]
    BY <1>3
  <2> QED
    BY <2>1, <2>2
<1>5. PICK g : g = CHOOSE h : h = [n \in Nat |-> IF n = 0 THEN 0 ELSE h[n - 1] + (IF n - 1 \in v THEN Power[n - 1] ELSE 0)]
  OBVIOUS
<1>6. g = [n \in Nat |-> IF n = 0 THEN 0 ELSE g[n - 1] + (IF n - 1 \in v THEN Power[n - 1] ELSE 0)]
  BY <1>4, <1>5
<1>7. \A n \in Nat : Value(n, v) = g[n]
  BY <1>5 DEF Value
<1>8. g[0] = 0 /\ \A n \in Nat : g[n + 1] = g[n] + (IF n \in v THEN Power[n] ELSE 0)
  <2>1. \A n \in Nat : g[n] = IF n = 0 THEN 0 ELSE g[n - 1] + (IF n - 1 \in v THEN Power[n - 1] ELSE 0)
    BY <1>6
  <2>2. \A n \in Nat : n + 1 \in Nat /\ n + 1 # 0 /\ (n + 1) - 1 = n
    OBVIOUS
  <2> QED
    BY <2>1, <2>2
<1>9. \A n \in Nat : g[n] \in Nat
  <2>1. SUFFICES ASSUME NEW N \in Nat PROVE g[N] \in Nat
    OBVIOUS
  <2>2. PICK S : S = { n \in 0 .. N : g[n] \in Nat }
    OBVIOUS
  <2>3. 0 \in S
    BY <1>8, <2>2
  <2>4. \A n \in 0 .. N - 1 : n \in S => n + 1 \in S
    <3>1. SUFFICES ASSUME NEW n \in 0 .. N - 1, n \in S PROVE n + 1 \in S
      OBVIOUS
    <3>2. g[n + 1] = g[n] + (IF n \in v THEN Power[n] ELSE 0) /\ g[n] \in Nat /\ Power[n] \in Nat
      BY <1>8, <2>2, <3>1, Powers
    <3> QED
      BY <2>2, <3>2
  <2>5. \A n \in 0 .. N : n \in S
    BY <2>3, <2>4, UpTo_Induction
  <2> QED
    BY <2>2, <2>5
<1> QED
  BY <1>7, <1>8, <1>9

LEMMA ValueBounded ==
  ASSUME NEW w \in Nat, NEW v
  PROVE  Value(w, v) \in 0 .. Power[w] - 1
<1>1. PICK S : S = { n \in 0 .. w : Value(n, v) \in 0 .. Power[n] - 1 }
  OBVIOUS
<1>2. 0 \in S
  BY <1>1, Values, Powers
<1>3. \A n \in 0 .. w - 1 : n \in S => n + 1 \in S
  <2>1. SUFFICES ASSUME NEW n \in 0 .. w - 1, n \in S PROVE n + 1 \in S
    OBVIOUS
  <2>2. /\ Value(n + 1, v) = Value(n, v) + (IF n \in v THEN Power[n] ELSE 0)
        /\ Power[n] \in Nat /\ Power[n + 1] = 2 * Power[n]
        /\ Value(n, v) \in 0 .. Power[n] - 1
    BY <1>1, <2>1, Values, Powers
  <2>3. Value(n + 1, v) \in 0 .. Power[n + 1] - 1
    BY <2>2
  <2> QED
    BY <1>1, <2>3
<1>4. \A n \in 0 .. w : n \in S
  BY <1>2, <1>3, UpTo_Induction
<1> QED
  BY <1>1, <1>4

\* A number depends only on the positions below its width.
LEMMA ValueAgrees ==
  ASSUME NEW w \in Nat, NEW u, NEW v, \A p \in 0 .. w - 1 : p \in u <=> p \in v
  PROVE  Value(w, u) = Value(w, v)
<1>1. PICK S : S = { n \in 0 .. w : Value(n, u) = Value(n, v) }
  OBVIOUS
<1>2. 0 \in S
  BY <1>1, Values
<1>3. \A n \in 0 .. w - 1 : n \in S => n + 1 \in S
  <2>1. SUFFICES ASSUME NEW n \in 0 .. w - 1, n \in S PROVE n + 1 \in S
    OBVIOUS
  <2>2. n \in Nat
    OBVIOUS
  <2>3. Value(n + 1, v) = Value(n, v) + (IF n \in v THEN Power[n] ELSE 0)
    BY <2>2, Values
  <2>4. Value(n + 1, u) = Value(n, u) + (IF n \in u THEN Power[n] ELSE 0)
    BY <2>2, Values
  <2> QED
    BY <1>1, <2>1, <2>3, <2>4
<1>4. \A n \in 0 .. w : n \in S
  BY <1>2, <1>3, UpTo_Induction
<1> QED
  BY <1>1, <1>4

\* Different words are different numbers.
LEMMA ValueInjective ==
  ASSUME NEW w \in Nat, NEW u \in SUBSET Pos(w), NEW v \in SUBSET Pos(w), Value(w, u) = Value(w, v)
  PROVE  u = v
<1>1. PICK S : S = { n \in 0 .. w : Value(n, u) = Value(n, v) => \A p \in 0 .. n - 1 : p \in u <=> p \in v }
  OBVIOUS
<1>2. 0 \in S
  BY <1>1
<1>3. \A n \in 0 .. w - 1 : n \in S => n + 1 \in S
  <2>1. ASSUME NEW n \in 0 .. w - 1, n \in S, Value(n + 1, u) = Value(n + 1, v)
        PROVE  \A p \in 0 .. n : p \in u <=> p \in v
    <3>0. n \in Nat
      OBVIOUS
    <3>1. Value(n + 1, v) = Value(n, v) + (IF n \in v THEN Power[n] ELSE 0)
      BY <3>0, Values
    <3>9. Value(n + 1, u) = Value(n, u) + (IF n \in u THEN Power[n] ELSE 0) /\ Power[n] \in Nat
      BY <3>0, Values, Powers
    <3>2. Value(n, u) \in 0 .. Power[n] - 1 /\ Value(n, v) \in 0 .. Power[n] - 1
      BY ValueBounded
    <3>3. n \in u <=> n \in v
      BY <2>1, <3>1, <3>9, <3>2
    <3>4. Value(n, u) = Value(n, v)
      BY <2>1, <3>1, <3>9, <3>2, <3>3
    <3>5. \A p \in 0 .. n - 1 : p \in u <=> p \in v
      BY <1>1, <2>1, <3>4
    <3> QED
      BY <3>3, <3>5
  <2>2. \A n \in 0 .. w - 1 : n + 1 \in 0 .. w /\ (n + 1) - 1 = n
    OBVIOUS
  <2> QED
    BY <1>1, <2>1, <2>2
<1>4. \A n \in 0 .. w : n \in S
  BY <1>2, <1>3, UpTo_Induction
<1>5. \A p \in 0 .. w - 1 : p \in u <=> p \in v
  BY <1>1, <1>4
<1> QED
  BY <1>5 DEF Pos

\* The lowest w bits of a number are its remainder.
Bits(n) == { p \in Nat : (n \div Power[p]) % 2 = 1 }

LEMMA QuotientUnique ==
  ASSUME NEW x \in Int, NEW d \in Nat \ {0}, NEW q \in Int, NEW r \in 0 .. d - 1, x = d * q + r
  PROVE  x \div d = q /\ x % d = r
<1>1. x % d = r
  BY ModUnique
<1>2. x \div d \in Int /\ x = d * (x \div d) + r
  BY <1>1, DivMod
<1>3. PICK p \in Int : p = x \div d
  BY <1>2
<1>4. d * p = d * q
  BY <1>2, <1>3
<1>5. p = q
  BY <1>4
<1> QED
  BY <1>1, <1>3, <1>5

LEMMA LowBits ==
  ASSUME NEW w \in Nat, NEW n \in Nat
  PROVE  n = Power[w] * (n \div Power[w]) + Value(w, Bits(n))
<1>1. PICK S : S = { k \in 0 .. w : n = Power[k] * (n \div Power[k]) + Value(k, Bits(n)) }
  OBVIOUS
<1>2. 0 \in S
  <2>1. Power[0] = 1 /\ Value(0, Bits(n)) = 0 /\ n \div 1 = n /\ 1 * n + 0 = n
    BY Values, Powers
  <2> QED
    BY <1>1, <2>1
<1>3. \A k \in 0 .. w - 1 : k \in S => k + 1 \in S
  <2>1. SUFFICES ASSUME NEW k \in 0 .. w - 1, k \in S
                 PROVE  n = Power[k + 1] * (n \div Power[k + 1]) + Value(k + 1, Bits(n))
    BY <1>1
  <2>2. PICK P \in Nat \ {0} : P = Power[k] /\ 2 * P = Power[k + 1]
    BY Powers
  <2>3. PICK q \in Int : q = n \div P /\ n = P * q + Value(k, Bits(n))
    <3>1. n \div P \in Int
      BY DivMod
    <3> QED
      BY <1>1, <2>1, <2>2, <3>1
  <2>4. PICK h \in Int, r \in {0, 1} : q = 2 * h + r /\ r = q % 2
    <3>1. q % 2 \in 0 .. 2 - 1 /\ q \div 2 \in Int /\ q = 2 * (q \div 2) + (q % 2)
      BY DivMod
    <3> QED
      BY <3>1
  <2>5. PICK V \in 0 .. P - 1 : V = Value(k, Bits(n))
    BY <2>2, ValueBounded
  <2>6. k \in Bits(n) <=> r = 1
    BY <2>2, <2>3, <2>4 DEF Bits
  <2>7. Value(k + 1, Bits(n)) = V + P * r
    <3>1. Value(k + 1, Bits(n)) = V + (IF k \in Bits(n) THEN P ELSE 0)
      <4>1. k \in Nat
        OBVIOUS
      <4> QED
        BY <2>2, <2>5, <4>1, Values
    <3>2. CASE r = 0
      BY <2>6, <3>1, <3>2
    <3>3. CASE r = 1
      BY <2>6, <3>1, <3>3
    <3> QED
      BY <3>2, <3>3
  <2>8. n = (2 * P) * h + (V + P * r)
    <3>1. P * (2 * h + r) = (2 * P) * h + P * r
      OBVIOUS
    <3>2. n = P * (2 * h + r) + V
      BY <2>3, <2>4, <2>5
    <3>3. PICK a \in Int, b \in Int : a = (2 * P) * h /\ b = P * r
      BY <2>4
    <3>4. n = (a + b) + V
      BY <3>1, <3>2, <3>3
    <3>5. n = a + (V + b)
      BY <2>5, <3>3, <3>4
    <3> QED
      BY <3>3, <3>5
  <2>9. V + P * r \in 0 .. 2 * P - 1
    BY <2>4, <2>5
  <2>10. n \div (2 * P) = h
    BY <2>8, <2>9, QuotientUnique
  <2> QED
    BY <2>2, <2>7, <2>8, <2>10
<1>4. \A k \in 0 .. w : k \in S
  BY <1>2, <1>3, UpTo_Induction
<1> QED
  BY <1>1, <1>4

LEMMA WordIsRest ==
  ASSUME NEW w \in Nat, NEW n \in Nat
  PROVE  /\ Word(w, n) \in SUBSET Pos(w)
         /\ Value(w, Word(w, n)) \in 0 .. Power[w] - 1
         /\ \E q \in Int : n = Power[w] * q + Value(w, Word(w, n))
<1>1. \A p \in 0 .. w - 1 : p \in Word(w, n) <=> p \in Bits(n)
  BY DEF Word, Bits, Pos
<1>2. Value(w, Word(w, n)) \in 0 .. Power[w] - 1 /\ Value(w, Word(w, n)) = Value(w, Bits(n))
  BY <1>1, ValueAgrees, ValueBounded
<1>3. n \div Power[w] \in Int
  <2>1. Power[w] \in Nat \ {0} /\ n \in Int
    BY Powers
  <2> QED
    BY <2>1, DivMod
<1>4. n = Power[w] * (n \div Power[w]) + Value(w, Word(w, n))
  <2>1. n = Power[w] * (n \div Power[w]) + Value(w, Bits(n))
    BY LowBits
  <2> QED
    BY <1>2, <2>1, Zenon
<1>5. Word(w, n) \in SUBSET Pos(w)
  BY DEF Word
<1> QED
  BY <1>2, <1>3, <1>4, <1>5, Zenon

LEMMA WordOfValue ==
  ASSUME NEW w \in Nat, NEW v \in SUBSET Pos(w)
  PROVE  Word(w, Value(w, v)) = v
<1>1. PICK n \in Nat : n = Value(w, v) /\ n \in 0 .. Power[w] - 1
  BY ValueBounded, Values
<1>2. Word(w, n) \in SUBSET Pos(w)
  BY WordIsRest
<1>3. PICK P \in Nat \ {0}, V \in Nat, q \in Int :
        P = Power[w] /\ V = Value(w, Word(w, n)) /\ V \in 0 .. P - 1 /\ n = P * q + V
  <2>1. PICK P \in Nat \ {0} : P = Power[w]
    BY Powers
  <2>2. PICK V \in 0 .. P - 1 : V = Value(w, Word(w, n))
    BY <2>1, WordIsRest
  <2>3. \E q \in Int : n = P * q + V
    BY <2>1, <2>2, WordIsRest
  <2> QED
    BY <2>1, <2>2, <2>3
<1>4. q = 0
  <2>1. n \in 0 .. P - 1
    BY <1>1, <1>3
  <2>2. ~ (q >= 1)
    <3>1. SUFFICES ASSUME q >= 1 PROVE FALSE
      OBVIOUS
    <3>2. P * q >= P
      BY <3>1
    <3> QED
      BY <1>3, <2>1, <3>2
  <2>3. ~ (q <= -1)
    <3>1. SUFFICES ASSUME q <= -1 PROVE FALSE
      OBVIOUS
    <3>2. P * q <= -P
      BY <3>1
    <3> QED
      BY <1>3, <2>1, <3>2
  <2> QED
    BY <2>2, <2>3
<1>5. Value(w, Word(w, n)) = Value(w, v)
  BY <1>1, <1>3, <1>4
<1> QED
  BY <1>1, <1>2, <1>5, ValueInjective

-----------------------------------------------------------------------------
(* hash.c, rand.c: mixing.                                                 *)

\* Numbers with the same lowest bits differ by a multiple of a power of two.
LEMMA SameWord ==
  ASSUME NEW w \in Nat, NEW n \in Nat, NEW m \in Nat, Word(w, n) = Word(w, m)
  PROVE  \E q \in Int : n - m = Power[w] * q
<1>1. PICK P \in Nat \ {0} : P = Power[w]
  BY Powers
<1>2. PICK V \in 0 .. P - 1 : V = Value(w, Word(w, n)) /\ V = Value(w, Word(w, m))
  BY <1>1, WordIsRest
<1>3. PICK x \in Int : n = P * x + V
  <2>1. \E q \in Int : n = Power[w] * q + Value(w, Word(w, n))
    BY WordIsRest
  <2> QED
    BY <1>1, <1>2, <2>1
<1>4. PICK y \in Int : m = P * y + V
  <2>1. \E q \in Int : m = Power[w] * q + Value(w, Word(w, m))
    BY WordIsRest
  <2> QED
    BY <1>1, <1>2, <2>1
<1>5. P * (x - y) = P * x - P * y
  OBVIOUS
<1>6. PICK a \in Int, b \in Int : a = P * x /\ b = P * y
  OBVIOUS
<1>7. n - m = a - b
  BY <1>2, <1>3, <1>4, <1>6
<1>8. PICK q \in Int : q = x - y
  OBVIOUS
<1>9. n - m = P * q
  BY <1>5, <1>6, <1>7, <1>8
<1> QED
  BY <1>1, <1>9

\* Numbers below a power of two that differ by a multiple of it are the same.
LEMMA SmallMultiple ==
  ASSUME NEW P \in Nat \ {0}, NEW x \in 0 .. P - 1, NEW y \in 0 .. P - 1, NEW q \in Int, x - y = P * q
  PROVE  x = y
<1>1. ~ (q >= 1)
  <2>1. SUFFICES ASSUME q >= 1 PROVE FALSE
    OBVIOUS
  <2>2. P * q >= P
    BY <2>1
  <2> QED
    BY <2>2
<1>2. ~ (q <= -1)
  <2>1. SUFFICES ASSUME q <= -1 PROVE FALSE
    OBVIOUS
  <2>2. P * q <= -P
    BY <2>1
  <2> QED
    BY <2>2
<1>3. q = 0
  BY <1>1, <1>2
<1>4. P * q = 0
  BY <1>3
<1> QED
  BY <1>4

\* An odd factor is prime to the powers of two.
LEMMA OddCancels ==
  ASSUME NEW w \in Nat, NEW j \in Nat, NEW d \in Int, NEW e \in Int, d * (2 * j + 1) = Power[w] * e
  PROVE  \E f \in Int : d = Power[w] * f
<1>1. PICK k \in Nat : k = 2 * j + 1
  OBVIOUS
<1>2. PICK S : S = { n \in 0 .. w : \E f \in Int : d = Power[n] * f }
  OBVIOUS
<1>3. 0 \in S
  <2>1. d = 1 * d /\ Power[0] = 1
    BY Powers
  <2> QED
    BY <1>2, <2>1
<1>4. \A n \in 0 .. w - 1 : n \in S => n + 1 \in S
  <2>1. SUFFICES ASSUME NEW n \in 0 .. w - 1, n \in S PROVE \E f \in Int : d = Power[n + 1] * f
    BY <1>2
  <2>2. n \in Nat /\ w - n - 1 \in Nat /\ n + 1 \in Nat /\ (n + 1) + (w - n - 1) = w
    OBVIOUS
  <2>3. PICK P \in Nat \ {0}, R \in Nat \ {0} : P = Power[n] /\ 2 * P = Power[n + 1] /\ Power[w] = (2 * P) * R
    <3>1. PICK R \in Nat \ {0} : R = Power[w - n - 1]
      BY <2>2, Powers
    <3>2. PICK P \in Nat \ {0} : P = Power[n] /\ 2 * P = Power[n + 1]
      BY <2>2, Powers
    <3>3. Power[w] = Power[n + 1] * R
      BY <2>2, <3>1, PowerSum
    <3> QED
      BY <3>2, <3>3
  <2>4. PICK f \in Int : d = P * f
    BY <1>2, <2>1, <2>3
  <2>5. P * (f * k) = P * (2 * (R * e))
    <3>1. d * k = ((2 * P) * R) * e
      BY <1>1, <2>3
    <3>2. (P * f) * k = ((2 * P) * R) * e
      BY <2>4, <3>1
    <3>3. (P * f) * k = P * (f * k)
      OBVIOUS
    <3>4. ((2 * P) * R) * e = P * (2 * (R * e))
      OBVIOUS
    <3> QED
      BY <3>2, <3>3, <3>4
  <2>6. PICK x \in Int, y \in Int : x = f * k /\ y = R * e
    OBVIOUS
  <2>7. x = 2 * y
    <3>1. P * x = P * (2 * y)
      BY <2>5, <2>6
    <3> QED
      BY <3>1
  <2>8. x = 2 * (f * j) + f
    BY <1>1, <2>6
  <2>9. PICK g \in Int : g = y - f * j
    OBVIOUS
  <2>10. f = 2 * g
    <3>1. PICK z \in Int : z = f * j
      OBVIOUS
    <3> QED
      BY <2>7, <2>8, <2>9, <3>1
  <2>11. d = (2 * P) * g
    BY <2>4, <2>10
  <2> QED
    BY <2>3, <2>11
<1>5. \A n \in 0 .. w : n \in S
  BY <1>3, <1>4, UpTo_Induction
<1> QED
  BY <1>2, <1>5

LEMMA MulInjective ==
  ASSUME NEW w \in Nat, NEW j \in Nat, NEW u \in SUBSET Pos(w), NEW v \in SUBSET Pos(w),
         mul(w, u, 2 * j + 1) = mul(w, v, 2 * j + 1)
  PROVE  u = v
<1>1. PICK P \in Nat \ {0} : P = Power[w]
  BY Powers
<1>2. PICK x \in 0 .. P - 1, y \in 0 .. P - 1 : x = Value(w, u) /\ y = Value(w, v)
  BY <1>1, ValueBounded
<1>3. PICK k \in Nat : k = 2 * j + 1
  OBVIOUS
<1>4. x * k \in Nat /\ y * k \in Nat /\ Word(w, x * k) = Word(w, y * k)
  BY <1>2, <1>3 DEF mul
<1>5. PICK q \in Int : x * k - y * k = P * q
  BY <1>1, <1>4, SameWord
<1>6. PICK d \in Int : d = x - y
  OBVIOUS
<1>7. d * k = P * q
  <2>1. (x - y) * k = x * k - y * k
    OBVIOUS
  <2> QED
    BY <1>5, <1>6, <2>1
<1>8. PICK f \in Int : d = P * f
  BY <1>1, <1>3, <1>7, OddCancels
<1>9. x = y
  BY <1>6, <1>8, SmallMultiple
<1> QED
  BY <1>2, <1>9, ValueInjective

LEMMA AddInjective ==
  ASSUME NEW w \in Nat, NEW u \in SUBSET Pos(w), NEW v \in SUBSET Pos(w), NEW b,
         add(w, u, b) = add(w, v, b)
  PROVE  u = v
<1>1. PICK P \in Nat \ {0} : P = Power[w]
  BY Powers
<1>2. PICK x \in 0 .. P - 1, y \in 0 .. P - 1, z \in Nat : x = Value(w, u) /\ y = Value(w, v) /\ z = Value(w, b)
  BY <1>1, ValueBounded, Values
<1>3. x + z \in Nat /\ y + z \in Nat /\ Word(w, x + z) = Word(w, y + z)
  BY <1>2 DEF add
<1>4. PICK q \in Int : (x + z) - (y + z) = P * q
  BY <1>1, <1>3, SameWord
<1>5. x - y = P * q
  BY <1>4
<1>6. x = y
  BY <1>5, SmallMultiple
<1> QED
  BY <1>2, <1>6, ValueInjective

LEMMA XorCancels ==
  ASSUME NEW a, NEW b, NEW c, xor(c, a) = xor(c, b)
  PROVE  a = b
BY DEF xor

\* The highest position where two words differ still differs after a shift to
\* the right has been taken from both.
LEMMA ShiftInjective ==
  ASSUME NEW w \in Nat, NEW n \in Nat \ {0}, NEW u \in SUBSET Pos(w), NEW v \in SUBSET Pos(w),
         xor(u, shr(w, u, n)) = xor(v, shr(w, v, n))
  PROVE  u = v
<1>1. \A p \in Pos(w) : /\ p \in shr(w, u, n) <=> p + n \in u
                        /\ p \in shr(w, v, n) <=> p + n \in v
  BY DEF shr, Pos
<1>2. PICK S : S = { m \in 0 .. w : \A p \in w - m .. w - 1 : p \in u <=> p \in v }
  OBVIOUS
<1>3. 0 \in S
  BY <1>2
<1>4. \A m \in 0 .. w - 1 : m \in S => m + 1 \in S
  <2>1. SUFFICES ASSUME NEW m \in 0 .. w - 1, m \in S
                 PROVE  \A p \in w - (m + 1) .. w - 1 : p \in u <=> p \in v
    BY <1>2
  <2>2. PICK p \in Pos(w) : p = w - (m + 1)
    BY DEF Pos
  <2>3. p + n \in u <=> p + n \in v
    <3>1. p + n \in w - m .. w - 1 \/ p + n >= w
      BY <2>2 DEF Pos
    <3>2. CASE p + n >= w
      BY <3>2 DEF Pos
    <3> QED
      BY <1>2, <2>1, <3>1, <3>2
  <2>4. p \in shr(w, u, n) <=> p \in shr(w, v, n)
    BY <1>1, <2>3
  <2>5. p \in u <=> p \in v
    BY <2>4 DEF xor
  <2>6. \A i \in w - (m + 1) .. w - 1 : i = p \/ i \in w - m .. w - 1
    BY <2>2
  <2> QED
    BY <1>2, <2>1, <2>5, <2>6
<1>5. \A m \in 0 .. w : m \in S
  BY <1>3, <1>4, UpTo_Induction
<1>6. w \in S
  BY <1>5
<1>7. \A p \in 0 .. w - 1 : p \in u <=> p \in v
  BY <1>2, <1>6
<1> QED
  BY <1>7 DEF Pos

XorShr(w, u, n) == xor(u, shr(w, u, n))

\* The three shifts and two odd factors of mix64 and splitmix64.
Rounds(w, n, v) ==
  XorShr(w, mul(w, XorShr(w, mul(w, XorShr(w, v, n), FMIX_C1), n), FMIX_C2), n)

LEMMA StayWords ==
  ASSUME NEW w \in Nat
  PROVE  /\ \A u \in SUBSET Pos(w) : \A n : XorShr(w, u, n) \in SUBSET Pos(w)
         /\ \A u, k : mul(w, u, k) \in SUBSET Pos(w)
         /\ \A u, b : add(w, u, b) \in SUBSET Pos(w)
BY DEF XorShr, xor, shr, mul, add, Word

LEMMA RoundsInjective ==
  ASSUME NEW w \in Nat, NEW n \in Nat \ {0}, NEW u \in SUBSET Pos(w), NEW v \in SUBSET Pos(w),
         Rounds(w, n, u) = Rounds(w, n, v)
  PROVE  u = v
<1>1. PICK a, b, c, d : /\ a = XorShr(w, u, n) /\ b = XorShr(w, v, n)
                        /\ c = mul(w, a, FMIX_C1) /\ d = mul(w, b, FMIX_C1)
  OBVIOUS
<1>2. PICK e, f, g, h : /\ e = XorShr(w, c, n) /\ f = XorShr(w, d, n)
                        /\ g = mul(w, e, FMIX_C2) /\ h = mul(w, f, FMIX_C2)
  OBVIOUS
<1>3. /\ a \in SUBSET Pos(w) /\ b \in SUBSET Pos(w) /\ c \in SUBSET Pos(w) /\ d \in SUBSET Pos(w)
      /\ e \in SUBSET Pos(w) /\ f \in SUBSET Pos(w) /\ g \in SUBSET Pos(w) /\ h \in SUBSET Pos(w)
  BY <1>1, <1>2, StayWords
<1>4. XorShr(w, g, n) = XorShr(w, h, n)
  BY <1>1, <1>2 DEF Rounds
<1>5. g = h
  BY <1>3, <1>4, ShiftInjective DEF XorShr
<1>6. e = f
  <2>1. PICK j \in Nat : j = 5 /\ 2 * j + 1 = FMIX_C2
    BY DEF FMIX_C2
  <2>2. mul(w, e, 2 * j + 1) = mul(w, f, 2 * j + 1)
    BY <1>2, <1>5, <2>1
  <2> QED
    BY <1>3, <2>2, MulInjective
<1>7. c = d
  BY <1>2, <1>3, <1>6, ShiftInjective DEF XorShr
<1>8. a = b
  <2>1. PICK j \in Nat : j = 2 /\ 2 * j + 1 = FMIX_C1
    BY DEF FMIX_C1
  <2>2. mul(w, a, 2 * j + 1) = mul(w, b, 2 * j + 1)
    BY <1>1, <1>7, <2>1
  <2> QED
    BY <1>3, <2>2, MulInjective
<1> QED
  BY <1>1, <1>8, ShiftInjective DEF XorShr

LEMMA RoundsStay ==
  ASSUME NEW w \in Nat, NEW n, NEW u \in SUBSET Pos(w)
  PROVE  Rounds(w, n, u) \in SUBSET Pos(w)
BY StayWords DEF Rounds

LEMMA MixesExactly ==
  ASSUME NEW w \in Nat, NEW u \in SUBSET Pos(w), NEW v \in SUBSET Pos(w), hash_mix(w, u) = hash_mix(w, v)
  PROVE  u = v
<1>1. w \div 2 + 1 \in Nat \ {0}
  OBVIOUS
<1>2. \A a : hash_mix(w, a) = Rounds(w, w \div 2 + 1, a)
  BY DEF hash_mix, Rounds, XorShr
<1>3. PICK n \in Nat \ {0} : n = w \div 2 + 1
  BY <1>1
<1>4. Rounds(w, n, u) = Rounds(w, n, v)
  BY <1>2, <1>3
<1> QED
  BY <1>4, RoundsInjective

LEMMA CombinesExactly ==
  ASSUME NEW w \in Nat, NEW h \in SUBSET Pos(w), NEW u \in SUBSET Pos(w), NEW v \in SUBSET Pos(w),
         hash_combine(w, h, u) = hash_combine(w, h, v)
  PROVE  u = v
<1>1. PICK g, a, b : g = Word(w, GOLDEN) /\ a = shl(w, h, 6 % w) /\ b = shr(w, h, 2)
  OBVIOUS
<1>2. /\ hash_combine(w, h, u) = hash_mix(w, xor(h, add(w, add(w, add(w, u, g), a), b)))
      /\ hash_combine(w, h, v) = hash_mix(w, xor(h, add(w, add(w, add(w, v, g), a), b)))
  BY <1>1 DEF hash_combine
<1>3. \A x \in SUBSET Pos(w) : xor(h, x) \in SUBSET Pos(w)
  BY DEF xor
<1>4. PICK c, d : c = add(w, add(w, add(w, u, g), a), b) /\ d = add(w, add(w, add(w, v, g), a), b)
  OBVIOUS
<1>5. c = d
  <2>1. c \in SUBSET Pos(w) /\ d \in SUBSET Pos(w)
    BY <1>4, StayWords
  <2>2. PICK x \in SUBSET Pos(w), y \in SUBSET Pos(w) : x = xor(h, c) /\ y = xor(h, d)
    BY <1>3, <2>1
  <2>3. hash_mix(w, x) = hash_mix(w, y)
    BY <1>2, <1>4, <2>2
  <2>4. x = y
    BY <2>3, MixesExactly
  <2> QED
    BY <2>2, <2>4, XorCancels
<1>6. add(w, add(w, u, g), a) = add(w, add(w, v, g), a)
  BY <1>4, <1>5, StayWords, AddInjective
<1>7. add(w, u, g) = add(w, v, g)
  BY <1>6, StayWords, AddInjective
<1> QED
  BY <1>7, AddInjective

\* rand.c: the words splitmix64 makes of successive numbers differ.
LEMMA SeedsNotZero ==
  ASSUME NEW w \in Nat, w > 2, NEW seed
  PROVE  \E k \in 0 .. 3 : rng_new(w, seed)[k] # {}
<1>1. SUFFICES ASSUME \A k \in 0 .. 3 : rng_new(w, seed)[k] = {} PROVE FALSE
  OBVIOUS
<1>2. PICK x \in Nat : x = Value(w, seed)
  BY Values
<1>3. PICK n \in Nat \ {0} : n = w \div 2
  <2>1. w \div 2 \in Nat \ {0}
    OBVIOUS
  <2> QED
    BY <2>1
<1>4. \A z : splitmix(w, z) = Rounds(w, n, z)
  BY <1>3 DEF splitmix, Rounds, XorShr
<1>5. PICK y \in Nat, z \in Nat : y = x + 11 /\ z = x + 22
  OBVIOUS
<1>6. rng_new(w, seed)[0] = splitmix(w, Word(w, y)) /\ rng_new(w, seed)[1] = splitmix(w, Word(w, z))
  <2>1. \A k \in 0 .. 3 : rng_new(w, seed)[k] = splitmix(w, Word(w, x + (k + 1) * 11))
    BY <1>2 DEF rng_new, GOLDEN
  <2>2. 0 \in 0 .. 3 /\ 1 \in 0 .. 3 /\ x + (0 + 1) * 11 = y /\ x + (1 + 1) * 11 = z
    BY <1>5
  <2> QED
    BY <2>1, <2>2
<1>7. Rounds(w, n, Word(w, y)) = Rounds(w, n, Word(w, z))
  <2>1. 0 \in 0 .. 3 /\ 1 \in 0 .. 3
    OBVIOUS
  <2> QED
    BY <1>1, <1>4, <1>6, <2>1
<1>8. Word(w, y) \in SUBSET Pos(w) /\ Word(w, z) \in SUBSET Pos(w)
  BY DEF Word
<1>9. Word(w, z) = Word(w, y)
  BY <1>7, <1>8, RoundsInjective
<1>10. PICK q \in Int : z - y = Power[w] * q
  BY <1>9, SameWord
<1>11. Power[1] = 2 /\ Power[2] = 4 /\ Power[3] = 8
  <2>1. 0 + 1 = 1 /\ 1 + 1 = 2 /\ 2 + 1 = 3
    OBVIOUS
  <2> QED
    BY <2>1, Powers
<1>12. PICK R \in Nat \ {0} : Power[w] = 8 * R
  <2>1. PICK k \in Nat : k = w - 3
    OBVIOUS
  <2>2. PICK R \in Nat \ {0} : R = Power[k]
    BY Powers
  <2>3. Power[3 + k] = Power[3] * Power[k]
    BY PowerSum
  <2>4. 3 + k = w
    BY <2>1
  <2> QED
    BY <1>11, <2>2, <2>3, <2>4
<1>13. 11 = 8 * (R * q)
  <2>1. (8 * R) * q = 8 * (R * q)
    OBVIOUS
  <2> QED
    BY <1>5, <1>10, <1>12, <2>1
<1>14. PICK m \in Int : m = R * q
  OBVIOUS
<1> QED
  BY <1>13, <1>14

\* hash.c: words that are equal as numbers of their width.
LEMMA WordInjective ==
  ASSUME NEW w \in Nat, NEW x \in 0 .. Power[w] - 1, NEW y \in 0 .. Power[w] - 1, Word(w, x) = Word(w, y)
  PROVE  x = y
<1>1. PICK P \in Nat \ {0} : P = Power[w]
  BY Powers
<1>2. x \in Nat /\ y \in Nat
  BY <1>1
<1>3. PICK q \in Int : x - y = P * q
  BY <1>1, <1>2, SameWord
<1> QED
  BY <1>1, <1>3, SmallMultiple

-----------------------------------------------------------------------------
(* bit.c: single bits, rotations, bytes.                                   *)

LEMMA SingleBit ==
  ASSUME NEW w \in Nat, NEW v \in SUBSET Pos(w), NEW pos \in Pos(w)
  PROVE  /\ Value(w, bit_set(v, pos)) - Value(w, bit_clear(v, pos)) = Power[pos]
         /\ bit_test(bit_toggle(v, pos), pos) # bit_test(v, pos)
<1>1. PICK a, b : a = bit_set(v, pos) /\ b = bit_clear(v, pos)
  OBVIOUS
<1>2. \A p \in Pos(w) : IF p = pos THEN p \in a /\ p \notin b ELSE p \in a <=> p \in b
  BY <1>1 DEF bit_set, bit_clear
<1>3. PICK S : S = { n \in 0 .. w : Value(n, a) - Value(n, b) = IF pos < n THEN Power[pos] ELSE 0 }
  OBVIOUS
<1>4. 0 \in S
  <2>1. Value(0, a) = 0 /\ Value(0, b) = 0 /\ ~ (pos < 0)
    BY Values DEF Pos
  <2> QED
    BY <1>3, <2>1
<1>5. \A n \in 0 .. w - 1 : n \in S => n + 1 \in S
  <2>1. SUFFICES ASSUME NEW n \in 0 .. w - 1, n \in S
                 PROVE  Value(n + 1, a) - Value(n + 1, b) = IF pos < n + 1 THEN Power[pos] ELSE 0
    BY <1>3
  <2>2. n \in Nat /\ pos \in Nat /\ n \in Pos(w)
    BY DEF Pos
  <2>3. PICK P \in Nat, Q \in Nat : P = Power[n] /\ Q = Power[pos]
    BY <2>2, Powers
  <2>4. PICK x \in Nat, y \in Nat : x = Value(n, a) /\ y = Value(n, b)
    BY <2>2, Values
  <2>5. Value(n + 1, a) = x + (IF n \in a THEN P ELSE 0)
    BY <2>2, <2>3, <2>4, Values
  <2>6. Value(n + 1, b) = y + (IF n \in b THEN P ELSE 0)
    BY <2>2, <2>3, <2>4, Values
  <2>7. x - y = IF pos < n THEN Q ELSE 0
    BY <1>3, <2>1, <2>3, <2>4
  <2>8. CASE n = pos
    <3>1. n \in a /\ n \notin b /\ P = Q /\ ~ (pos < n) /\ pos < n + 1
      BY <1>2, <2>2, <2>3, <2>8
    <3> QED
      BY <2>3, <2>5, <2>6, <2>7, <3>1
  <2>9. CASE n # pos
    <3>1. (n \in a <=> n \in b) /\ (pos < n <=> pos < n + 1)
      BY <1>2, <2>2, <2>9
    <3> QED
      BY <2>3, <2>5, <2>6, <2>7, <3>1
  <2> QED
    BY <2>8, <2>9
<1>6. \A n \in 0 .. w : n \in S
  BY <1>4, <1>5, UpTo_Induction
<1>7. w \in S /\ pos < w
  BY <1>6 DEF Pos
<1>8. bit_test(bit_toggle(v, pos), pos) # bit_test(v, pos)
  BY DEF bit_test, bit_toggle, xor
<1> QED
  BY <1>1, <1>3, <1>7, <1>8

LEMMA Shifted ==
  ASSUME NEW w \in Nat, NEW v \in SUBSET Pos(w), NEW n \in Int
  PROVE  /\ shl(w, v, n) \in SUBSET Pos(w) /\ shr(w, v, n) \in SUBSET Pos(w)
         /\ \A q \in Pos(w) : /\ q \in shl(w, v, n) <=> q - n \in v
                              /\ q \in shr(w, v, n) <=> q + n \in v
<1>1. \A p \in v : p \in Int
  BY DEF Pos
<1>2. \A q \in Pos(w) : q \in Int
  BY DEF Pos
<1>3. ASSUME NEW q \in Pos(w) PROVE q \in shl(w, v, n) <=> q - n \in v
  <2>1. q - n \in v => q \in shl(w, v, n)
    <3>1. (q - n) + n = q
      BY <1>2
    <3> QED
      BY <3>1 DEF shl
  <2>2. q \in shl(w, v, n) => q - n \in v
    <3>1. SUFFICES ASSUME NEW p \in v, q = p + n PROVE q - n \in v
      BY DEF shl
    <3>2. q - n = p
      BY <1>1, <3>1
    <3> QED
      BY <3>2
  <2> QED
    BY <2>1, <2>2
<1>4. ASSUME NEW q \in Pos(w) PROVE q \in shr(w, v, n) <=> q + n \in v
  <2>1. q + n \in v => q \in shr(w, v, n)
    <3>1. (q + n) - n = q
      BY <1>2
    <3> QED
      BY <3>1 DEF shr
  <2>2. q \in shr(w, v, n) => q + n \in v
    <3>1. SUFFICES ASSUME NEW p \in v, q = p - n PROVE q + n \in v
      BY DEF shr
    <3>2. q + n = p
      BY <1>1, <3>1
    <3> QED
      BY <3>2
  <2> QED
    BY <2>1, <2>2
<1>5. shl(w, v, n) \in SUBSET Pos(w) /\ shr(w, v, n) \in SUBSET Pos(w)
  BY DEF shl, shr
<1> QED
  BY <1>3, <1>4, <1>5

\* A rotation to the left takes position p - n, seen round the end, to p.
LEMMA Rotated ==
  ASSUME NEW w \in Nat, NEW v \in SUBSET Pos(w), NEW n \in 0 .. w - 1
  PROVE  /\ rotl(w, v, n) \in SUBSET Pos(w)
         /\ \A q \in Pos(w) : /\ q \in rotl(w, v, n) <=> (IF q < n THEN q + w - n ELSE q - n) \in v
                              /\ q \in rotr(w, v, n) <=> (IF q + n < w THEN q + n ELSE q + n - w) \in v
<1>1. \A p \in v : p \in Int /\ 0 <= p /\ p < w
  BY DEF Pos
<1>2. CASE n = 0
  <2>1. rotl(w, v, n) = v /\ rotr(w, v, n) = v
    BY <1>2 DEF rotl, rotr
  <2>2. \A q \in Pos(w) : /\ (IF q < n THEN q + w - n ELSE q - n) = q
                          /\ (IF q + n < w THEN q + n ELSE q + n - w) = q
    BY <1>2 DEF Pos
  <2> QED
    BY <2>1, <2>2
<1>3. CASE n # 0
  <2>1. rotl(w, v, n) = shl(w, v, n) \union shr(w, v, w - n) /\ w - n \in Int
    BY <1>3 DEF rotl
  <2>2. rotr(w, v, n) = shr(w, v, n) \union shl(w, v, w - n)
    BY <1>3 DEF rotr
  <2>3. ASSUME NEW q \in Pos(w)
        PROVE  q \in rotl(w, v, n) <=> (IF q < n THEN q + w - n ELSE q - n) \in v
    <3>1. q \in rotl(w, v, n) <=> q - n \in v \/ q + (w - n) \in v
      <4>1. q \in shl(w, v, n) <=> q - n \in v
        BY Shifted
      <4>2. q \in shr(w, v, w - n) <=> q + (w - n) \in v
        BY <2>1, Shifted
      <4> QED
        BY <2>1, <4>1, <4>2
    <3>2. q \in Int /\ q + (w - n) = q + w - n /\ 0 <= q
      BY DEF Pos
    <3>3. CASE q < n
      <4>1. q - n \notin v
        BY <1>1, <3>2, <3>3
      <4> QED
        BY <3>1, <3>2, <3>3, <4>1
    <3>4. CASE ~ (q < n)
      <4>1. q + (w - n) \notin v
        BY <1>1, <3>2, <3>4
      <4> QED
        BY <3>1, <3>4, <4>1
    <3> QED
      BY <3>3, <3>4
  <2>4. ASSUME NEW q \in Pos(w)
        PROVE  q \in rotr(w, v, n) <=> (IF q + n < w THEN q + n ELSE q + n - w) \in v
    <3>1. q \in rotr(w, v, n) <=> q + n \in v \/ q - (w - n) \in v
      <4>1. q \in shr(w, v, n) <=> q + n \in v
        <5>1. PICK m \in Int : m = n
          OBVIOUS
        <5>2. q \in shr(w, v, m) <=> q + m \in v
          BY Shifted
        <5> QED
          BY <5>1, <5>2
      <4>2. q \in shl(w, v, w - n) <=> q - (w - n) \in v
        BY <2>1, Shifted
      <4> QED
        BY <2>2, <4>1, <4>2
    <3>2. q \in Int /\ q - (w - n) = q + n - w /\ 0 <= q
      BY DEF Pos
    <3>3. CASE q + n < w
      <4>1. q - (w - n) \notin v
        BY <1>1, <3>2, <3>3
      <4> QED
        BY <3>1, <3>3, <4>1
    <3>4. CASE ~ (q + n < w)
      <4>1. q + n \notin v
        BY <1>1, <3>2, <3>4
      <4> QED
        BY <3>1, <3>2, <3>4, <4>1
    <3> QED
      BY <3>3, <3>4
  <2>5. rotl(w, v, n) \in SUBSET Pos(w)
    BY <2>1 DEF shl, shr
  <2> QED
    BY <2>3, <2>4, <2>5
<1> QED
  BY <1>2, <1>3

LEMMA RotationsExact ==
  ASSUME NEW w \in Nat, NEW v \in SUBSET Pos(w), NEW n \in 0 .. w - 1
  PROVE  /\ rotr(w, rotl(w, v, n), n) = v
         /\ \A p \in Pos(w) : bit_test(v, p) = bit_test(rotl(w, v, n), (p + n) % w)
<1>1. PICK u \in SUBSET Pos(w) : u = rotl(w, v, n)
  BY Rotated
<1>2. \A q \in Pos(w) : q \in u <=> (IF q < n THEN q + w - n ELSE q - n) \in v
  BY <1>1, Rotated
<1>3. ASSUME NEW p \in Pos(w)
      PROVE  /\ (IF p + n < w THEN p + n ELSE p + n - w) \in Pos(w)
             /\ p \in v <=> (IF p + n < w THEN p + n ELSE p + n - w) \in u
  <2>1. PICK q \in Int : q = IF p + n < w THEN p + n ELSE p + n - w
    BY DEF Pos
  <2>2. q \in Pos(w) /\ (IF q < n THEN q + w - n ELSE q - n) = p
    BY <2>1 DEF Pos
  <2> QED
    BY <1>2, <2>1, <2>2
<1>4. \A p \in Pos(w) : p \in rotr(w, u, n) <=> (IF p + n < w THEN p + n ELSE p + n - w) \in u
  BY Rotated
<1>5. rotr(w, u, n) = v
  <2>1. rotr(w, u, n) \in SUBSET Pos(w)
    BY DEF rotr, shl, shr
  <2>2. \A p \in Pos(w) : p \in rotr(w, u, n) <=> p \in v
    BY <1>3, <1>4
  <2> QED
    BY <2>1, <2>2
<1>6. ASSUME NEW p \in Pos(w) PROVE (p + n) % w = IF p + n < w THEN p + n ELSE p + n - w
  <2>1. p \in Int /\ 0 <= p /\ p < w /\ w \in Nat \ {0} /\ p + n \in Int
    BY DEF Pos
  <2>2. CASE p + n < w
    <3>1. p + n \in 0 .. w - 1 /\ p + n = w * 0 + (p + n)
      BY <2>1, <2>2
    <3>2. PICK x \in 0 .. w - 1 : x = p + n /\ x = w * 0 + x
      BY <3>1
    <3>3. x % w = x
      BY <2>1, <3>2, ModUnique
    <3> QED
      BY <2>2, <3>2, <3>3
  <2>3. CASE ~ (p + n < w)
    <3>1. PICK x \in 0 .. w - 1 : x = p + n - w
      BY <2>1, <2>3
    <3>2. p + n = w * 1 + x
      BY <2>1, <3>1
    <3>3. (p + n) % w = x
      BY <2>1, <3>2, ModUnique
    <3> QED
      BY <2>3, <3>1, <3>3
  <2> QED
    BY <2>2, <2>3
<1>7. ASSUME NEW p \in Pos(w) PROVE bit_test(v, p) = bit_test(u, (p + n) % w)
  <2>1. p \in v <=> (p + n) % w \in u
    BY <1>3, <1>6
  <2> QED
    BY <2>1 DEF bit_test
<1> QED
  BY <1>1, <1>5, <1>7

LEMMA BytesExact ==
  ASSUME NEW w \in Nat, NEW v \in SUBSET Pos(w), NEW b \in Nat \ {0}, w % b = 0, NEW p \in Pos(w)
  PROVE  bit_test(bswap(w, b, v), p)
           = bit_test(v, ((w \div b) - 1 - (p \div b)) * b + (p % b))
<1>1. PICK m \in Int : m = w \div b /\ w = b * m
  <2>1. w \div b \in Int /\ w = b * (w \div b) + (w % b)
    BY DivMod
  <2>2. PICK m \in Int : m = w \div b
    BY <2>1
  <2> QED
    BY <2>1, <2>2
<1>2. PICK k \in Int, r \in 0 .. b - 1 : k = p \div b /\ r = p % b /\ p = b * k + r
  <2>1. p \in Int
    BY DEF Pos
  <2>2. p % b \in 0 .. b - 1 /\ p \div b \in Int /\ p = b * (p \div b) + (p % b)
    BY <2>1, DivMod
  <2> QED
    BY <2>2
<1>3. k \in 0 .. m - 1
  <2>1. ~ (k <= -1)
    <3>1. SUFFICES ASSUME k <= -1 PROVE FALSE
      OBVIOUS
    <3>2. b * k <= -b
      BY <3>1
    <3> QED
      BY <1>2, <3>2 DEF Pos
  <2>2. ~ (k - m >= 0)
    <3>1. SUFFICES ASSUME k - m >= 0 PROVE FALSE
      OBVIOUS
    <3>2. PICK d \in Nat : d = k - m
      BY <3>1
    <3>3. b * (m + d) = b * m + b * d /\ b * d >= 0 /\ b * d \in Int
      BY <3>2
    <3>4. k = m + d
      BY <3>2
    <3> QED
      BY <1>1, <1>2, <3>3, <3>4 DEF Pos
  <2> QED
    BY <2>1, <2>2
<1> DEFINE last == (w \div b) - 1
           Byte(j) == (IF last > 2 * j THEN shr(w, v, (last - 2 * j) * b)
                       ELSE shl(w, v, (2 * j - last) * b)) \cap ByteMask(b, j)
<1>4. bswap(w, b, v) = UNION { Byte(j) : j \in 0 .. last }
  BY DEF bswap
<1>5. ASSUME NEW j \in 0 .. last, p \in ByteMask(b, j) PROVE j = k
  <2>1. PICK x \in Int : x = b * j /\ x = j * b
    OBVIOUS
  <2>2. PICK e \in 0 .. b - 1 : e = p - x
    BY <1>5, <2>1 DEF ByteMask
  <2>3. p \in Int /\ p = b * j + e
    BY <2>1, <2>2 DEF Pos
  <2>4. p \div b = j
    BY <2>3, QuotientUnique
  <2> QED
    BY <1>2, <2>4
<1>6. p \in ByteMask(b, k) /\ k \in 0 .. last
  <2>1. b * k = k * b /\ b * k \in Int
    OBVIOUS
  <2> QED
    BY <1>1, <1>2, <1>3, <2>1 DEF ByteMask
<1>7. PICK t \in Int : t = ((w \div b) - 1 - (p \div b)) * b + (p % b)
  BY <1>1, <1>2
<1>8. p \in Byte(k) <=> t \in v
  <2>1. PICK n \in Int : n = (m - 1) - 2 * k
    OBVIOUS
  <2>2. PICK d \in Int : d = n * b /\ -d = (-n) * b
    OBVIOUS
  <2>3. p + d = t
    <3>1. b * k + (n * b) = (n + k) * b
      OBVIOUS
    <3>2. n + k = m - 1 - k
      BY <2>1
    <3>3. t = (m - 1 - k) * b + r
      BY <1>1, <1>2, <1>7
    <3>4. PICK x \in Int, y \in Int : x = b * k /\ y = (m - 1 - k) * b
      OBVIOUS
    <3>5. x + d = y
      BY <2>2, <3>1, <3>2, <3>4
    <3>6. p = x + r /\ t = y + r
      BY <1>2, <3>3, <3>4
    <3> QED
      BY <3>4, <3>5, <3>6
  <2>4. CASE last > 2 * k
    <3>1. Byte(k) = shr(w, v, d) \cap ByteMask(b, k)
      BY <1>1, <2>1, <2>2, <2>4
    <3>2. p \in shr(w, v, d) <=> p + d \in v
      BY Shifted
    <3> QED
      BY <1>6, <2>3, <3>1, <3>2
  <2>5. CASE ~ (last > 2 * k)
    <3>1. PICK e \in Int : e = -d
      OBVIOUS
    <3>2. (2 * k - last) * b = e
      <4>1. 2 * k - last = -n
        BY <1>1, <2>1
      <4> QED
        BY <2>2, <3>1, <4>1
    <3>3. Byte(k) = shl(w, v, e) \cap ByteMask(b, k)
      BY <2>5, <3>2
    <3>4. p \in shl(w, v, e) <=> p - e \in v
      BY Shifted
    <3>5. p - e = t
      BY <2>3, <3>1 DEF Pos
    <3> QED
      BY <1>6, <3>3, <3>4, <3>5
  <2> QED
    BY <2>4, <2>5
<1>9. p \in bswap(w, b, v) <=> p \in Byte(k)
  <2>1. \A j \in 0 .. last : p \in Byte(j) => j = k
    BY <1>5
  <2> HIDE DEF Byte, last
  <2> QED
    BY <1>4, <1>6, <2>1
<1>10. p \in bswap(w, b, v) <=> t \in v
  BY <1>8, <1>9
<1> QED
  BY <1>7, <1>10 DEF bit_test

-----------------------------------------------------------------------------
(* bit.c: fields.                                                          *)

\* Positions at or above its own width add nothing to a number.
LEMMA ValueWider ==
  ASSUME NEW w \in Nat, NEW len \in 0 .. w, NEW v \in SUBSET Pos(len)
  PROVE  Value(w, v) = Value(len, v)
<1>1. PICK S : S = { n \in 0 .. w - len : Value(len + n, v) = Value(len, v) }
  OBVIOUS
<1>2. 0 \in S
  <2>1. len + 0 = len
    OBVIOUS
  <2> QED
    BY <1>1, <2>1
<1>3. \A n \in 0 .. (w - len) - 1 : n \in S => n + 1 \in S
  <2>1. SUFFICES ASSUME NEW n \in 0 .. (w - len) - 1, n \in S
                 PROVE  Value(len + (n + 1), v) = Value(len, v)
    BY <1>1
  <2>2. PICK k \in Nat : k = len + n /\ k + 1 = len + (n + 1) /\ k \notin v
    BY DEF Pos
  <2>3. Value(k + 1, v) = Value(k, v) + 0 /\ Value(k, v) \in Nat
    BY <2>2, Values
  <2>4. Value(k, v) = Value(len, v)
    BY <1>1, <2>1, <2>2
  <2> QED
    BY <2>2, <2>3, <2>4
<1>4. w - len \in Nat /\ len + (w - len) = w
  OBVIOUS
<1>5. \A n \in 0 .. w - len : n \in S
  BY <1>2, <1>3, <1>4, UpTo_Induction
<1>6. w - len \in S
  BY <1>4, <1>5
<1> QED
  BY <1>1, <1>4, <1>6

LEMMA MaskExact ==
  ASSUME NEW w \in Nat, NEW len \in 0 .. w
  PROVE  bit_mask(w, len) = Pos(len)
<1>1. PICK S : S = { n \in 0 .. len : Value(n, Pos(len)) = Power[n] - 1 }
  OBVIOUS
<1>2. 0 \in S
  <2>1. Value(0, Pos(len)) = 0 /\ Power[0] = 1
    BY Values, Powers
  <2> QED
    BY <1>1, <2>1
<1>3. \A n \in 0 .. len - 1 : n \in S => n + 1 \in S
  <2>1. SUFFICES ASSUME NEW n \in 0 .. len - 1, n \in S PROVE Value(n + 1, Pos(len)) = Power[n + 1] - 1
    BY <1>1
  <2>2. n \in Nat /\ n \in Pos(len)
    BY DEF Pos
  <2>3. PICK P \in Nat : P = Power[n] /\ 2 * P = Power[n + 1]
    BY <2>2, Powers
  <2>4. Value(n + 1, Pos(len)) = Value(n, Pos(len)) + P
    BY <2>2, <2>3, Values
  <2> QED
    BY <1>1, <2>1, <2>3, <2>4
<1>4. \A n \in 0 .. len : n \in S
  <2>1. len \in Nat
    OBVIOUS
  <2> QED
    BY <1>2, <1>3, <2>1, UpTo_Induction
<1>5. Value(len, Pos(len)) = Power[len] - 1
  BY <1>1, <1>4
<1>6. Pos(len) \in SUBSET Pos(w)
  BY DEF Pos
<1>7. Word(w, Power[len] - 1) = Pos(len)
  <2>1. Value(w, Pos(len)) = Value(len, Pos(len))
    BY ValueWider
  <2>2. Word(w, Value(w, Pos(len))) = Pos(len)
    BY <1>6, WordOfValue
  <2> QED
    BY <1>5, <2>1, <2>2
<1>8. len = 0 => Pos(len) = {}
  BY DEF Pos
<1> QED
  BY <1>7, <1>8 DEF bit_mask

\* A number is its lower n bits, and the others times a power of two.
LEMMA ValueSplit ==
  ASSUME NEW w \in Nat, NEW v \in SUBSET Pos(w), NEW pos \in 0 .. w
  PROVE  Value(w, v) = Value(pos, v) + Power[pos] * Value(w - pos, shr(w, v, pos))
<1>1. PICK u : u = shr(w, v, pos)
  OBVIOUS
<1>2. \A n \in Pos(w - pos) : n \in u <=> pos + n \in v
  <2>1. SUFFICES ASSUME NEW n \in Pos(w - pos) PROVE n \in u <=> pos + n \in v
    OBVIOUS
  <2>2. n \in Pos(w) /\ n + pos = pos + n /\ pos \in Int
    BY DEF Pos
  <2> QED
    BY <1>1, <2>2, Shifted
<1>3. PICK P \in Nat : P = Power[pos]
  BY Powers
<1>4. PICK S : S = { n \in 0 .. w - pos : Value(pos + n, v) = Value(pos, v) + P * Value(n, u) }
  OBVIOUS
<1>5. 0 \in S
  <2>1. Value(0, u) = 0 /\ P * 0 = 0
    BY Values
  <2>2. pos \in Nat /\ pos + 0 = pos
    OBVIOUS
  <2>3. Value(pos, v) \in Nat
    BY <2>2, Values
  <2> QED
    BY <1>4, <2>1, <2>2, <2>3
<1>6. \A n \in 0 .. (w - pos) - 1 : n \in S => n + 1 \in S
  <2>1. SUFFICES ASSUME NEW n \in 0 .. (w - pos) - 1, n \in S
                 PROVE  Value(pos + (n + 1), v) = Value(pos, v) + P * Value(n + 1, u)
    BY <1>4
  <2>2. PICK k \in Nat : k = pos + n /\ k + 1 = pos + (n + 1) /\ n \in Nat /\ pos \in Nat
    OBVIOUS
  <2>3. PICK Q \in Nat : Q = Power[n]
    BY <2>2, Powers
  <2>4. Power[k] = P * Q
    BY <1>3, <2>2, <2>3, PowerSum
  <2>5. PICK x \in Nat, y \in Nat : x = Value(pos, v) /\ y = Value(n, u)
    BY <2>2, Values
  <2>6. Value(k, v) = x + P * y
    BY <1>4, <2>1, <2>2, <2>5
  <2>7. n \in u <=> k \in v
    <3>1. n \in Pos(w - pos)
      BY DEF Pos
    <3> QED
      BY <1>2, <2>2, <3>1
  <2>8. Value(k + 1, v) = (x + P * y) + (IF k \in v THEN P * Q ELSE 0)
    <3>1. Value(k + 1, v) = Value(k, v) + (IF k \in v THEN Power[k] ELSE 0)
      BY Values
    <3> QED
      BY <2>4, <2>6, <3>1
  <2>9. Value(n + 1, u) = y + (IF n \in u THEN Q ELSE 0)
    BY <2>2, <2>3, <2>5, Values
  <2>10. P * (y + Q) = P * y + P * Q /\ P * y \in Nat /\ P * Q \in Nat
    OBVIOUS
  <2>11. CASE n \in u
    <3>1. Value(k + 1, v) = (x + P * y) + P * Q /\ Value(n + 1, u) = y + Q
      BY <2>7, <2>8, <2>9, <2>11
    <3>2. PICK c \in Nat, d \in Nat : c = P * y /\ d = P * Q
      BY <2>10
    <3>3. (x + c) + d = x + (c + d)
      OBVIOUS
    <3> QED
      BY <2>2, <2>5, <2>10, <3>1, <3>2, <3>3
  <2>12. CASE n \notin u
    <3>1. Value(k + 1, v) = (x + P * y) + 0 /\ Value(n + 1, u) = y + 0
      BY <2>7, <2>8, <2>9, <2>12
    <3>2. (x + P * y) + 0 = x + P * y /\ y + 0 = y
      BY <2>10
    <3> QED
      BY <2>2, <2>5, <3>1, <3>2
  <2> QED
    BY <2>11, <2>12
<1>7. w - pos \in Nat /\ pos + (w - pos) = w
  OBVIOUS
<1>8. \A n \in 0 .. w - pos : n \in S
  BY <1>5, <1>6, <1>7, UpTo_Induction
<1>9. w - pos \in S
  BY <1>7, <1>8
<1> QED
  BY <1>1, <1>3, <1>4, <1>7, <1>9

LEMMA FieldIsPart ==
  ASSUME NEW w \in Nat, NEW v \in SUBSET Pos(w), NEW pos \in 0 .. w - 1, NEW len \in 0 .. w - pos
  PROVE  /\ bit_extract(w, v, pos, len) \in SUBSET Pos(len)
         /\ \A q \in Pos(len) : q \in bit_extract(w, v, pos, len) <=> pos + q \in v
<1>1. CASE len = 0
  <2>1. Pos(len) = {} /\ bit_extract(w, v, pos, len) = {}
    BY <1>1 DEF Pos, bit_extract
  <2> QED
    BY <2>1
<1>2. CASE len # 0
  <2>1. bit_extract(w, v, pos, len) = shr(w, v, pos) \cap Pos(len)
    <3>1. len \in 0 .. w
      OBVIOUS
    <3> QED
      BY <1>2, <3>1, MaskExact DEF bit_extract
  <2>2. \A q \in Pos(len) : q \in shr(w, v, pos) <=> pos + q \in v
    <3>1. SUFFICES ASSUME NEW q \in Pos(len) PROVE q \in shr(w, v, pos) <=> pos + q \in v
      OBVIOUS
    <3>2. q \in Pos(w) /\ q + pos = pos + q /\ pos \in Int
      BY DEF Pos
    <3> QED
      BY <3>2, Shifted
  <2> QED
    BY <2>1, <2>2
<1> QED
  BY <1>1, <1>2

LEMMA FieldsExact ==
  ASSUME NEW w \in Nat, NEW v \in SUBSET Pos(w), NEW pos \in 0 .. w - 1, NEW len \in 0 .. w - pos
  PROVE  LET field == bit_extract(w, v, pos, len) IN
         /\ Value(w, field) = (Value(w, v) \div Power[pos]) % Power[len]
         /\ bit_deposit(w, v, pos, len, field) = v
         /\ bit_extract(w, bit_deposit(w, {}, pos, len, v), pos, len) = v \cap bit_mask(w, len)
<1>1. PICK field \in SUBSET Pos(len) : field = bit_extract(w, v, pos, len)
  BY FieldIsPart
<1>2. \A q \in Pos(len) : q \in field <=> pos + q \in v
  BY <1>1, FieldIsPart
<1>3. /\ len \in 0 .. w /\ pos \in 0 .. w /\ len \in Nat /\ pos \in Nat /\ pos \in Int
      /\ Pos(len) \in SUBSET Pos(w) /\ bit_mask(w, len) = Pos(len)
  <2>1. len \in 0 .. w
    OBVIOUS
  <2> QED
    BY <2>1, MaskExact DEF Pos
<1>4. Value(w, field) = (Value(w, v) \div Power[pos]) % Power[len]
  <2>1. PICK n, u : n \in Nat /\ n = w - pos /\ u = shr(w, v, pos) /\ n - len \in Nat
    OBVIOUS
  <2>2. u \in SUBSET Pos(n)
    <3>1. u \in SUBSET Pos(w) /\ \A p \in u : p + pos \in v
      BY <1>3, <2>1, Shifted
    <3>2. \A p \in Pos(w) : p + pos \in Pos(w) => p \in Pos(n)
      BY <2>1 DEF Pos
    <3> QED
      BY <3>1, <3>2
  <2>3. PICK P \in Nat \ {0}, L \in Nat \ {0} : P = Power[pos] /\ L = Power[len]
    BY <1>3, Powers
  <2>4. Value(w, v) = Value(pos, v) + P * Value(n, u)
    BY <1>3, <2>1, <2>3, ValueSplit
  <2>5. PICK a \in 0 .. P - 1, x \in Nat : a = Value(pos, v) /\ x = Value(n, u)
    <3>1. Value(pos, v) \in 0 .. P - 1
      BY <1>3, <2>3, ValueBounded
    <3>2. Value(n, u) \in Nat
      BY <2>1, Values
    <3> QED
      BY <3>1, <3>2
  <2>6. Value(w, v) \div P = x
    <3>1. PICK y \in Nat : y = Value(w, v)
      BY Values
    <3>2. y = P * x + a
      <4>1. P * x \in Int
        OBVIOUS
      <4> QED
        BY <2>4, <2>5, <3>1, <4>1
    <3>3. y \div P = x
      BY <3>2, QuotientUnique
    <3> QED
      BY <3>1, <3>3
  <2>7. len \in 0 .. n
    BY <2>1
  <2>8. PICK c \in 0 .. L - 1, z \in Nat : c = Value(len, u) /\ z = Value(n - len, shr(n, u, len))
    <3>1. Value(len, u) \in 0 .. L - 1
      BY <1>3, <2>3, ValueBounded
    <3>2. Value(n - len, shr(n, u, len)) \in Nat
      BY <2>1, Values
    <3> QED
      BY <3>1, <3>2
  <2>9. x = c + L * z
    BY <2>1, <2>2, <2>3, <2>5, <2>7, <2>8, ValueSplit
  <2>10. x = L * z + c
    <3>1. L * z \in Int
      OBVIOUS
    <3> QED
      BY <2>9, <3>1
  <2>11. x % L = c
    BY <2>10, ModUnique
  <2>12. Value(len, field) = c
    <3>1. \A q \in 0 .. len - 1 : q \in field <=> q \in u
      <4>1. SUFFICES ASSUME NEW q \in Pos(len) PROVE q \in field <=> q \in u
        BY DEF Pos
      <4>2. q \in Pos(w) /\ q + pos = pos + q
        BY <1>3 DEF Pos
      <4>3. q \in u <=> q + pos \in v
        BY <1>3, <2>1, <4>2, Shifted
      <4> QED
        BY <1>2, <4>2, <4>3
    <3> QED
      BY <1>3, <2>8, <3>1, ValueAgrees
  <2>13. Value(w, field) = Value(len, field)
    BY <1>3, ValueWider
  <2> QED
    BY <2>3, <2>6, <2>11, <2>12, <2>13
<1>5. bit_deposit(w, v, pos, len, field) = v
  <2>1. CASE len = 0
    BY <2>1 DEF bit_deposit
  <2>2. CASE len # 0
    <3>1. bit_deposit(w, v, pos, len, field) = (v \ shl(w, Pos(len), pos)) \union shl(w, field, pos)
      <4>1. field \cap Pos(len) = field
        OBVIOUS
      <4> QED
        BY <1>3, <2>2, <4>1 DEF bit_deposit
    <3>2. \A q \in Pos(w) : /\ q \in shl(w, Pos(len), pos) <=> q - pos \in Pos(len)
                            /\ q \in shl(w, field, pos) <=> q - pos \in field
      <4>1. field \in SUBSET Pos(w)
        BY <1>3
      <4> QED
        BY <1>3, <4>1, Shifted
    <3>3. \A q \in Pos(w) : q - pos \in Pos(len) => (q - pos \in field <=> q \in v)
      <4>1. SUFFICES ASSUME NEW q \in Pos(w), q - pos \in Pos(len) PROVE q - pos \in field <=> q \in v
        OBVIOUS
      <4>2. pos + (q - pos) = q
        BY DEF Pos
      <4> QED
        BY <1>2, <4>1, <4>2
    <3>4. shl(w, field, pos) \in SUBSET Pos(w)
      BY DEF shl
    <3> QED
      BY <3>1, <3>2, <3>3, <3>4
  <2> QED
    BY <2>1, <2>2
<1>6. bit_extract(w, bit_deposit(w, {}, pos, len, v), pos, len) = v \cap bit_mask(w, len)
  <2>1. CASE len = 0
    <3>1. Pos(len) = {}
      BY <2>1 DEF Pos
    <3> QED
      BY <1>3, <2>1, <3>1 DEF bit_extract
  <2>2. CASE len # 0
    <3>1. PICK x : x = bit_deposit(w, {}, pos, len, v)
      OBVIOUS
    <3>2. x = shl(w, v \cap Pos(len), pos)
      BY <1>3, <2>2, <3>1 DEF bit_deposit
    <3>3. x \in SUBSET Pos(w)
      BY <3>2 DEF shl
    <3>4. ASSUME NEW q \in Pos(len) PROVE q \in bit_extract(w, x, pos, len) <=> q \in v
      <4>1. q \in bit_extract(w, x, pos, len) <=> pos + q \in x
        BY <3>3, FieldIsPart
      <4>2. pos + q \in Pos(w) /\ (pos + q) - pos = q
        BY <1>3 DEF Pos
      <4>3. pos + q \in x <=> (pos + q) - pos \in v \cap Pos(len)
        <5>1. v \cap Pos(len) \in SUBSET Pos(w)
          OBVIOUS
        <5> QED
          BY <1>3, <3>2, <4>2, <5>1, Shifted
      <4> QED
        BY <4>1, <4>2, <4>3
    <3>5. bit_extract(w, x, pos, len) \in SUBSET Pos(len)
      BY <3>3, FieldIsPart
    <3> QED
      BY <1>3, <3>1, <3>4, <3>5
  <2> QED
    BY <2>1, <2>2
<1> QED
  BY <1>1, <1>4, <1>5, <1>6

-----------------------------------------------------------------------------
(* bit.c: the reversal.                                                    *)

\* Neighbours of h bits each, swapped: position p holds what was h above it,
\* or below.
Partner(h, p) == IF (p \div h) % 2 = 1 THEN p - h ELSE p + h

LEMMA SwapsPartners ==
  ASSUME NEW w \in Nat, NEW h \in Nat \ {0}, NEW g \in Nat, w = (2 * h) * g,
         NEW v \in SUBSET Pos(w), NEW p \in Pos(w)
  PROVE  /\ Partner(h, p) \in Pos(w)
         /\ p \in Swapped(w, v, h) <=> Partner(h, p) \in v
<1>1. PICK q \in Int, r \in 0 .. h - 1 : q = p \div h /\ p = h * q + r
  <2>1. p \in Int
    BY DEF Pos
  <2> QED
    BY <2>1, DivMod
<1>2. PICK m \in Int, e \in {0, 1} : q = 2 * m + e /\ e = q % 2
  <2>1. q % 2 \in 0 .. 2 - 1 /\ q \div 2 \in Int /\ q = 2 * (q \div 2) + (q % 2)
    BY DivMod
  <2> QED
    BY <2>1
<1>3. PICK t \in Int : t = Partner(h, p) /\ t = IF e = 1 THEN p - h ELSE p + h
  <2>1. p \in Int
    BY DEF Pos
  <2>2. (p \div h) % 2 = e
    BY <1>1, <1>2
  <2>3. Partner(h, p) = IF e = 1 THEN p - h ELSE p + h
    BY <2>2 DEF Partner
  <2>4. (IF e = 1 THEN p - h ELSE p + h) \in Int
    BY <2>1
  <2> QED
    BY <2>3, <2>4
<1>4. t \div h = (IF e = 1 THEN q - 1 ELSE q + 1) /\ (t \div h) % 2 = 1 - e
  <2>1. PICK d \in Int : d = IF e = 1 THEN q - 1 ELSE q + 1
    OBVIOUS
  <2>2. t = h * d + r
    <3>1. h * (q - 1) = h * q - h /\ h * (q + 1) = h * q + h
      OBVIOUS
    <3>2. PICK x \in Int : x = h * q /\ p = x + r
      BY <1>1
    <3>3. CASE e = 1
      <4>1. t = x + r - h /\ h * d = x - h
        BY <1>3, <2>1, <3>1, <3>2, <3>3
      <4> QED
        BY <4>1
    <3>4. CASE e = 0
      <4>1. t = x + r + h /\ h * d = x + h
        BY <1>3, <2>1, <3>1, <3>2, <3>4
      <4> QED
        BY <4>1
    <3> QED
      BY <3>3, <3>4
  <2>3. t \div h = d
    BY <2>2, QuotientUnique
  <2>4. d % 2 = 1 - e
    BY <1>2, <2>1
  <2> QED
    BY <2>1, <2>3, <2>4
<1>5. t \in Pos(w)
  <2>1. PICK c \in Int : c = (2 * h) * m /\ h * q = c + h * e
    <3>1. h * (2 * m + e) = (2 * h) * m + h * e
      OBVIOUS
    <3> QED
      BY <1>2, <3>1
  <2>2. p = c + h * e + r /\ t = c + h * (1 - e) + r
    <3>1. p = c + h * e + r
      BY <1>1, <2>1
    <3>2. CASE e = 1
      <4>1. h * e = h /\ h * (1 - e) = 0
        BY <3>2
      <4>2. t = p - h
        BY <1>3, <3>2
      <4> QED
        BY <3>1, <4>1, <4>2
    <3>3. CASE e = 0
      <4>1. h * e = 0 /\ h * (1 - e) = h
        BY <3>3
      <4>2. t = p + h
        BY <1>3, <3>3
      <4> QED
        BY <3>1, <4>1, <4>2
    <3> QED
      BY <3>2, <3>3
  <2>3. m \in 0 .. g - 1
    <3>1. h * e \in 0 .. h /\ h * e + r \in 0 .. 2 * h - 1
      BY <1>2
    <3>2. ~ (m <= -1)
      <4>1. SUFFICES ASSUME m <= -1 PROVE FALSE
        OBVIOUS
      <4>2. (2 * h) * m <= -(2 * h)
        BY <4>1
      <4> QED
        BY <2>1, <2>2, <3>1, <4>2 DEF Pos
    <3>3. ~ (m - g >= 0)
      <4>1. SUFFICES ASSUME m - g >= 0 PROVE FALSE
        OBVIOUS
      <4>2. PICK d \in Nat : d = m - g
        BY <4>1
      <4>3. (2 * h) * (g + d) = (2 * h) * g + (2 * h) * d /\ (2 * h) * d >= 0 /\ (2 * h) * d \in Int
        BY <4>2
      <4>4. m = g + d
        BY <4>2
      <4>5. c >= w
        BY <2>1, <4>3, <4>4
      <4> QED
        BY <2>2, <3>1, <4>5 DEF Pos
    <3> QED
      BY <3>2, <3>3
  <2>4. 0 <= c /\ c + 2 * h <= w
    <3>1. PICK d \in Nat : g = m + 1 + d
      <4>1. g - 1 - m \in Nat /\ g = m + 1 + (g - 1 - m)
        BY <2>3
      <4> QED
        BY <4>1
    <3>2. (2 * h) * (m + 1 + d) = (2 * h) * m + 2 * h + (2 * h) * d
      OBVIOUS
    <3>3. (2 * h) * d >= 0 /\ (2 * h) * m >= 0 /\ (2 * h) * d \in Int
      BY <2>3
    <3>4. w = c + 2 * h + (2 * h) * d
      BY <2>1, <3>1, <3>2
    <3> QED
      BY <2>1, <3>3, <3>4
  <2>5. t >= c /\ t < c + 2 * h
    BY <1>2, <2>2
  <2> QED
    BY <2>4, <2>5 DEF Pos
<1>6. p \in Swapped(w, v, h) <=> t \in v
  <2>1. PICK upper : upper = { i \in Pos(w) : (i \div h) % 2 = 1 }
    OBVIOUS
  <2>2. Swapped(w, v, h) = shr(w, v \cap upper, h) \union shl(w, v \ upper, h)
    BY <2>1 DEF Swapped
  <2>3. p \in shr(w, v \cap upper, h) <=> p + h \in v \cap upper
    <3>1. v \cap upper \in SUBSET Pos(w) /\ h \in Int
      OBVIOUS
    <3> QED
      BY <3>1, Shifted
  <2>4. p \in shl(w, v \ upper, h) <=> p - h \in v \ upper
    <3>1. v \ upper \in SUBSET Pos(w) /\ h \in Int
      OBVIOUS
    <3> QED
      BY <3>1, Shifted
  <2>5. p \in Int /\ p = h * q + r
    BY <1>1 DEF Pos
  <2>6. CASE e = 0
    <3>1. t = p + h /\ (t \div h) % 2 = 1
      BY <1>3, <1>4, <2>6
    <3>2. t \in upper
      BY <1>5, <2>1, <3>1
    <3>3. p - h \in Pos(w) => p - h \in upper
      <4>1. PICK d \in Int : d = q - 1
        OBVIOUS
      <4>2. p - h = h * d + r
        <5>1. h * (q - 1) = h * q - h
          OBVIOUS
        <5>2. PICK x \in Int : x = h * q
          OBVIOUS
        <5> QED
          BY <2>5, <4>1, <5>1, <5>2
      <4>3. (p - h) \div h = d
        <5>1. p - h \in Int
          BY <2>5
        <5> QED
          BY <4>2, <5>1, QuotientUnique
      <4>4. d % 2 = 1
        BY <1>2, <2>6, <4>1
      <4> QED
        BY <2>1, <4>3, <4>4
    <3> QED
      BY <2>2, <2>3, <2>4, <3>1, <3>2, <3>3
  <2>7. CASE e = 1
    <3>1. t = p - h /\ (t \div h) % 2 = 0
      BY <1>3, <1>4, <2>7
    <3>2. t \notin upper
      BY <2>1, <3>1
    <3>3. p + h \notin upper
      <4>1. PICK d \in Int : d = q + 1
        OBVIOUS
      <4>2. p + h = h * d + r
        <5>1. h * (q + 1) = h * q + h
          OBVIOUS
        <5>2. PICK x \in Int : x = h * q
          OBVIOUS
        <5> QED
          BY <2>5, <4>1, <5>1, <5>2
      <4>3. (p + h) \div h = d
        <5>1. p + h \in Int
          BY <2>5
        <5> QED
          BY <4>2, <5>1, QuotientUnique
      <4>4. d % 2 = 0
        BY <1>2, <2>7, <4>1
      <4> QED
        BY <2>1, <4>3, <4>4
    <3> QED
      BY <2>2, <2>3, <2>4, <3>1, <3>2, <3>3
  <2> QED
    BY <2>6, <2>7
<1> QED
  BY <1>3, <1>5, <1>6

\* Where position p comes from when blocks of h bits have been put in the
\* opposite order.
Opposite(w, h, p) == (w - h) - p + 2 * (p % h)

LEMMA OppositeOfPartner ==
  ASSUME NEW w \in Nat, NEW h \in Nat \ {0}, NEW p \in Pos(w)
  PROVE  Opposite(w, 2 * h, Partner(h, p)) = Opposite(w, h, p)
<1>1. PICK q \in Int, r \in 0 .. h - 1 : q = p \div h /\ p = h * q + r /\ r = p % h
  <2>1. p \in Int
    BY DEF Pos
  <2> QED
    BY <2>1, DivMod
<1>2. PICK m \in Int, e \in {0, 1} : q = 2 * m + e /\ e = q % 2
  <2>1. q % 2 \in 0 .. 2 - 1 /\ q \div 2 \in Int /\ q = 2 * (q \div 2) + (q % 2)
    BY DivMod
  <2> QED
    BY <2>1
<1>3. (p \div h) % 2 = e
  BY <1>1, <1>2
<1>4. PICK H \in Nat \ {0} : H = 2 * h
  OBVIOUS
<1>5. PICK c \in Int : c = H * m /\ p = c + h * e + r
  <2>1. h * (2 * m + e) = (2 * h) * m + h * e
    OBVIOUS
  <2>2. PICK c \in Int : c = H * m
    OBVIOUS
  <2>3. h * q = c + h * e
    BY <1>2, <1>4, <2>1, <2>2
  <2> QED
    BY <1>1, <2>2, <2>3
<1>6. CASE e = 1
  <2>1. p = c + h + r /\ Partner(h, p) = c + r
    BY <1>3, <1>5, <1>6 DEF Partner
  <2>2. PICK t \in Int : t = c + r
    OBVIOUS
  <2>3. r \in 0 .. H - 1 /\ t = H * m + r
    BY <1>4, <1>5, <2>2
  <2>4. t % H = r
    BY <2>3, ModUnique
  <2>5. Opposite(w, 2 * h, Partner(h, p)) = (w - H) - t + 2 * r
    BY <1>4, <2>1, <2>2, <2>4 DEF Opposite
  <2>6. Opposite(w, h, p) = (w - h) - p + 2 * r
    BY <1>1 DEF Opposite
  <2>7. p = t + h
    BY <2>1, <2>2
  <2> QED
    BY <1>4, <2>5, <2>6, <2>7
<1>7. CASE e = 0
  <2>1. p = c + r /\ Partner(h, p) = c + r + h
    BY <1>3, <1>5, <1>7 DEF Partner
  <2>2. PICK t \in Int, d \in Int : t = c + d /\ d = r + h
    OBVIOUS
  <2>3. d \in 0 .. H - 1 /\ t = H * m + d
    BY <1>4, <1>5, <2>2
  <2>4. t % H = d
    BY <2>3, ModUnique
  <2>5. t = Partner(h, p)
    BY <2>1, <2>2
  <2>6. Opposite(w, 2 * h, Partner(h, p)) = (w - H) - t + 2 * d
    BY <1>4, <2>4, <2>5 DEF Opposite
  <2>7. Opposite(w, h, p) = (w - h) - p + 2 * r
    BY <1>1 DEF Opposite
  <2>8. t = p + h /\ d = r + h
    BY <2>1, <2>2
  <2> QED
    BY <1>4, <2>6, <2>7, <2>8 DEF Pos
<1> QED
  BY <1>6, <1>7

LEMMA ReversesExactly ==
  ASSUME NEW w \in Nat, NEW k \in 0 .. w, w = Power[k], NEW v \in SUBSET Pos(w), NEW p \in Pos(w)
  PROVE  bit_test(bit_reverse(w, v), p) = bit_test(v, w - 1 - p)
<1>1. PICK R \in 0 .. w : R = (CHOOSE i \in 0 .. w : Power[i] = w) /\ Power[R] = w
  OBVIOUS
<1>2. PICK F, A : /\ F = [n \in 0 .. R - 1 |-> [a \in SUBSET Pos(w) |-> Swapped(w, a, Power[R - (n + 1)])]]
                  /\ A = [n \in 0 .. R |-> SUBSET Pos(w)]
  OBVIOUS
<1>3. \A a \in SUBSET Pos(w) : \A h : Swapped(w, a, h) \in SUBSET Pos(w)
  BY DEF Swapped, shl, shr
<1>4. R \in Nat /\ v \in A[0] /\ Leads(F, R, A)
  <2>1. ASSUME NEW n \in 0 .. R - 1, NEW a \in A[n] PROVE F[n][a] \in A[n + 1]
    <3>1. n \in 0 .. R /\ n + 1 \in 0 .. R
      OBVIOUS
    <3>2. a \in SUBSET Pos(w) /\ A[n + 1] = SUBSET Pos(w)
      BY <1>2, <2>1, <3>1
    <3>3. F[n][a] = Swapped(w, a, Power[R - (n + 1)])
      BY <1>2, <3>2
    <3> QED
      BY <1>3, <3>2, <3>3
  <2>2. \A n \in 0 .. R - 1 : \A a \in A[n] : F[n][a] \in A[n + 1]
    BY <2>1
  <2>3. R \in Nat /\ 0 \in 0 .. R /\ A[0] = SUBSET Pos(w)
    BY <1>2
  <2> QED
    BY <2>2, <2>3 DEF Leads
<1>5. PICK f : Runs(f, R, v, F) /\ \A n \in 0 .. R : f[n] \in A[n]
  BY <1>4, LoopExists
<1>6. f = [n \in 0 .. R |-> IF n = 0 THEN v ELSE Swapped(w, f[n - 1], Power[R - n])]
  <2>1. f = [n \in 0 .. R |-> IF n = 0 THEN v ELSE F[n - 1][f[n - 1]]]
    BY <1>5 DEF Runs
  <2>2. ASSUME NEW n \in 0 .. R, n # 0 PROVE F[n - 1][f[n - 1]] = Swapped(w, f[n - 1], Power[R - n])
    <3>1. n - 1 \in 0 .. R - 1 /\ n - 1 \in 0 .. R /\ (n - 1) + 1 = n
      BY <2>2
    <3>2. f[n - 1] \in SUBSET Pos(w)
      BY <1>2, <1>5, <3>1
    <3> QED
      BY <1>2, <3>1, <3>2
  <2>3. \A n \in 0 .. R : f[n] = IF n = 0 THEN v ELSE Swapped(w, f[n - 1], Power[R - n])
    BY <2>1, <2>2
  <2>4. f = [n \in 0 .. R |-> f[n]]
    BY <2>1
  <2> QED
    BY <2>3, <2>4
<1>7. PICK g : g = CHOOSE rev : rev = [n \in 0 .. R |-> IF n = 0 THEN v ELSE Swapped(w, rev[n - 1], Power[R - n])]
  OBVIOUS
<1>8. g = [n \in 0 .. R |-> IF n = 0 THEN v ELSE Swapped(w, g[n - 1], Power[R - n])]
  BY <1>6, <1>7
<1>9. bit_reverse(w, v) = g[R]
  BY <1>1, <1>7 DEF bit_reverse
<1>10. PICK B : B = [n \in 0 .. R |-> { u \in SUBSET Pos(w) :
                       \A q \in Pos(w) : q \in u <=> Opposite(w, Power[R - n], q) \in v }]
  OBVIOUS
<1>11. g[0] \in B[0]
  <2>1. 0 \in 0 .. R /\ g[0] = v /\ R - 0 = R
    BY <1>1, <1>8
  <2>2. ASSUME NEW q \in Pos(w) PROVE Opposite(w, w, q) = q
    <3>1. q \in 0 .. w - 1 /\ q \in Int /\ w \in Nat \ {0} /\ q = w * 0 + q
      BY DEF Pos
    <3>2. q % w = q
      BY <3>1, ModUnique
    <3> QED
      BY <3>1, <3>2 DEF Opposite
  <2>3. \A q \in Pos(w) : q \in v <=> Opposite(w, Power[R - 0], q) \in v
    <3>1. Power[R - 0] = w
      BY <1>1, <2>1
    <3> QED
      BY <2>2, <3>1
  <2> QED
    BY <1>10, <2>1, <2>3
<1>12. \A n \in 0 .. R - 1 : g[n] \in B[n] => g[n + 1] \in B[n + 1]
  <2>1. SUFFICES ASSUME NEW n \in 0 .. R - 1, g[n] \in B[n] PROVE g[n + 1] \in B[n + 1]
    OBVIOUS
  <2>2. n \in 0 .. R /\ n + 1 \in 0 .. R /\ n + 1 # 0 /\ (n + 1) - 1 = n /\ R - (n + 1) \in Nat /\ n \in Nat
    OBVIOUS
  <2>3. PICK h \in Nat \ {0} : h = Power[R - (n + 1)]
    BY <2>2, Powers
  <2>4. Power[R - n] = 2 * h
    <3>1. PICK i \in Nat : i = R - (n + 1) /\ i + 1 = R - n
      BY <2>2
    <3>2. Power[i + 1] = 2 * Power[i]
      BY Powers
    <3> QED
      BY <2>3, <3>1, <3>2
  <2>5. PICK u \in SUBSET Pos(w) : u = g[n] /\ \A q \in Pos(w) : q \in u <=> Opposite(w, 2 * h, q) \in v
    BY <1>10, <2>1, <2>2, <2>4
  <2>6. g[n + 1] = Swapped(w, u, h)
    BY <1>8, <2>2, <2>3, <2>5
  <2>7. PICK c \in Nat : w = (2 * h) * c
    <3>1. PICK i \in Nat : i = R - n /\ i + n = R
      OBVIOUS
    <3>2. PICK c \in Nat : c = Power[n]
      BY <2>2, Powers
    <3>3. Power[i + n] = Power[i] * Power[n]
      BY <2>2, PowerSum
    <3> QED
      BY <1>1, <2>4, <3>1, <3>2, <3>3
  <2>8. ASSUME NEW q \in Pos(w) PROVE q \in g[n + 1] <=> Opposite(w, h, q) \in v
    <3>1. Partner(h, q) \in Pos(w) /\ (q \in Swapped(w, u, h) <=> Partner(h, q) \in u)
      BY <2>7, SwapsPartners
    <3>2. Partner(h, q) \in u <=> Opposite(w, 2 * h, Partner(h, q)) \in v
      BY <2>5, <3>1
    <3>3. Opposite(w, 2 * h, Partner(h, q)) = Opposite(w, h, q)
      BY OppositeOfPartner
    <3> QED
      BY <2>6, <3>1, <3>2, <3>3
  <2>9. g[n + 1] \in SUBSET Pos(w)
    BY <1>3, <2>6
  <2> QED
    BY <1>10, <2>2, <2>3, <2>8, <2>9
<1>13. g[R] \in B[R]
  BY <1>4, <1>11, <1>12, LoopKeeps
<1>14. Opposite(w, Power[R - R], p) = w - 1 - p
  <2>1. R - R = 0 /\ Power[0] = 1 /\ p \in Int /\ p % 1 = 0
    BY Powers DEF Pos
  <2> QED
    BY <2>1 DEF Opposite
<1>15. p \in g[R] <=> w - 1 - p \in v
  <2>1. R \in 0 .. R
    BY <1>4
  <2> QED
    BY <1>10, <1>13, <1>14, <2>1
<1> QED
  BY <1>9, <1>15 DEF bit_test

-----------------------------------------------------------------------------
(* hash.c: numbers and strings with equal hashes.                          *)

LEMMA AllWords == WORDS = Power[BITS]
<1>1. PICK n \in Nat : n = BITS - 1 /\ n + 1 = BITS
  BY BitsAssumption
<1>2. Power[n + 1] = 2 * Power[n]
  BY Powers
<1> QED
  BY <1>1, <1>2, WordCount DEF Half

LEMMA HashesNumbers ==
  ASSUME NEW a \in Floats, NEW b \in Floats, hash_fp(a) = hash_fp(b), ~isnan(a), ~isnan(b)
  PROVE  eq_fn(a, b)
<1>1. PICK x, y : /\ x = (IF number(a) = 0 THEN 0 ELSE a)
                  /\ y = (IF number(b) = 0 THEN 0 ELSE b)
  OBVIOUS
<1>2. x \in 0 .. Power[BITS] - 1 /\ y \in 0 .. Power[BITS] - 1 /\ BITS \in Nat
  BY <1>1, AllWords, BitsAssumption, WordCount DEF Floats
<1>3. hash_fp(a) = hash_mix(BITS, Word(BITS, x)) /\ hash_fp(b) = hash_mix(BITS, Word(BITS, y))
  BY <1>1 DEF hash_fp
<1>4. Word(BITS, x) \in SUBSET Pos(BITS) /\ Word(BITS, y) \in SUBSET Pos(BITS)
  BY DEF Word
<1>5. Word(BITS, x) = Word(BITS, y)
  BY <1>2, <1>3, <1>4, MixesExactly
<1>6. x = y
  BY <1>2, <1>5, WordInjective
<1>7. number(0) = 0
  <2>1. Half \in Nat \ {0} /\ 0 % Half = 0
    BY WordCount
  <2> QED
    BY <2>1 DEF number, mag
<1>8. number(a) = number(b)
  BY <1>1, <1>6, <1>7
<1> QED
  BY <1>8, Ranks, ComparesRanks DEF eq_fn, rank

\* hash_bytes before it mixes, after n characters.
Folded(h, w, t) ==
  h = [i \in 0 .. Len(t) |-> IF i = 0 THEN Word(w, FNV_OFFSET) ELSE mul(w, xor(h[i - 1], t[i]), FNV_PRIME)]

LEMMA FoldsBytes ==
  ASSUME NEW w \in Nat, NEW L \in Nat, NEW t \in [1 .. L -> SUBSET Pos(w)]
  PROVE  \E h \in [0 .. L -> SUBSET Pos(w)] : Folded(h, w, t) /\ hash_bytes(w, t) = hash_mix(w, h[L])
<1>1. PICK F, A : /\ F = [n \in 0 .. L - 1 |-> [a \in SUBSET Pos(w) |-> mul(w, xor(a, t[n + 1]), FNV_PRIME)]]
                  /\ A = [n \in 0 .. L |-> SUBSET Pos(w)]
  OBVIOUS
<1>2. Len(t) = L
  OBVIOUS
<1>3. PICK start \in SUBSET Pos(w) : start = Word(w, FNV_OFFSET)
  BY DEF Word
<1>4. start \in A[0] /\ Leads(F, L, A)
  <2>1. ASSUME NEW n \in 0 .. L - 1, NEW a \in A[n] PROVE F[n][a] \in A[n + 1]
    <3>1. n \in 0 .. L /\ n + 1 \in 0 .. L
      OBVIOUS
    <3>2. a \in SUBSET Pos(w) /\ A[n + 1] = SUBSET Pos(w)
      BY <1>1, <2>1, <3>1
    <3>3. F[n][a] = mul(w, xor(a, t[n + 1]), FNV_PRIME)
      BY <1>1, <3>2
    <3> QED
      BY <3>2, <3>3, StayWords
  <2>2. \A n \in 0 .. L - 1 : \A a \in A[n] : F[n][a] \in A[n + 1]
    BY <2>1
  <2>3. 0 \in 0 .. L /\ A[0] = SUBSET Pos(w)
    BY <1>1
  <2> QED
    BY <1>3, <2>2, <2>3 DEF Leads
<1>5. PICK f : Runs(f, L, start, F) /\ \A n \in 0 .. L : f[n] \in A[n]
  BY <1>4, LoopExists
<1>6. f = [n \in 0 .. L |-> IF n = 0 THEN start ELSE mul(w, xor(f[n - 1], t[n]), FNV_PRIME)]
  <2>1. f = [n \in 0 .. L |-> IF n = 0 THEN start ELSE F[n - 1][f[n - 1]]]
    BY <1>5 DEF Runs
  <2>2. ASSUME NEW n \in 0 .. L, n # 0 PROVE F[n - 1][f[n - 1]] = mul(w, xor(f[n - 1], t[n]), FNV_PRIME)
    <3>1. n - 1 \in 0 .. L - 1 /\ n - 1 \in 0 .. L /\ (n - 1) + 1 = n
      BY <2>2
    <3>2. f[n - 1] \in SUBSET Pos(w)
      BY <1>1, <1>5, <3>1
    <3> QED
      BY <1>1, <3>1, <3>2
  <2>3. \A n \in 0 .. L : f[n] = IF n = 0 THEN start ELSE mul(w, xor(f[n - 1], t[n]), FNV_PRIME)
    BY <2>1, <2>2
  <2>4. f = [n \in 0 .. L |-> f[n]]
    BY <2>1
  <2> QED
    BY <2>3, <2>4
<1>7. Folded(f, w, t)
  BY <1>2, <1>3, <1>6 DEF Folded
<1>8. PICK g : g = CHOOSE h : h = [i \in 0 .. Len(t) |-> IF i = 0 THEN Word(w, FNV_OFFSET)
                                                         ELSE mul(w, xor(h[i - 1], t[i]), FNV_PRIME)]
  OBVIOUS
<1>9. Folded(g, w, t)
  BY <1>7, <1>8 DEF Folded
<1>10. hash_bytes(w, t) = hash_mix(w, g[L])
  BY <1>2, <1>8 DEF hash_bytes
<1>11. g \in [0 .. L -> SUBSET Pos(w)]
  <2>1. g = [i \in 0 .. L |-> IF i = 0 THEN Word(w, FNV_OFFSET) ELSE mul(w, xor(g[i - 1], t[i]), FNV_PRIME)]
    BY <1>2, <1>9 DEF Folded
  <2>2. \A i \in 0 .. L : g[i] \in SUBSET Pos(w)
    BY <1>3, <2>1, StayWords
  <2> QED
    BY <2>1, <2>2
<1> QED
  BY <1>9, <1>10, <1>11

LEMMA FoldsExactly ==
  ASSUME NEW w \in Nat, NEW x \in SUBSET Pos(w), NEW y \in SUBSET Pos(w),
         mul(w, x, FNV_PRIME) = mul(w, y, FNV_PRIME)
  PROVE  x = y
<1>1. PICK j \in Nat : j = 1 /\ 2 * j + 1 = FNV_PRIME
  BY DEF FNV_PRIME
<1>2. mul(w, x, 2 * j + 1) = mul(w, y, 2 * j + 1)
  BY <1>1
<1> QED
  BY <1>2, MulInjective

\* Once two strings have led to different words, equal characters keep them
\* different.
LEMMA HashesStrings ==
  ASSUME NEW w \in Nat, NEW L \in Nat, NEW t \in [1 .. L -> SUBSET Pos(w)],
         NEW u \in [1 .. L -> SUBSET Pos(w)], NEW i \in 1 .. L, t[i] # u[i],
         \A k \in 1 .. L : k # i => t[k] = u[k]
  PROVE  hash_bytes(w, t) # hash_bytes(w, u)
<1>1. PICK g \in [0 .. L -> SUBSET Pos(w)] : Folded(g, w, t) /\ hash_bytes(w, t) = hash_mix(w, g[L])
  BY FoldsBytes
<1>2. PICK h \in [0 .. L -> SUBSET Pos(w)] : Folded(h, w, u) /\ hash_bytes(w, u) = hash_mix(w, h[L])
  BY FoldsBytes
<1>3. \A k \in 0 .. L : /\ g[k] = IF k = 0 THEN Word(w, FNV_OFFSET) ELSE mul(w, xor(g[k - 1], t[k]), FNV_PRIME)
                        /\ h[k] = IF k = 0 THEN Word(w, FNV_OFFSET) ELSE mul(w, xor(h[k - 1], u[k]), FNV_PRIME)
  <2>1. Len(t) = L /\ Len(u) = L
    OBVIOUS
  <2> QED
    BY <1>1, <1>2, <2>1 DEF Folded
<1>4. g[i - 1] = h[i - 1]
  <2>1. PICK S : S = { n \in 0 .. i - 1 : g[n] = h[n] }
    OBVIOUS
  <2>2. 0 \in S
    <3>1. 0 \in 0 .. L /\ 0 \in 0 .. i - 1
      OBVIOUS
    <3> QED
      BY <1>3, <2>1, <3>1
  <2>3. \A n \in 0 .. (i - 1) - 1 : n \in S => n + 1 \in S
    <3>1. SUFFICES ASSUME NEW n \in 0 .. (i - 1) - 1, n \in S PROVE g[n + 1] = h[n + 1]
      BY <2>1
    <3>2. n + 1 \in 0 .. L /\ n + 1 # 0 /\ (n + 1) - 1 = n /\ n + 1 \in 1 .. L /\ n + 1 # i
      OBVIOUS
    <3> QED
      BY <1>3, <2>1, <3>1, <3>2
  <2>4. i - 1 \in Nat /\ i - 1 \in 0 .. i - 1
    OBVIOUS
  <2>5. \A n \in 0 .. i - 1 : n \in S
    BY <2>2, <2>3, <2>4, UpTo_Induction
  <2> QED
    BY <2>1, <2>4, <2>5
<1>5. g[i] # h[i]
  <2>1. i \in 0 .. L /\ i # 0 /\ i - 1 \in 0 .. L
    OBVIOUS
  <2>2. PICK a \in SUBSET Pos(w) : a = g[i - 1] /\ a = h[i - 1]
    BY <1>4, <2>1
  <2>3. PICK c \in SUBSET Pos(w), d \in SUBSET Pos(w) : c = t[i] /\ d = u[i] /\ c # d
    OBVIOUS
  <2>4. g[i] = mul(w, xor(a, c), FNV_PRIME) /\ h[i] = mul(w, xor(a, d), FNV_PRIME)
    BY <1>3, <2>1, <2>2, <2>3
  <2>5. ASSUME g[i] = h[i] PROVE xor(a, c) = xor(a, d)
    <3>1. xor(a, c) \in SUBSET Pos(w) /\ xor(a, d) \in SUBSET Pos(w)
      BY DEF xor
    <3>2. PICK x \in SUBSET Pos(w), y \in SUBSET Pos(w) : x = xor(a, c) /\ y = xor(a, d)
      BY <3>1
    <3>3. mul(w, x, FNV_PRIME) = mul(w, y, FNV_PRIME)
      BY <2>4, <2>5, <3>2
    <3> QED
      BY <3>2, <3>3, FoldsExactly
  <2> QED
    BY <2>3, <2>5, XorCancels
<1>6. g[L] # h[L]
  <2>1. PICK S : S = { n \in 0 .. L - i : g[i + n] # h[i + n] }
    OBVIOUS
  <2>2. 0 \in S
    <3>1. i + 0 = i /\ 0 \in 0 .. L - i
      OBVIOUS
    <3> QED
      BY <1>5, <2>1, <3>1
  <2>3. \A n \in 0 .. (L - i) - 1 : n \in S => n + 1 \in S
    <3>1. SUFFICES ASSUME NEW n \in 0 .. (L - i) - 1, n \in S PROVE g[i + (n + 1)] # h[i + (n + 1)]
      BY <2>1
    <3>2. PICK k \in 0 .. L : /\ k = i + (n + 1) /\ k # 0 /\ k - 1 = i + n /\ k \in 1 .. L /\ k # i
                              /\ k - 1 \in 0 .. L
      OBVIOUS
    <3>3. PICK a \in SUBSET Pos(w), b \in SUBSET Pos(w) : a = g[k - 1] /\ b = h[k - 1]
      BY <3>2
    <3>4. a # b
      BY <2>1, <3>1, <3>2, <3>3
    <3>5. PICK c \in SUBSET Pos(w) : c = t[k] /\ c = u[k]
      BY <3>2
    <3>6. g[k] = mul(w, xor(a, c), FNV_PRIME) /\ h[k] = mul(w, xor(b, c), FNV_PRIME)
      BY <1>3, <3>2, <3>3, <3>5
    <3>7. ASSUME g[k] = h[k] PROVE xor(a, c) = xor(b, c)
      <4>1. xor(a, c) \in SUBSET Pos(w) /\ xor(b, c) \in SUBSET Pos(w)
        BY DEF xor
      <4>2. PICK x \in SUBSET Pos(w), y \in SUBSET Pos(w) : x = xor(a, c) /\ y = xor(b, c)
        BY <4>1
      <4>3. mul(w, x, FNV_PRIME) = mul(w, y, FNV_PRIME)
        BY <3>6, <3>7, <4>2
      <4> QED
        BY <4>2, <4>3, FoldsExactly
    <3>8. xor(a, c) = xor(b, c) => a = b
      BY DEF xor
    <3> QED
      BY <3>2, <3>4, <3>7, <3>8
  <2>4. L - i \in Nat /\ L - i \in 0 .. L - i /\ i + (L - i) = L
    OBVIOUS
  <2>5. \A n \in 0 .. L - i : n \in S
    BY <2>2, <2>3, <2>4, UpTo_Induction
  <2> QED
    BY <2>1, <2>4, <2>5
<1>7. g[L] \in SUBSET Pos(w) /\ h[L] \in SUBSET Pos(w)
  <2>1. L \in 0 .. L
    OBVIOUS
  <2> QED
    BY <1>1, <1>2, <2>1
<1>8. hash_mix(w, g[L]) # hash_mix(w, h[L])
  BY <1>6, <1>7, MixesExactly
<1> QED
  BY <1>1, <1>2, <1>8

LEMMA TextHashed ==
  ASSUME Numbered(s), NEW i \in DOMAIN text, NEW k \in Keys, k # text[i]
  PROVE  Hash([text EXCEPT ![i] = k]) # Hash(text)
<1>1. PICK L \in Nat : L = Len(s) /\ DOMAIN s = 1 .. L /\ \A n \in 1 .. L : s[n] \in Element
  BY Positions DEF Numbered
<1>2. PICK T \in [1 .. L -> 0 .. Power[BITS] - 1] : T = text
  <2>1. \A n \in 1 .. L : s[n].key \in 0 .. Power[BITS] - 1
    BY <1>1, AllWords DEF Element, Floats
  <2>2. text = [n \in 1 .. L |-> s[n].key]
    BY <1>1 DEF text
  <2> QED
    BY <2>1, <2>2
<1>3. k \in 0 .. Power[BITS] - 1 /\ BITS \in Nat /\ i \in 1 .. L
  BY <1>2, KeysAssumption, AllWords, BitsAssumption
<1>4. PICK U \in [1 .. L -> 0 .. Power[BITS] - 1] : U = [T EXCEPT ![i] = k]
  BY <1>3
<1>5. PICK t, u : /\ t = [n \in 1 .. L |-> Word(BITS, T[n])]
                  /\ u = [n \in 1 .. L |-> Word(BITS, U[n])]
  OBVIOUS
<1>6. t \in [1 .. L -> SUBSET Pos(BITS)] /\ u \in [1 .. L -> SUBSET Pos(BITS)]
  BY <1>5 DEF Word
<1>7. t[i] # u[i]
  <2>1. t[i] = Word(BITS, T[i]) /\ u[i] = Word(BITS, k) /\ T[i] \in 0 .. Power[BITS] - 1 /\ T[i] # k
    BY <1>2, <1>3, <1>4, <1>5
  <2> QED
    BY <1>3, <2>1, WordInjective
<1>8. \A n \in 1 .. L : n # i => t[n] = u[n]
  BY <1>3, <1>4, <1>5
<1>9. hash_bytes(BITS, t) # hash_bytes(BITS, u)
  BY <1>3, <1>6, <1>7, <1>8, HashesStrings
<1>10. Hash(text) = hash_bytes(BITS, t) /\ Hash([text EXCEPT ![i] = k]) = hash_bytes(BITS, u)
  BY <1>2, <1>4, <1>5 DEF Hash
<1> QED
  BY <1>9, <1>10

LEMMA MixesRight ==
  ASSUME Numbered(s)
  PROVE  MixingExact
<1>1. BITS \in Nat
  BY BitsAssumption
<1>2. ASSUME NEW v \in SUBSET Pos(BITS), NEW u \in SUBSET Pos(BITS), v # u
      PROVE  /\ hash_mix(BITS, v) # hash_mix(BITS, u)
             /\ \A h \in SUBSET Pos(BITS) : hash_combine(BITS, h, v) # hash_combine(BITS, h, u)
  BY <1>1, <1>2, MixesExactly, CombinesExactly
<1>3. ASSUME NEW a \in Floats, NEW b \in Floats, hash_fp(a) = hash_fp(b)
      PROVE  eq_fn(a, b) \/ isnan(a) \/ isnan(b)
  BY <1>3, HashesNumbers
<1>4. ASSUME NEW w \in Widths, NEW seed \in SUBSET Pos(w), w > 2
      PROVE  \E k \in 0 .. 3 : rng_new(w, seed)[k] # {}
  BY <1>4, KeysAssumption, SeedsNotZero
<1>5. \A i \in DOMAIN text, k \in Keys : k # text[i] => Hash([text EXCEPT ![i] = k]) # Hash(text)
  BY TextHashed
<1> QED
  BY <1>2, <1>3, <1>4, <1>5 DEF MixingExact

LEMMA BitsRight ==
  ASSUME Numbered(s)
  PROVE  BitsExact
<1>1. SUFFICES ASSUME NEW w \in Widths, NEW v \in SUBSET Pos(w)
      PROVE
        /\ \A n \in 0 .. w - 1 : rotr(w, rotl(w, v, n), n) = v
                              /\ \A p \in Pos(w) : bit_test(v, p) = bit_test(rotl(w, v, n), (p + n) % w)
        /\ \A p \in Pos(w) : bit_test(bit_reverse(w, v), p) = bit_test(v, w - 1 - p)
        /\ \A b \in {2, 4} : w % b = 0 => \A p \in Pos(w) :
             bit_test(bswap(w, b, v), p) = bit_test(v, ((w \div b) - 1 - (p \div b)) * b + (p % b))
        /\ \A pos \in 0 .. w - 1 :
             /\ Value(w, bit_set(v, pos)) - Value(w, bit_clear(v, pos)) = Power[pos]
             /\ bit_test(bit_toggle(v, pos), pos) # bit_test(v, pos)
             /\ \A len \in 0 .. w - pos :
                  LET field == bit_extract(w, v, pos, len) IN
                  /\ Value(w, field) = (Value(w, v) \div Power[pos]) % Power[len]
                  /\ bit_deposit(w, v, pos, len, field) = v
                  /\ bit_extract(w, bit_deposit(w, {}, pos, len, v), pos, len) = v \cap bit_mask(w, len)
  BY MixesRight DEF BitsExact
<1>2. w \in Nat
  BY KeysAssumption
<1>3. PICK k \in 0 .. w : w = Power[k]
  BY KeysAssumption
<1>4. \A n \in 0 .. w - 1 : rotr(w, rotl(w, v, n), n) = v
                        /\ \A p \in Pos(w) : bit_test(v, p) = bit_test(rotl(w, v, n), (p + n) % w)
  BY <1>2, RotationsExact
<1>5. \A p \in Pos(w) : bit_test(bit_reverse(w, v), p) = bit_test(v, w - 1 - p)
  BY <1>2, <1>3, ReversesExactly
<1>6. ASSUME NEW b \in {2, 4}, w % b = 0, NEW p \in Pos(w)
      PROVE  bit_test(bswap(w, b, v), p) = bit_test(v, ((w \div b) - 1 - (p \div b)) * b + (p % b))
  <2>1. b \in Nat \ {0}
    OBVIOUS
  <2> QED
    BY <1>2, <1>6, <2>1, BytesExact
<1>7. ASSUME NEW pos \in 0 .. w - 1
      PROVE  /\ Value(w, bit_set(v, pos)) - Value(w, bit_clear(v, pos)) = Power[pos]
             /\ bit_test(bit_toggle(v, pos), pos) # bit_test(v, pos)
  <2>1. pos \in Pos(w)
    BY DEF Pos
  <2> QED
    BY <1>2, <2>1, SingleBit
<1>8. ASSUME NEW pos \in 0 .. w - 1, NEW len \in 0 .. w - pos
      PROVE  LET field == bit_extract(w, v, pos, len) IN
             /\ Value(w, field) = (Value(w, v) \div Power[pos]) % Power[len]
             /\ bit_deposit(w, v, pos, len, field) = v
             /\ bit_extract(w, bit_deposit(w, {}, pos, len, v), pos, len) = v \cap bit_mask(w, len)
  BY <1>2, FieldsExact
<1> QED
  BY <1>4, <1>5, <1>6, <1>7, <1>8

\* hash.c, bit.c: whatever the width, neither mixing nor combining maps two
\* words to one, strings that differ in one character and numbers that are not
\* equal have different hashes, rotations lose nothing, reversals put each bit
\* or byte where it mirrors, and fields are taken and put as arithmetic says.
THEOREM BitsExactHolds == Spec => []BitsExact
<1>1. LibInv => BitsExact
  BY BitsRight DEF LibInv
<1> QED
  BY <1>1, LibInvHolds, PTL
=============================================================================
