-------------------------------- MODULE NxAlgo --------------------------------
(***************************************************************************)
(* src/algo, src/ds/span.c and the shuffle of src/rand/rand.c: algorithms  *)
(* on a span of elements with a comparison the client passes, which is     *)
(* nx_cmp_f32 or nx_cmp_f64 here.                                          *)
(*                                                                         *)
(* An element is a record of what is compared, its key, and a tag that     *)
(* tells where it came from.  Positions count from 0, as in C, and a span  *)
(* is a sequence.  Operators that change a span return it; those that      *)
(* leave some of it unused return [s, out], with the new logical length.   *)
(*                                                                         *)
(* A definition named X_..., right before X and used by nothing, is X with *)
(* a bug someone could write: it shows that a property can fail.           *)
(***************************************************************************)
EXTENDS NxKeys

get(s, i)    == s[i + 1]
set(s, i, x) == [s EXCEPT ![i + 1] = x]
swap(s, i, j) == set(set(s, i, get(s, j)), j, get(s, i))
sub(s, offset, count) == SubSeq(s, offset + 1, offset + count)

cmp(l, r) == cmp_fp(l.key, r.key)

\* A pointer to an element: of the span itself, at position at, or of the
\* client's own memory, with at = -1.
Deref(s, p) == IF p.at = -1 THEN p.elem ELSE get(s, p.at)

\* A loop whose body turns the state t of round i = 0, 1, ... into step(t, i).
Loop(step(_, _), start, rounds) ==
  LET state[n \in 0 .. rounds] == IF n = 0 THEN start ELSE step(state[n - 1], n - 1)
  IN state[rounds]

Moved(a, i) == [a EXCEPT !.s = set(@, a.out, get(@, i)), !.out = @ + 1]

-----------------------------------------------------------------------------
(* transform.c.  A predicate is the set of the keys it holds of.           *)

fill(s, p)        == Loop(LAMBDA t, i : set(t, i, Deref(t, p)), s, Len(s))
transform(s, F)   == [i \in DOMAIN s |-> [s[i] EXCEPT !.key = F[@]]]

reverse(s) == Loop(LAMBDA t, left : swap(t, left, Len(s) - 1 - left), s, Len(s) \div 2)

\* The whole is reversed before its parts, which moves by len - mid.
rotate_whole_first(s, mid) ==
  LET r == reverse(s)
  IN reverse(sub(r, 0, mid)) \o reverse(sub(r, mid, Len(s) - mid))

rotate(s, mid) ==
  IF mid = 0 \/ mid = Len(s) THEN s
  ELSE reverse(reverse(sub(s, 0, mid)) \o reverse(sub(s, mid, Len(s) - mid)))

\* memmove: the parts of s may overlap.
copy(s, to, from, n) ==
  [i \in DOMAIN s |-> IF to < i /\ i <= to + n THEN s[from + (i - to)] ELSE s[i]]

\* dst may be src, or lie apart from it.
copy_if(s, pred) ==
  Loop(LAMBDA a, i : IF get(a.s, i).key \in pred THEN Moved(a, i) ELSE a, [s |-> s, out |-> 0], Len(s))
replace(s, old, new) ==
  Loop(LAMBDA a, i : IF cmp(get(a.s, i), Deref(a.s, old)) = 0
                     THEN [s |-> set(a.s, i, Deref(a.s, new)), out |-> a.out + 1] ELSE a,
       [s |-> s, out |-> 0], Len(s))
replace_if(s, pred, new) ==
  Loop(LAMBDA a, i : IF get(a.s, i).key \in pred
                     THEN [s |-> set(a.s, i, Deref(a.s, new)), out |-> a.out + 1] ELSE a,
       [s |-> s, out |-> 0], Len(s))
remove(s, key) ==
  Loop(LAMBDA a, i : IF cmp(get(a.s, i), Deref(a.s, key)) # 0 THEN Moved(a, i) ELSE a,
       [s |-> s, out |-> 0], Len(s))
remove_if(s, pred) ==
  Loop(LAMBDA a, i : IF get(a.s, i).key \in pred THEN a ELSE Moved(a, i), [s |-> s, out |-> 0], Len(s))

\* Compares with the last element kept.
unique(s) ==
  Loop(LAMBDA a, i : IF i = 0 \/ cmp(get(a.s, a.out - 1), get(a.s, i)) # 0 THEN Moved(a, i) ELSE a,
       [s |-> s, out |-> 0], Len(s))

-----------------------------------------------------------------------------
(* search.c, minmax.c, compare.c                                           *)

find(s, key)     == FirstOr({ i \in 0 .. Len(s) - 1 : cmp(get(s, i), key) = 0 })
count(s, key)    == Cardinality({ i \in 0 .. Len(s) - 1 : cmp(get(s, i), key) = 0 })
find_if(s, pred)  == FirstOr({ i \in 0 .. Len(s) - 1 : get(s, i).key \in pred })
count_if(s, pred) == Cardinality({ i \in 0 .. Len(s) - 1 : get(s, i).key \in pred })

\* Binary search: the first position of 0 .. len that is not in Left.  Each
\* round makes the part that is left shorter, so len of them are enough.
Halved(Left, a) ==
  LET mid == a.lo + (a.hi - a.lo) \div 2
  IN IF a.lo >= a.hi THEN a
     ELSE IF mid \in Left THEN [a EXCEPT !.lo = mid + 1] ELSE [a EXCEPT !.hi = mid]
bound(Left, len) == Loop(LAMBDA a, i : Halved(Left, a), [lo |-> 0, hi |-> len], len).lo

Lower(s, key)  == { i \in 0 .. Len(s) - 1 : cmp(get(s, i), key) < 0 }
UpTo(s, key)   == { i \in 0 .. Len(s) - 1 : cmp(get(s, i), key) <= 0 }

\* Goes on past elements that are equal, too.
lower_bound_late(s, key) == bound(UpTo(s, key), Len(s))

lower_bound(s, key) == bound(Lower(s, key), Len(s))
upper_bound(s, key) == bound(UpTo(s, key), Len(s))
bsearch(s, key) ==
  LET pos == lower_bound(s, key)
  IN IF pos < Len(s) /\ cmp(get(s, pos), key) = 0 THEN pos ELSE -1

min_element(s) ==
  IF s = <<>> THEN -1
  ELSE Loop(LAMBDA best, i : IF cmp(get(s, i), get(s, best)) < 0 THEN i ELSE best, 0, Len(s))
max_element(s) ==
  IF s = <<>> THEN -1
  ELSE Loop(LAMBDA best, i : IF cmp(get(s, i), get(s, best)) > 0 THEN i ELSE best, 0, Len(s))
minmax_element(s) == <<min_element(s), max_element(s)>>

equal(a, b) == Len(a) = Len(b) /\ \A i \in DOMAIN a : cmp(a[i], b[i]) = 0

-----------------------------------------------------------------------------
(* merge.c and sort.c                                                      *)

\* The left element first only if it is less.
TakesLeft_unstable(l, r) == cmp(l, r) < 0
TakesLeft(l, r) == cmp(l, r) <= 0
Less(l, r) == cmp(l, r) < 0

\* i elements of a are merged, and the others of b.
merge(a, b) ==
  Loop(LAMBDA m, n :
         LET j == n - m.i
         IN IF j = Len(b) \/ (m.i < Len(a) /\ TakesLeft(get(a, m.i), get(b, j)))
            THEN [i |-> m.i + 1, dst |-> Append(m.dst, get(a, m.i))]
            ELSE [m EXCEPT !.dst = Append(@, get(b, j))],
       [i |-> 0, dst |-> <<>>], Len(a) + Len(b)).dst

inplace_merge(s, mid) == merge(sub(s, 0, mid), sub(s, mid, Len(s) - mid))

\* One pass: runs of this width are merged two by two.
merge_runs(s, width) ==
  LET Cut(i) == IF i < Len(s) THEN i ELSE Len(s)
  IN Loop(LAMBDA dst, n :
            LET left      == 2 * width * n
                left_end  == Cut(left + width)
                right_end == Cut(left + 2 * width)
            IN dst \o merge(sub(s, left, left_end - left), sub(s, left_end, right_end - left_end)),
          <<>>, (Len(s) + 2 * width - 1) \div (2 * width))

\* The width doubles until it is that of s: at most Len(s) times.
sort_stable(s) ==
  Loop(LAMBDA a, n : IF a.width >= Len(s) THEN a
                     ELSE [s |-> merge_runs(a.s, a.width), width |-> 2 * a.width],
       [s |-> s, width |-> 1], Len(s)).s

is_sorted(s) == \A i \in 1 .. Len(s) - 1 : cmp(s[i], s[i + 1]) <= 0

\* qsort leaves the order of equal elements open.
sort(s) == { t \in { [i \in DOMAIN s |-> s[p[i]]] : p \in Bijection(DOMAIN s, DOMAIN s) } : is_sorted(t) }

median3(s, a, b, c) ==
  LET ab == cmp(get(s, a), get(s, b))
      ac == cmp(get(s, a), get(s, c))
      bc == cmp(get(s, b), get(s, c))
  IN IF (ab <= 0 /\ ac >= 0) \/ (ab >= 0 /\ ac <= 0) THEN a
     ELSE IF (ab >= 0 /\ bc <= 0) \/ (ab <= 0 /\ bc >= 0) THEN b
     ELSE c

\* Smaller ones to the left of i, then the pivot between.
partition_lomuto(s, left, right, pivot_idx) ==
  LET a == Loop(LAMBDA acc, n :
                  IF Less(get(acc.s, left + n), get(acc.s, right))
                  THEN [s |-> swap(acc.s, acc.out, left + n), out |-> acc.out + 1] ELSE acc,
                [s |-> swap(s, pivot_idx, right), out |-> left], right - left)
  IN [s |-> swap(a.s, a.out, right), out |-> a.out]

\* One round: what is left of the span is cut down to the side of nth.
Narrowed(a, nth) ==
  LET mid == a.left + (a.right - a.left) \div 2
      p   == partition_lomuto(a.s, a.left, a.right, median3(a.s, a.left, mid, a.right))
  IN IF a.left >= a.right THEN a
     ELSE IF nth = p.out THEN [s |-> p.s, left |-> nth, right |-> nth]
     ELSE IF nth < p.out THEN [a EXCEPT !.s = p.s, !.right = p.out - 1]
     ELSE [a EXCEPT !.s = p.s, !.left = p.out + 1]

\* Each round leaves at least the pivot out, so Len(s) of them are enough.
nth_element(s, nth) ==
  Loop(LAMBDA a, n : Narrowed(a, nth), [s |-> s, left |-> 0, right |-> Len(s) - 1], Len(s)).s

partial_sort(s, k) ==
  IF k = 0 THEN {s} ELSE IF k >= Len(s) THEN sort(s)
  ELSE LET t == nth_element(s, k)
       IN { u \o sub(t, k, Len(t) - k) : u \in sort(sub(t, 0, k)) }

-----------------------------------------------------------------------------
(* rand.c on a word of BITS bits.                                          *)

WORDS  == 2 * Half
Floats == 0 .. WORDS - 1

\* The words below the threshold are drawn again.
Accepted_all(range) == 0 .. WORDS - 1
Accepted(range) == { x \in 0 .. WORDS - 1 : x >= ((WORDS - range) % WORDS) % range }
max_of(max, x)  == IF max = WORDS - 1 THEN x ELSE x % (max + 1)
Draws(max)      == IF max = WORDS - 1 THEN 0 .. WORDS - 1 ELSE Accepted(max + 1)

\* What a draw from lo .. hi may be.  hi - lo wraps, and so does the conversion to
\* the signed type; but the sum is signed, and undefined when it overflows.
Wrapped(x) == LET y == x % WORDS IN IF y < Half THEN y ELSE y - WORDS
Ints       == -Half .. Half - 1
int_range(lo, hi, x) ==
  LET sum == lo + Wrapped(max_of((hi - lo) % WORDS, x))
  IN IF sum \in Ints THEN {sum} ELSE Ints

\* Every outcome of a shuffle that draws j from 0 .. i for i = len - 1, ..., 1.
Drawn(T, i) == { swap(t, i, j) : t \in T, j \in 0 .. i }
shuffles(s) ==
  IF Len(s) < 2 THEN {s} ELSE Loop(LAMBDA T, n : Drawn(T, Len(s) - 1 - n), {s}, Len(s) - 1)
=============================================================================
