-------------------------------- MODULE NxKeys --------------------------------
(***************************************************************************)
(* What elements are compared and hashed by: src/core/cmp.c and the        *)
(* floating-point part of src/core/hash.c, and the views of                *)
(* src/string/str_view.c, whose characters are the same words.             *)
(*                                                                         *)
(* A floating-point number is its bits: a sign, and a magnitude that       *)
(* orders the numbers and, above INF, stands for NaN.                      *)
(***************************************************************************)
EXTENDS NxBits, SequencesExt

CONSTANTS
  BITS,        \* the width of a floating-point number
  INF,         \* the magnitude of infinity
  Space        \* the characters isspace accepts

Half == Power[BITS - 1]

ASSUME BitsAssumption == BITS \in Nat \ {0} /\ INF \in Nat

mag(x)    == x % Half
isnan(x)  == mag(x) > INF
number(x) == IF x < Half THEN mag(x) ELSE -mag(x)

-----------------------------------------------------------------------------
(* cmp.c                                                                   *)

cmp_int(a, b)  == IF a < b THEN -1 ELSE IF a > b THEN 1 ELSE 0

\* Without the case of NaN, where < and > are both false.
cmp_fp_naive(a, b) ==
  IF isnan(a) \/ isnan(b) THEN 0 ELSE cmp_int(number(a), number(b))

cmp_fp(a, b) ==
  IF isnan(a) /\ isnan(b) THEN 0
  ELSE IF isnan(a) THEN 1
  ELSE IF isnan(b) THEN -1
  ELSE cmp_int(number(a), number(b))

cmp_desc(a, b) == cmp_fp(b, a)
eq_fn(a, b)    == cmp_fp(a, b) = 0

\* A C string ends at its first 0; <<>> beyond the set of strings is null.
cmp_cstr(a, b) ==
  IF a = <<>> \/ b = <<>> THEN cmp_int(Len(a), Len(b))
  ELSE LET Differ == { i \in DOMAIN a \cap DOMAIN b : a[i] # b[i] }
       IN IF Differ = {} THEN 0
          ELSE LET i == Min(Differ) IN IF \E j \in 1 .. i - 1 : a[j] = 0 THEN 0 ELSE cmp_int(a[i], b[i])

\* hash.c: both zeros are one, and every NaN is taken for zero.
hash_fp(x) == hash_mix(BITS, Word(BITS, IF isnan(x) \/ number(x) = 0 THEN 0 ELSE x))

-----------------------------------------------------------------------------
(* str_view.c.  A view is the sequence of its characters.                  *)

memcmp(a, b, n) ==
  LET Differ == { i \in 1 .. n : a[i] # b[i] }
  IN IF Differ = {} THEN 0 ELSE cmp_int(a[Min(Differ)], b[Min(Differ)])

view_eq(a, b) == Len(a) = Len(b) /\ memcmp(a, b, Len(a)) = 0

view_cmp(a, b) ==
  LET n == IF Len(a) < Len(b) THEN Len(a) ELSE Len(b)
  IN IF memcmp(a, b, n) # 0 THEN memcmp(a, b, n) ELSE cmp_int(Len(a), Len(b))

starts_with(s, prefix) == Len(prefix) <= Len(s) /\ memcmp(s, prefix, Len(prefix)) = 0
ends_with(s, suffix) ==
  /\ Len(suffix) <= Len(s)
  /\ memcmp(SubSeq(s, Len(s) - Len(suffix) + 1, Len(s)), suffix, Len(suffix)) = 0

\* pos <= Len(s); len is cut to what is there.
view_sub(s, pos, len) ==
  SubSeq(s, pos + 1, IF len > Len(s) - pos THEN Len(s) ELSE pos + len)

\* The position of the first match, or -1.
FirstOr(S)  == IF S = {} THEN -1 ELSE Min(S)
find_sub(s, needle) ==
  IF needle = <<>> THEN 0
  ELSE FirstOr({ i \in 0 .. Len(s) - Len(needle) :
         s[i + 1] = needle[1] /\ memcmp(SubSeq(s, i + 1, i + Len(needle)), needle, Len(needle)) = 0 })
find_char(s, ch) == FirstOr({ i \in 0 .. Len(s) - 1 : s[i + 1] = ch })

\* c is a C string: it holds a 0.
from_cstr(c) == view_sub(c, 0, find_char(c, 0))

trim_start(s) ==
  LET i == CHOOSE i \in 0 .. Len(s) :
             /\ \A j \in 1 .. i : s[j] \in Space
             /\ i < Len(s) => s[i + 1] \notin Space
  IN SubSeq(s, i + 1, Len(s))
trim_end(s) ==
  LET i == CHOOSE i \in 0 .. Len(s) :
             /\ \A j \in i + 1 .. Len(s) : s[j] \in Space
             /\ i > 0 => s[i] \notin Space
  IN SubSeq(s, 1, i)
trim(s) == trim_end(trim_start(s))
=============================================================================
