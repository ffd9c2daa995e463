------------------------------- MODULE NxWords -------------------------------
(***************************************************************************)
(* src/numeric on integers of a width: ckd.c, sat.c, abs.c, sign.c and     *)
(* bounds.c.  Each function is written in C once per width; here the width *)
(* is a parameter.  Signed arithmetic is a wrapping operator: where the C  *)
(* code would overflow, the result here is wrong, and so would the         *)
(* properties be.                                                          *)
(*                                                                         *)
(* A definition named X_..., right before X and used by nothing, is X with *)
(* a bug someone could write: it shows that a property can fail.           *)
(***************************************************************************)
EXTENDS Integers

CONSTANT HALF          \* 2^(w-1)

ASSUME HalfAssumption == HALF \in Nat \ {0}

U_MAX == 2 * HALF - 1
I_MAX == HALF - 1
I_MIN == -HALF

Unsigned == 0 .. U_MAX
Signed   == I_MIN .. I_MAX

\* The value of the type that is x modulo 2^w.
as_u(x) == x % (2 * HALF)
as_i(x) == IF as_u(x) > I_MAX THEN as_u(x) - 2 * HALF ELSE as_u(x)

\* C's operators on the signed type.  Division truncates toward zero.
Add(a, b) == as_i(a + b)
Sub(a, b) == as_i(a - b)
Mul(a, b) == as_i(a * b)
Abs(a)    == IF a < 0 THEN -a ELSE a
Div(a, b) == as_i(IF (a < 0) = (b < 0) THEN Abs(a) \div Abs(b) ELSE -(Abs(a) \div Abs(b)))

-----------------------------------------------------------------------------
(* ckd.c: what <stdckdint.h> makes of the exact result x.                  *)

ckd_i(x) == [val |-> as_i(x), flag |-> x # as_i(x)]
ckd_u(x) == [val |-> as_u(x), flag |-> x # as_u(x)]

-----------------------------------------------------------------------------
(* sat.c                                                                   *)

sat_add_i(a, b) ==
  IF b > 0 /\ a > Sub(I_MAX, b) THEN I_MAX
  ELSE IF b < 0 /\ a < Sub(I_MIN, b) THEN I_MIN
  ELSE Add(a, b)

sat_add_u(a, b) == IF as_u(a + b) < a THEN U_MAX ELSE as_u(a + b)

sat_sub_i(a, b) ==
  IF b < 0 /\ a > Add(I_MAX, b) THEN I_MAX
  ELSE IF b > 0 /\ a < Add(I_MIN, b) THEN I_MIN
  ELSE Sub(a, b)

sat_sub_u(a, b) == IF a > b THEN as_u(a - b) ELSE 0

\* Up to 32 bits: through a type of twice the width, where a * b is exact.
sat_mul_wide_i(a, b) ==
  IF a * b > I_MAX THEN I_MAX ELSE IF a * b < I_MIN THEN I_MIN ELSE as_i(a * b)

sat_mul_wide_u(a, b) == IF a * b > U_MAX THEN U_MAX ELSE as_u(a * b)

\* Without the test for I_MIN, which has no negative.
sat_mul_i_unguarded(a, b) ==
  IF a = 0 \/ b = 0 THEN 0
  ELSE IF a > 0 /\ b > 0 /\ a > Div(I_MAX, b) THEN I_MAX
  ELSE IF a > 0 /\ b < 0 /\ b < Div(I_MIN, a) THEN I_MIN
  ELSE IF a < 0 /\ b > 0 /\ a < Div(I_MIN, b) THEN I_MIN
  ELSE IF a < 0 /\ b < 0 /\ Sub(0, a) > Div(I_MAX, Sub(0, b)) THEN I_MAX
  ELSE Mul(a, b)

\* 64 bits: by division.
sat_mul_i(a, b) ==
  IF a = 0 \/ b = 0 THEN 0
  ELSE IF a > 0 /\ b > 0 /\ a > Div(I_MAX, b) THEN I_MAX
  ELSE IF a > 0 /\ b < 0 /\ b < Div(I_MIN, a) THEN I_MIN
  ELSE IF a < 0 /\ b > 0 /\ a < Div(I_MIN, b) THEN I_MIN
  ELSE IF a < 0 /\ b < 0 /\ (a = I_MIN \/ b = I_MIN) THEN I_MAX
  ELSE IF a < 0 /\ b < 0 /\ Sub(0, a) > Div(I_MAX, Sub(0, b)) THEN I_MAX
  ELSE Mul(a, b)

sat_mul_u(a, b) ==
  IF a = 0 \/ b = 0 THEN 0 ELSE IF a > U_MAX \div b THEN U_MAX ELSE as_u(a * b)

-----------------------------------------------------------------------------
(* abs.c, sign.c, bounds.c.  abs asserts that x is not I_MIN.              *)

abs(x)           == IF x < 0 THEN Sub(0, x) ELSE x
sign(x)          == (IF x > 0 THEN 1 ELSE 0) - (IF x < 0 THEN 1 ELSE 0)
min(a, b)        == IF a < b THEN a ELSE b
max(a, b)        == IF a > b THEN a ELSE b
clamp(x, lo, hi) == IF x < lo THEN lo ELSE IF x > hi THEN hi ELSE x
-----------------------------------------------------------------------------
(* Correctness.                                                            *)

SignedSaturates(a, b) ==
  /\ sat_add_i(a, b) = clamp(a + b, I_MIN, I_MAX)
  /\ sat_sub_i(a, b) = clamp(a - b, I_MIN, I_MAX)
  /\ sat_mul_i(a, b) = clamp(a * b, I_MIN, I_MAX)
  /\ sat_mul_wide_i(a, b) = clamp(a * b, I_MIN, I_MAX)

UnsignedSaturates(a, b) ==
  /\ sat_add_u(a, b) = clamp(a + b, 0, U_MAX)
  /\ sat_sub_u(a, b) = clamp(a - b, 0, U_MAX)
  /\ sat_mul_u(a, b) = clamp(a * b, 0, U_MAX)
  /\ sat_mul_wide_u(a, b) = clamp(a * b, 0, U_MAX)

\* A checked result is the exact one unless the flag is set, and then the
\* saturating one is at the end of the range the exact one lies beyond.
Agrees(checked, sat, x, lo, hi) ==
  IF checked.flag THEN sat = (IF x < 0 THEN lo ELSE hi) ELSE checked.val = x /\ sat = x

\* sat.c: the result is the exact one, clamped, though no step of it may
\* overflow; ckd.c raises its flag exactly where it matters; abs.c, sign.c and
\* bounds.c take a number apart and put it together again.
ArithmeticExact ==
  /\ \A a, b \in Signed :
       /\ SignedSaturates(a, b)
       /\ Agrees(ckd_i(a + b), sat_add_i(a, b), a + b, I_MIN, I_MAX)
       /\ Agrees(ckd_i(a - b), sat_sub_i(a, b), a - b, I_MIN, I_MAX)
       /\ Agrees(ckd_i(a * b), sat_mul_i(a, b), a * b, I_MIN, I_MAX)
       /\ a # I_MIN => sign(a) * abs(a) = a /\ abs(a) = max(a, sat_sub_i(0, a))
       /\ a <= b => clamp(0, a, b) = max(a, min(0, b))
  /\ \A a, b \in Unsigned :
       /\ UnsignedSaturates(a, b)
       /\ Agrees(ckd_u(a + b), sat_add_u(a, b), a + b, 0, U_MAX)
       /\ Agrees(ckd_u(a - b), sat_sub_u(a, b), a - b, 0, U_MAX)
       /\ Agrees(ckd_u(a * b), sat_mul_u(a, b), a * b, 0, U_MAX)
=============================================================================
