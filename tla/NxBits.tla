-------------------------------- MODULE NxBits --------------------------------
(***************************************************************************)
(* src/numeric/bit.c, the mixing functions of src/core/hash.c, and the     *)
(* generator of src/rand/rand.c: operations on words of w bits.            *)
(*                                                                         *)
(* A word is the set of the positions where it has a 1, so that | is union *)
(* and & intersection.  The functions exist in C for 8 to 64 bits; here    *)
(* the width is their first parameter.                                     *)
(***************************************************************************)
EXTENDS Integers, Sequences

Pos(w)   == 0 .. w - 1

\* Powers of two, and the number that a word is.
Power[n \in Nat] == IF n = 0 THEN 1 ELSE 2 * Power[n - 1]
Value(w, v) ==
  LET sum[n \in Nat] ==
        IF n = 0 THEN 0 ELSE sum[n - 1] + (IF n - 1 \in v THEN Power[n - 1] ELSE 0)
  IN sum[w]
Word(w, n) == { p \in Pos(w) : (n \div Power[p]) % 2 = 1 }

xor(a, b)    == (a \ b) \union (b \ a)
shl(w, v, n) == { p + n : p \in v } \cap Pos(w)
shr(w, v, n) == { p - n : p \in v } \cap Pos(w)
mul(w, v, k) == Word(w, Value(w, v) * k)
add(w, a, b) == Word(w, Value(w, a) + Value(w, b))

-----------------------------------------------------------------------------
(* bit.c                                                                   *)

bit_set(v, pos)    == v \union {pos}
bit_clear(v, pos)  == v \ {pos}
bit_toggle(v, pos) == xor(v, {pos})
bit_test(v, pos)   == pos \in v

\* The bits that come back are one position off.
rotl_short(w, v, n) == IF n = 0 THEN v ELSE shl(w, v, n) \union shr(w, v, w - n - 1)

rotl(w, v, n) == IF n = 0 THEN v ELSE shl(w, v, n) \union shr(w, v, w - n)
rotr(w, v, n) == IF n = 0 THEN v ELSE shr(w, v, n) \union shl(w, v, w - n)

\* Byte k, of b bits, goes where byte w \div b - 1 - k was.
ByteMask(b, k) == k * b .. k * b + b - 1
bswap(w, b, v) ==
  LET last == (w \div b) - 1
  IN UNION { (IF last > 2 * k THEN shr(w, v, (last - 2 * k) * b)
              ELSE shl(w, v, (2 * k - last) * b)) \cap ByteMask(b, k) : k \in 0 .. last }

bit_mask(w, n) == IF n = 0 THEN {} ELSE IF n = w THEN Pos(w) ELSE Word(w, Power[n] - 1)

bit_extract(w, v, pos, len) ==
  IF len = 0 THEN {} ELSE shr(w, v, pos) \cap bit_mask(w, len)

bit_deposit(w, v, pos, len, bits) ==
  IF len = 0 THEN v
  ELSE LET mask == bit_mask(w, len)
       IN (v \ shl(w, mask, pos)) \union shl(w, bits \cap mask, pos)

\* Halves, quarters, ... are swapped: neighbours of h bits each.
Swapped(w, v, h) ==
  LET upper == { p \in Pos(w) : (p \div h) % 2 = 1 }
  IN shr(w, v \cap upper, h) \union shl(w, v \ upper, h)
bit_reverse(w, v) ==
  LET rounds == CHOOSE k \in 0 .. w : Power[k] = w
      rev[n \in 0 .. rounds] ==
        IF n = 0 THEN v ELSE Swapped(w, rev[n - 1], Power[rounds - n])
  IN rev[rounds]

-----------------------------------------------------------------------------
(* hash.c: 33 of 64 bits is half a word and one.  The factors are odd.     *)

FMIX_C1 == 5
FMIX_C2 == 11
FNV_OFFSET == 9
FNV_PRIME  == 3
GOLDEN     == 11

hash_mix(w, v) ==
  LET x(u) == xor(u, shr(w, u, w \div 2 + 1))
  IN x(mul(w, x(mul(w, x(v), FMIX_C1)), FMIX_C2))

\* FNV-1a over the words of the sequence s.
hash_bytes(w, s) ==
  LET h[i \in 0 .. Len(s)] ==
        IF i = 0 THEN Word(w, FNV_OFFSET) ELSE mul(w, xor(h[i - 1], s[i]), FNV_PRIME)
  IN hash_mix(w, h[Len(s)])

hash_combine(w, h, x) ==
  hash_mix(w, xor(h, add(w, add(w, add(w, x, Word(w, GOLDEN)), shl(w, h, 6 % w)), shr(w, h, 2))))

-----------------------------------------------------------------------------
(* rand.c: xoshiro256**, whose shift and rotations by 17, 45 and 7 of 64   *)
(* bits become 1, w - 1 and 1; and splitmix64, whose shifts by 30, 27 and  *)
(* 31 become half a word, for its four words.                              *)

splitmix(w, z) ==
  LET x(u) == xor(u, shr(w, u, w \div 2))
  IN x(mul(w, x(mul(w, x(z), FMIX_C1)), FMIX_C2))

rng_new(w, seed) ==
  [k \in 0 .. 3 |-> splitmix(w, Word(w, Value(w, seed) + (k + 1) * GOLDEN))]

next(w, s) ==
  LET s2 == xor(s[2], s[0])
      s3 == xor(s[3], s[1])
  IN [result |-> mul(w, rotl(w, mul(w, s[1], 5), 1), 9),
      state  |-> [k \in 0 .. 3 |-> CASE k = 0 -> xor(s[0], s3)
                                     [] k = 1 -> xor(s[1], s2)
                                     [] k = 2 -> xor(s2, shl(w, s[1], 1))
                                     [] k = 3 -> rotl(w, s3, w - 1)]]
=============================================================================
