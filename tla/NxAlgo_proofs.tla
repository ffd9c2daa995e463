--------------------------- MODULE NxAlgo_proofs ---------------------------
(***************************************************************************)
(* Proofs about the algorithms of NxAlgo, on spans of every length: what   *)
(* each loop keeps from one round to the next, and so what it has done     *)
(* when it ends.                                                           *)
(***************************************************************************)
EXTENDS NxAlgo, FiniteSetTheorems, WellFoundedInduction, TLAPS

\* Division with remainder by a positive number.
LEMMA DivMod ==
  ASSUME NEW x \in Int, NEW d \in Nat \ {0}
  PROVE  /\ x % d \in 0 .. d - 1 /\ x \div d \in Int
         /\ x = d * (x \div d) + (x % d)
<1>1. x % d \in 0 .. d - 1
  OBVIOUS
<1>2. x \div d \in Int
  OBVIOUS
<1>3. x = d * (x \div d) + (x % d)
  OBVIOUS
<1> QED
  BY <1>1, <1>2, <1>3

-----------------------------------------------------------------------------
(* Loops.                                                                  *)

\* Induction up to a bound.
LEMMA UpTo_Induction ==
  ASSUME NEW N \in Nat, NEW S, 0 \in S, \A n \in 0 .. N - 1 : n \in S => n + 1 \in S
  PROVE  \A n \in 0 .. N : n \in S
<1>1. SUFFICES ASSUME NEW k \in 0 .. N, k \notin S PROVE FALSE
  OBVIOUS
<1>2. PICK T : T = { n \in 0 .. N : n \notin S }
  OBVIOUS
<1>3. IsWellFoundedOn(OpToRel(<, Nat), Nat)
  BY NatLessThanWellFounded
<1>4. PICK R : R = OpToRel(<, Nat)
  OBVIOUS
<1>5. T # {} /\ T \in SUBSET Nat
  BY <1>1, <1>2
<1>6. PICK x \in T : \A y \in T : ~ (<<y, x>> \in R)
  BY <1>3, <1>4, <1>5, WFMin
<1>7. R = { q \in Nat \X Nat : q[1] < q[2] }
  BY <1>4 DEF OpToRel
<1>8. x \in 0 .. N /\ x \notin S
  BY <1>2, <1>6
<1>9. x # 0 /\ x - 1 \in 0 .. N - 1
  BY <1>8
<1>10. x - 1 \in T
  <2>1. x - 1 \in S => (x - 1) + 1 \in S
    BY <1>9
  <2>2. (x - 1) + 1 = x
    BY <1>8
  <2> QED
    BY <1>2, <1>8, <1>9, <2>1, <2>2
<1>11. <<x - 1, x>> \in R
  BY <1>7, <1>8, <1>9
<1> QED
  BY <1>6, <1>10, <1>11

\* A loop with the body F[n] in round n, which leads from A[n] to A[n + 1].
Runs(f, N, start, F) == f = [n \in 0 .. N |-> IF n = 0 THEN start ELSE F[n - 1][f[n - 1]]]
Leads(F, N, A)       == \A n \in 0 .. N - 1 : \A a \in A[n] : F[n][a] \in A[n + 1]

\* The states it goes through exist.
LEMMA LoopExists ==
  ASSUME NEW N \in Nat, NEW A, NEW F, NEW start, start \in A[0], Leads(F, N, A)
  PROVE  \E f : Runs(f, N, start, F) /\ \A n \in 0 .. N : f[n] \in A[n]
<1> DEFINE Good(k, f) == /\ f = [n \in 0 .. k |-> IF n = 0 THEN start ELSE F[n - 1][f[n - 1]]]
                         /\ \A n \in 0 .. k : f[n] \in A[n]
           S == { k \in 0 .. N : \E f : Good(k, f) }
<1>1. 0 \in S
  <2>1. PICK f : f = [n \in 0 .. 0 |-> start]
    OBVIOUS
  <2>2. Good(0, f)
    BY <2>1
  <2> QED
    BY <2>2
<1>2. ASSUME NEW k \in 0 .. N - 1, k \in S PROVE k + 1 \in S
  <2>1. PICK f : Good(k, f)
    BY <1>2
  <2>2. PICK g : g = [n \in 0 .. k + 1 |-> IF n = k + 1 THEN F[k][f[k]] ELSE f[n]]
    OBVIOUS
  <2>3. \A n \in 0 .. k : g[n] = f[n] /\ f[n] \in A[n]
    BY <2>1, <2>2
  <2>4. g[k + 1] = F[k][f[k]] /\ g[k + 1] \in A[k + 1]
    <3>1. k \in 0 .. k /\ k + 1 \in 0 .. k + 1
      OBVIOUS
    <3> QED
      BY <2>2, <2>3, <3>1 DEF Leads
  <2>5. ASSUME NEW n \in 0 .. k + 1 PROVE g[n] = IF n = 0 THEN start ELSE F[n - 1][g[n - 1]]
    <3>1. CASE n = k + 1
      BY <2>3, <2>4, <3>1
    <3>2. CASE n \in 0 .. k
      <4>1. f[n] = IF n = 0 THEN start ELSE F[n - 1][f[n - 1]]
        BY <2>1, <3>2
      <4> QED
        BY <2>3, <3>2, <4>1
    <3> QED
      BY <3>1, <3>2
  <2>6. \A n \in 0 .. k + 1 : g[n] \in A[n]
    <3>1. \A n \in 0 .. k + 1 : n \in 0 .. k \/ n = k + 1
      OBVIOUS
    <3> QED
      BY <2>3, <2>4, <3>1
  <2>7. g = [n \in 0 .. k + 1 |-> IF n = 0 THEN start ELSE F[n - 1][g[n - 1]]]
    BY <2>2, <2>5
  <2>8. Good(k + 1, g) /\ k + 1 \in 0 .. N
    BY <2>6, <2>7
  <2> QED
    BY <2>8
<1>3. N \in S
  <2> HIDE DEF S
  <2> QED
    BY <1>1, <1>2, UpTo_Induction
<1> QED
  BY <1>3 DEF Runs

\* Each state of a loop that begins in A[0] and whose body leads from A[n] to
\* A[n + 1] is where it should be.
LEMMA LoopKeeps ==
  ASSUME NEW N \in Nat, NEW A, NEW f, f[0] \in A[0],
         \A n \in 0 .. N - 1 : f[n] \in A[n] => f[n + 1] \in A[n + 1]
  PROVE  f[N] \in A[N]
<1>1. PICK S : S = { n \in 0 .. N : f[n] \in A[n] }
  OBVIOUS
<1>2. 0 \in S /\ \A n \in 0 .. N - 1 : n \in S => n + 1 \in S
  BY <1>1
<1> QED
  BY <1>1, <1>2, UpTo_Induction

-----------------------------------------------------------------------------
(* Powers of two.                                                          *)

\* A recursive function on the natural numbers exists and is unrolled.
LEMMA Unrolls ==
  ASSUME NEW F, NEW start \in Nat, \A n \in Nat : \A a \in Nat : F[n][a] \in Nat
  PROVE  \E f \in [Nat -> Nat] : f = [n \in Nat |-> IF n = 0 THEN start ELSE F[n - 1][f[n - 1]]]
<1>1. PICK A : A = [n \in Nat |-> Nat]
  OBVIOUS
<1>2. \A N \in Nat : \E f : Runs(f, N, start, F) /\ \A n \in 0 .. N : f[n] \in Nat
  <2>1. SUFFICES ASSUME NEW N \in Nat
                 PROVE  \E f : Runs(f, N, start, F) /\ \A n \in 0 .. N : f[n] \in Nat
    OBVIOUS
  <2>2. start \in A[0] /\ Leads(F, N, A)
    BY <1>1 DEF Leads
  <2>3. \E f : Runs(f, N, start, F) /\ \A n \in 0 .. N : f[n] \in A[n]
    BY <2>2, LoopExists
  <2>4. \A n \in 0 .. N : A[n] = Nat
    BY <1>1
  <2> QED
    BY <2>3, <2>4
<1>3. PICK r : r = [N \in Nat |-> CHOOSE f : Runs(f, N, start, F) /\ \A n \in 0 .. N : f[n] \in Nat]
  OBVIOUS
<1>4. ASSUME NEW N \in Nat PROVE Runs(r[N], N, start, F) /\ \A n \in 0 .. N : r[N][n] \in Nat
  BY <1>2, <1>3
<1>5. ASSUME NEW N \in Nat, NEW n \in 0 .. N
      PROVE  r[N][n] = IF n = 0 THEN start ELSE F[n - 1][r[N][n - 1]]
  <2>1. PICK f : f = r[N]
    OBVIOUS
  <2>2. f = [k \in 0 .. N |-> IF k = 0 THEN start ELSE F[k - 1][f[k - 1]]]
    BY <1>4, <2>1 DEF Runs
  <2>3. f[n] = IF n = 0 THEN start ELSE F[n - 1][f[n - 1]]
    BY <2>2
  <2> QED
    BY <2>1, <2>3
<1>6. ASSUME NEW N \in Nat PROVE r[N + 1][N] = r[N][N]
  <2>1. PICK S : S = { n \in 0 .. N : r[N + 1][n] = r[N][n] }
    OBVIOUS
  <2>2. \A n \in 0 .. N : r[N][n] = IF n = 0 THEN start ELSE F[n - 1][r[N][n - 1]]
    BY <1>5
  <2>3. \A n \in 0 .. N + 1 : r[N + 1][n] = IF n = 0 THEN start ELSE F[n - 1][r[N + 1][n - 1]]
    <3>1. N + 1 \in Nat
      OBVIOUS
    <3> QED
      BY <1>5, <3>1
  <2>4. 0 \in S
    BY <2>1, <2>2, <2>3
  <2>5. ASSUME NEW n \in 0 .. N - 1, n \in S PROVE n + 1 \in S
    <3>1. n + 1 \in 0 .. N /\ n + 1 \in 0 .. N + 1 /\ n + 1 # 0 /\ (n + 1) - 1 = n
      OBVIOUS
    <3>2. r[N][n + 1] = F[n][r[N][n]]
      BY <2>2, <3>1
    <3>3. r[N + 1][n + 1] = F[n][r[N + 1][n]]
      BY <2>3, <3>1
    <3> QED
      BY <2>1, <2>5, <3>1, <3>2, <3>3
  <2>6. \A n \in 0 .. N : n \in S
    <3>1. \A n \in 0 .. N - 1 : n \in S => n + 1 \in S
      BY <2>5
    <3> QED
      BY <2>4, <3>1, UpTo_Induction
  <2>7. N \in S
    BY <2>6
  <2> QED
    BY <2>1, <2>7
<1>7. PICK g : g = [n \in Nat |-> r[n][n]]
  OBVIOUS
<1>8. g \in [Nat -> Nat]
  BY <1>4, <1>7
<1>9. ASSUME NEW n \in Nat PROVE g[n] = IF n = 0 THEN start ELSE F[n - 1][g[n - 1]]
  <2>1. r[n][n] = IF n = 0 THEN start ELSE F[n - 1][r[n][n - 1]]
    <3>1. n \in 0 .. n
      OBVIOUS
    <3> QED
      BY <1>5, <3>1
  <2>2. CASE n = 0
    BY <1>7, <2>1, <2>2
  <2>3. CASE n # 0
    <3>1. n - 1 \in Nat /\ (n - 1) + 1 = n
      BY <2>3
    <3>2. r[n][n - 1] = r[n - 1][n - 1]
      BY <1>6, <3>1
    <3> QED
      BY <1>7, <2>1, <2>3, <3>1, <3>2
  <2> QED
    BY <2>2, <2>3
<1>10. g = [n \in Nat |-> IF n = 0 THEN start ELSE F[n - 1][g[n - 1]]]
  BY <1>7, <1>9
<1> QED
  BY <1>8, <1>10

LEMMA Powers ==
  /\ Power[0] = 1
  /\ \A n \in Nat : Power[n] \in Nat \ {0} /\ Power[n + 1] = 2 * Power[n]
<1>1. PICK F : F = [n \in Nat |-> [a \in Nat |-> 2 * a]]
  OBVIOUS
<1>2. \A n \in Nat : \A a \in Nat : F[n][a] = 2 * a /\ F[n][a] \in Nat
  BY <1>1
<1>3. PICK f \in [Nat -> Nat] : f = [n \in Nat |-> IF n = 0 THEN 1 ELSE F[n - 1][f[n - 1]]]
  <2>1. 1 \in Nat /\ \A n \in Nat : \A a \in Nat : F[n][a] \in Nat
    BY <1>2
  <2> QED
    BY <2>1, Unrolls
<1>4. f = [n \in Nat |-> IF n = 0 THEN 1 ELSE 2 * f[n - 1]]
  <2>1. ASSUME NEW n \in Nat PROVE f[n] = IF n = 0 THEN 1 ELSE 2 * f[n - 1]
    <3>1. f[n] = IF n = 0 THEN 1 ELSE F[n - 1][f[n - 1]]
      BY <1>3
    <3>2. n # 0 => n - 1 \in Nat /\ f[n - 1] \in Nat
      OBVIOUS
    <3> QED
      BY <1>2, <3>1, <3>2
  <2>2. f = [n \in Nat |-> f[n]]
    BY <1>3
  <2> QED
    BY <2>1, <2>2
<1>5. Power = [n \in Nat |-> IF n = 0 THEN 1 ELSE 2 * Power[n - 1]]
  BY <1>4 DEF Power
<1>6. Power[0] = 1 /\ \A n \in Nat : Power[n + 1] = 2 * Power[n]
  <2>1. \A n \in Nat : Power[n] = IF n = 0 THEN 1 ELSE 2 * Power[n - 1]
    BY <1>5
  <2>2. \A n \in Nat : n + 1 \in Nat /\ n + 1 # 0 /\ (n + 1) - 1 = n
    OBVIOUS
  <2> QED
    BY <2>1, <2>2
<1>7. \A N \in Nat : Power[N] \in Nat \ {0}
  <2>1. SUFFICES ASSUME NEW N \in Nat PROVE Power[N] \in Nat \ {0}
    OBVIOUS
  <2>2. PICK S : S = { n \in 0 .. N : Power[n] \in Nat \ {0} }
    OBVIOUS
  <2>3. 0 \in S
    BY <1>6, <2>2
  <2>4. ASSUME NEW n \in 0 .. N - 1, n \in S PROVE n + 1 \in S
    <3>1. Power[n + 1] = 2 * Power[n] /\ Power[n] \in Nat \ {0}
      BY <1>6, <2>2, <2>4
    <3> QED
      BY <2>2, <3>1
  <2>5. \A n \in 0 .. N : n \in S
    <3>1. \A n \in 0 .. N - 1 : n \in S => n + 1 \in S
      BY <2>4
    <3> QED
      BY <2>3, <3>1, UpTo_Induction
  <2> QED
    BY <2>2, <2>5
<1> QED
  BY <1>6, <1>7

LEMMA PowerSum ==
  ASSUME NEW a \in Nat, NEW b \in Nat
  PROVE  Power[a + b] = Power[a] * Power[b]
<1>1. PICK S : S = { n \in 0 .. b : Power[a + n] = Power[a] * Power[n] }
  OBVIOUS
<1>2. 0 \in S
  <2>1. Power[0] = 1 /\ Power[a] \in Nat /\ a + 0 = a
    BY Powers
  <2> QED
    BY <1>1, <2>1
<1>3. ASSUME NEW n \in 0 .. b - 1, n \in S PROVE n + 1 \in S
  <2>1. Power[a + n] = Power[a] * Power[n]
    BY <1>1, <1>3
  <2>2. Power[n + 1] = 2 * Power[n] /\ Power[n] \in Nat /\ Power[a] \in Nat
    BY Powers
  <2>3. Power[(a + n) + 1] = 2 * Power[a + n] /\ (a + n) + 1 = a + (n + 1)
    BY Powers
  <2>4. PICK x \in Nat, y \in Nat : x = Power[a] /\ y = Power[n]
    BY <2>2
  <2>5. 2 * (x * y) = x * (2 * y)
    OBVIOUS
  <2>6. Power[a + (n + 1)] = Power[a] * Power[n + 1]
    BY <2>1, <2>2, <2>3, <2>4, <2>5
  <2> QED
    BY <1>1, <2>6
<1>4. \A n \in 0 .. b : n \in S
  <2>1. \A n \in 0 .. b - 1 : n \in S => n + 1 \in S
    BY <1>3
  <2> QED
    BY <1>2, <2>1, UpTo_Induction
<1> QED
  BY <1>1, <1>4

LEMMA HalfPositive == Half \in Nat \ {0}
<1>1. BITS - 1 \in Nat
  BY BitsAssumption
<1> QED
  BY <1>1, Powers DEF Half

-----------------------------------------------------------------------------
(* The order of elements.                                                  *)

Element == [key : Floats, tag : Nat]

\* Where a number comes in the order: NaN behind all the others.
rank(x) == IF isnan(x) THEN Half ELSE number(x)

LEMMA Ranks ==
  ASSUME NEW x \in Floats
  PROVE  rank(x) \in Int /\ mag(x) \in 0 .. Half - 1 /\ (~isnan(x) => rank(x) < Half)
<1>1. x \in Int /\ Half \in Nat \ {0}
  BY HalfPositive DEF Floats
<1> HIDE DEF Half
<1>2. mag(x) \in 0 .. Half - 1
  BY <1>1 DEF mag
<1> QED
  BY <1>1, <1>2 DEF rank, number

LEMMA ComparesRanks ==
  ASSUME NEW a \in Floats, NEW b \in Floats
  PROVE  cmp_fp(a, b) = IF rank(a) < rank(b) THEN -1 ELSE IF rank(a) > rank(b) THEN 1 ELSE 0
<1>1. /\ rank(a) \in Int /\ (~isnan(a) => rank(a) < Half)
      /\ rank(b) \in Int /\ (~isnan(b) => rank(b) < Half)
  BY Ranks
<1>2. Half \in Nat
  BY HalfPositive
<1>3. CASE isnan(a) \/ isnan(b)
  BY <1>1, <1>2, <1>3 DEF cmp_fp, rank
<1>4. CASE ~isnan(a) /\ ~isnan(b)
  BY <1>1, <1>4 DEF cmp_fp, rank, cmp_int
<1> QED
  BY <1>3, <1>4

\* The comparison of elements is a total preorder: that of their ranks.
LEMMA ComparesElements ==
  ASSUME NEW l \in Element, NEW r \in Element
  PROVE  /\ rank(l.key) \in Int /\ rank(r.key) \in Int
         /\ cmp(l, r) = IF rank(l.key) < rank(r.key) THEN -1
                        ELSE IF rank(l.key) > rank(r.key) THEN 1 ELSE 0
BY Ranks, ComparesRanks DEF Element, cmp

Ordered(u) == \A i, j \in DOMAIN u : i <= j => rank(u[i].key) <= rank(u[j].key)

LEMMA SortedIsOrdered ==
  ASSUME NEW u \in Seq(Element)
  PROVE  is_sorted(u) <=> Ordered(u)
<1> DEFINE N == Len(u)
<1>1. N \in Nat /\ DOMAIN u = 1 .. N /\ \A i \in 1 .. N : u[i] \in Element
  OBVIOUS
<1>2. \A i \in 1 .. N : rank(u[i].key) \in Int
  BY <1>1, ComparesElements
<1>3. \A i, j \in 1 .. N : cmp(u[i], u[j]) <= 0 <=> rank(u[i].key) <= rank(u[j].key)
  <2>1. TAKE i, j \in 1 .. N
  <2>2. u[i] \in Element /\ u[j] \in Element
    BY <1>1
  <2>3. /\ rank(u[i].key) \in Int /\ rank(u[j].key) \in Int
        /\ cmp(u[i], u[j]) = IF rank(u[i].key) < rank(u[j].key) THEN -1
                             ELSE IF rank(u[i].key) > rank(u[j].key) THEN 1 ELSE 0
    BY <2>2, ComparesElements
  <2> QED
    BY <2>3
<1> HIDE DEF N
<1>4. ASSUME is_sorted(u), NEW i \in 1 .. N PROVE \A j \in i .. N : rank(u[i].key) <= rank(u[j].key)
  <2>1. PICK S : S = { d \in 0 .. N - i : rank(u[i].key) <= rank(u[i + d].key) }
    OBVIOUS
  <2>2. 0 \in S
    <3>1. i + 0 = i /\ 0 \in 0 .. N - i /\ rank(u[i].key) \in Int
      BY <1>1, <1>2
    <3> QED
      BY <2>1, <3>1
  <2>3. ASSUME NEW d \in 0 .. N - i - 1, d \in S PROVE d + 1 \in S
    <3>1. i + d \in 1 .. N - 1 /\ i + d \in 1 .. N /\ i + d + 1 \in 1 .. N
      BY <1>1
    <3>2. rank(u[i + d].key) <= rank(u[i + d + 1].key)
      <4>1. cmp(u[i + d], u[i + d + 1]) <= 0
        BY <1>4, <3>1 DEF is_sorted, N
      <4> QED
        BY <1>3, <3>1, <4>1
    <3>3. rank(u[i].key) <= rank(u[i + d].key)
      BY <2>1, <2>3
    <3>4. rank(u[i].key) <= rank(u[i + d + 1].key)
      BY <1>2, <3>1, <3>2, <3>3
    <3>5. i + (d + 1) = i + d + 1 /\ d + 1 \in 0 .. N - i
      BY <1>1
    <3> QED
      BY <2>1, <3>4, <3>5
  <2>4. \A d \in 0 .. N - i : d \in S
    <3>1. N - i \in Nat
      BY <1>1
    <3> QED
      BY <2>2, <2>3, <3>1, UpTo_Induction
  <2>5. TAKE j \in i .. N
  <2>6. j - i \in 0 .. N - i /\ i + (j - i) = j
    BY <1>1
  <2> QED
    BY <2>1, <2>4, <2>6
<1>5. ASSUME Ordered(u) PROVE is_sorted(u)
  <2>1. SUFFICES ASSUME NEW i \in 1 .. N - 1 PROVE cmp(u[i], u[i + 1]) <= 0
    BY DEF is_sorted, N
  <2>2. i \in 1 .. N /\ i + 1 \in 1 .. N /\ i <= i + 1
    BY <1>1
  <2> QED
    BY <1>1, <1>3, <1>5, <2>2 DEF Ordered
<1> QED
  BY <1>1, <1>4, <1>5 DEF Ordered

-----------------------------------------------------------------------------
(* search.c                                                                *)

\* Binary search finds where a set of positions that begins at 0 and has no
\* gap ends.
DownClosed(Left) == \A i, j \in Nat : i < j /\ j \in Left => i \in Left
Cornered(Left, len, a) ==
  /\ \A i \in 0 .. a.lo - 1 : i \in Left
  /\ \A i \in a.hi .. len - 1 : i \notin Left

LEMMA Halves ==
  ASSUME NEW len \in Nat, NEW Left \in SUBSET (0 .. len - 1), DownClosed(Left),
         NEW a \in [lo : 0 .. len, hi : 0 .. len], a.lo <= a.hi, Cornered(Left, len, a)
  PROVE  LET b == Halved(Left, a) IN
         /\ b \in [lo : 0 .. len, hi : 0 .. len] /\ b.lo <= b.hi /\ Cornered(Left, len, b)
         /\ a.lo = a.hi \/ b.hi - b.lo <= a.hi - a.lo - 1
         /\ a.lo = a.hi => b = a
<1> DEFINE b == Halved(Left, a)
<1>1. CASE a.lo = a.hi
  BY <1>1 DEF Halved
<1>2. CASE a.lo < a.hi
  <2>1. PICK mid : mid = a.lo + (a.hi - a.lo) \div 2
    OBVIOUS
  <2>2. mid \in a.lo .. a.hi - 1 /\ mid \in 0 .. len - 1
    BY <1>2, <2>1
  <2>3. CASE mid \in Left
    <3>1. b = [a EXCEPT !.lo = mid + 1]
      BY <1>2, <2>1, <2>3 DEF Halved
    <3>2. \A i \in 0 .. mid : i \in Left
      BY <2>2, <2>3 DEF DownClosed
    <3>3. b.lo = mid + 1 /\ b.hi = a.hi /\ b \in [lo : 0 .. len, hi : 0 .. len]
      BY <2>2, <3>1
    <3> HIDE DEF b
    <3>4. Cornered(Left, len, b)
      BY <2>2, <3>2, <3>3 DEF Cornered
    <3>5. b.lo <= b.hi /\ b.hi - b.lo <= a.hi - a.lo - 1
      BY <2>2, <3>3
    <3> QED
      BY <1>2, <3>3, <3>4, <3>5 DEF b
  <2>4. CASE mid \notin Left
    <3>1. b = [a EXCEPT !.hi = mid]
      BY <1>2, <2>1, <2>4 DEF Halved
    <3>2. \A i \in mid .. len - 1 : i \notin Left
      BY <2>2, <2>4 DEF DownClosed
    <3>3. b.lo = a.lo /\ b.hi = mid /\ b \in [lo : 0 .. len, hi : 0 .. len]
      BY <2>2, <3>1
    <3> HIDE DEF b
    <3>4. Cornered(Left, len, b)
      BY <3>2, <3>3 DEF Cornered
    <3>5. b.lo <= b.hi /\ b.hi - b.lo <= a.hi - a.lo - 1
      BY <2>2, <3>3
    <3> QED
      BY <1>2, <3>3, <3>4, <3>5 DEF b
  <2> QED
    BY <2>3, <2>4
<1> QED
  BY <1>1, <1>2

LEMMA BoundFinds ==
  ASSUME NEW len \in Nat, NEW Left \in SUBSET (0 .. len - 1), DownClosed(Left)
  PROVE  bound(Left, len) \in 0 .. len /\ Left = 0 .. bound(Left, len) - 1
<1> DEFINE step(a, i) == Halved(Left, a)
           start == [lo |-> 0, hi |-> len]
           U == [lo : 0 .. len, hi : 0 .. len]
           In(n, a) == /\ a.lo <= a.hi /\ Cornered(Left, len, a)
                       /\ a.hi - a.lo <= len - n
           A == [n \in 0 .. len |-> { a \in U : In(n, a) }]
           F == [n \in 0 .. len - 1 |-> [a \in A[n] |-> step(a, n)]]
<1>1. start \in A[0]
  <2>1. start \in U /\ In(0, start)
    BY DEF Cornered
  <2> QED
    BY <2>1
<1>2. ASSUME NEW n \in 0 .. len - 1, NEW a \in A[n] PROVE step(a, n) \in A[n + 1]
  <2>1. n \in 0 .. len /\ n + 1 \in 0 .. len
    OBVIOUS
  <2>2. a \in U /\ In(n, a)
    BY <2>1
  <2>3. PICK b : b = Halved(Left, a)
    OBVIOUS
  <2>4. /\ b \in U /\ b.lo <= b.hi /\ Cornered(Left, len, b)
        /\ a.lo = a.hi \/ b.hi - b.lo <= a.hi - a.lo - 1
        /\ a.lo = a.hi => b = a
    BY <2>2, <2>3, Halves
  <2>5. b.hi - b.lo <= len - (n + 1)
    BY <2>1, <2>2, <2>4
  <2> QED
    BY <2>1, <2>3, <2>4, <2>5
<1> HIDE DEF A
<1>3. Leads(F, len, A)
  BY <1>2 DEF Leads
<1> HIDE DEF F, step, start
<1>4. PICK f : Runs(f, len, start, F) /\ \A n \in 0 .. len : f[n] \in A[n]
  BY <1>1, <1>3, LoopExists
<1>5. f = [n \in 0 .. len |-> IF n = 0 THEN start ELSE step(f[n - 1], n - 1)]
  <2>1. ASSUME NEW n \in 0 .. len PROVE f[n] = IF n = 0 THEN start ELSE step(f[n - 1], n - 1)
    <3>1. CASE n = 0
      BY <1>4, <3>1 DEF Runs
    <3>2. CASE n # 0
      <4>1. n - 1 \in 0 .. len - 1 /\ n - 1 \in 0 .. len
        BY <3>2
      <4>2. f[n] = F[n - 1][f[n - 1]] /\ f[n - 1] \in A[n - 1]
        BY <1>4, <3>2, <4>1 DEF Runs
      <4> QED
        BY <3>2, <4>1, <4>2 DEF F
    <3> QED
      BY <3>1, <3>2
  <2> QED
    BY <1>4, <2>1 DEF Runs
<1>6. PICK g : /\ g = [n \in 0 .. len |-> IF n = 0 THEN start ELSE step(g[n - 1], n - 1)]
               /\ bound(Left, len) = g[len].lo
  BY <1>5 DEF bound, Loop, step, start
<1>7. g[len] \in A[len]
  <2>1. g[0] \in A[0]
    BY <1>1, <1>6
  <2>2. ASSUME NEW n \in 0 .. len - 1, g[n] \in A[n] PROVE g[n + 1] \in A[n + 1]
    <3>1. g[n + 1] = step(g[n], n)
      BY <1>6
    <3> QED
      BY <1>2, <2>2, <3>1
  <2> QED
    BY <2>1, <2>2, LoopKeeps
<1>8. PICK a : a = g[len] /\ a \in U /\ In(len, a)
  <2>1. A[len] = { a \in U : In(len, a) }
    BY DEF A
  <2> QED
    BY <1>7, <2>1
<1>9. a.lo = a.hi /\ a.lo \in 0 .. len
  BY <1>8
<1>10. \A i \in 0 .. len - 1 : i \in Left <=> i <= a.lo - 1
  BY <1>8, <1>9 DEF Cornered
<1>11. Left = 0 .. a.lo - 1
  <2>1. \A i \in 0 .. a.lo - 1 : i \in 0 .. len - 1 /\ i <= a.lo - 1
    BY <1>9
  <2>2. \A i \in 0 .. len - 1 : i <= a.lo - 1 => i \in 0 .. a.lo - 1
    BY <1>9
  <2> QED
    BY <1>10, <2>1, <2>2
<1> QED
  BY <1>6, <1>8, <1>9, <1>11

\* On a sorted span binary search does what the linear one does, and the two
\* bounds enclose the elements that are equal to the key.
LEMMA Searches ==
  ASSUME NEW u \in Seq(Element), NEW x \in Element, is_sorted(u)
  PROVE  /\ bsearch(u, x) = find(u, x)
         /\ upper_bound(u, x) - lower_bound(u, x) = count(u, x)
         /\ lower_bound(u, x) = Cardinality({ i \in DOMAIN u : cmp(u[i], x) < 0 })
<1>1. PICK n \in Nat : n = Len(u)
  OBVIOUS
<1>2. PICK r : r = [i \in 0 .. n - 1 |-> rank(get(u, i).key)]
  OBVIOUS
<1>3. PICK q \in Int : q = rank(x.key)
  BY ComparesElements
<1>4. \A i \in 0 .. n - 1 :
        /\ r[i] \in Int /\ i + 1 \in DOMAIN u /\ r[i] = rank(u[i + 1].key)
        /\ cmp(get(u, i), x) = IF r[i] < q THEN -1 ELSE IF r[i] > q THEN 1 ELSE 0
  <2>1. TAKE i \in 0 .. n - 1
  <2>2. i + 1 \in DOMAIN u /\ get(u, i) = u[i + 1] /\ u[i + 1] \in Element
    BY <1>1 DEF get
  <2> QED
    BY <1>2, <1>3, <2>2, ComparesElements
<1>5. \A i, j \in 0 .. n - 1 : i <= j => r[i] <= r[j]
  <2>1. Ordered(u)
    BY SortedIsOrdered
  <2>2. TAKE i, j \in 0 .. n - 1
  <2>3. i <= j => i + 1 <= j + 1
    OBVIOUS
  <2> QED
    BY <1>4, <2>1, <2>3 DEF Ordered
<1>6. /\ Lower(u, x) = { i \in 0 .. n - 1 : r[i] < q }
      /\ UpTo(u, x) = { i \in 0 .. n - 1 : r[i] <= q }
  <2>1. \A i \in 0 .. n - 1 : /\ cmp(get(u, i), x) < 0 <=> r[i] < q
                              /\ cmp(get(u, i), x) <= 0 <=> r[i] <= q
    BY <1>3, <1>4
  <2> QED
    BY <1>1, <2>1 DEF Lower, UpTo
<1>7. DownClosed(Lower(u, x)) /\ DownClosed(UpTo(u, x))
  BY <1>3, <1>4, <1>5, <1>6 DEF DownClosed
<1>8. PICK lo \in 0 .. n : lo = lower_bound(u, x) /\ Lower(u, x) = 0 .. lo - 1
  <2>1. Lower(u, x) \in SUBSET (0 .. n - 1)
    BY <1>6
  <2> QED
    BY <1>1, <1>7, <2>1, BoundFinds DEF lower_bound
<1>9. PICK hi \in 0 .. n : hi = upper_bound(u, x) /\ UpTo(u, x) = 0 .. hi - 1
  <2>1. UpTo(u, x) \in SUBSET (0 .. n - 1)
    BY <1>6
  <2> QED
    BY <1>1, <1>7, <2>1, BoundFinds DEF upper_bound
<1>10. /\ \A i \in 0 .. n - 1 : r[i] < q <=> i < lo
       /\ \A i \in 0 .. n - 1 : r[i] <= q <=> i < hi
  BY <1>6, <1>8, <1>9
<1>11. lo <= hi
  <2>1. SUFFICES ASSUME hi < lo PROVE FALSE
    OBVIOUS
  <2>2. hi \in 0 .. n - 1 /\ r[hi] \in Int
    BY <1>4, <2>1
  <2> QED
    BY <1>3, <1>10, <2>1, <2>2
<1>12. PICK E : E = { i \in 0 .. n - 1 : cmp(get(u, i), x) = 0 }
  OBVIOUS
<1>13. E = lo .. hi - 1
  <2>1. \A i \in 0 .. n - 1 : cmp(get(u, i), x) = 0 <=> i \in lo .. hi - 1
    BY <1>3, <1>4, <1>10
  <2>2. \A i \in lo .. hi - 1 : i \in 0 .. n - 1
    OBVIOUS
  <2> QED
    BY <1>12, <2>1, <2>2
<1>14. upper_bound(u, x) - lower_bound(u, x) = count(u, x)
  <2>1. count(u, x) = Cardinality(lo .. hi - 1)
    BY <1>1, <1>12, <1>13 DEF count
  <2>2. Cardinality(lo .. hi - 1) = IF lo > hi - 1 THEN 0 ELSE hi - 1 - lo + 1
    BY FS_Interval
  <2> QED
    BY <1>8, <1>9, <1>11, <2>1, <2>2
<1>15. lower_bound(u, x) = Cardinality({ i \in DOMAIN u : cmp(u[i], x) < 0 })
  <2>1. { i \in DOMAIN u : cmp(u[i], x) < 0 } = 1 .. lo
    <3>1. ASSUME NEW i \in 1 .. n PROVE cmp(u[i], x) < 0 <=> i <= lo
      <4>1. i - 1 \in 0 .. n - 1 /\ get(u, i - 1) = u[i]
        BY DEF get
      <4>2. cmp(u[i], x) < 0 <=> r[i - 1] < q
        BY <1>3, <1>4, <4>1
      <4> QED
        BY <1>10, <4>1, <4>2
    <3>2. DOMAIN u = 1 .. n /\ \A i \in 1 .. lo : i \in 1 .. n
      BY <1>1
    <3> QED
      BY <3>1, <3>2
  <2>2. Cardinality(1 .. lo) = IF 1 > lo THEN 0 ELSE lo - 1 + 1
    BY FS_Interval
  <2>3. Cardinality(1 .. lo) = lo
    BY <2>2
  <2> QED
    BY <1>8, <2>1, <2>3
<1>16. bsearch(u, x) = find(u, x)
  <2>1. find(u, x) = FirstOr(E)
    BY <1>1, <1>12 DEF find
  <2>2. bsearch(u, x) = IF lo < n /\ lo \in E THEN lo ELSE -1
    BY <1>1, <1>8, <1>12 DEF bsearch
  <2>3. CASE lo < hi
    <3>1. lo \in E /\ \A i \in E : lo <= i
      BY <1>13, <2>3
    <3>2. FirstOr(E) = lo
      BY <1>13, <3>1 DEF FirstOr, Min
    <3> QED
      BY <2>1, <2>2, <2>3, <3>1, <3>2
  <2>4. CASE lo = hi
    <3>1. E = {} /\ lo \notin E
      BY <1>13, <2>4
    <3> QED
      BY <2>1, <2>2, <3>1 DEF FirstOr
  <2> QED
    BY <1>11, <2>3, <2>4
<1> QED
  BY <1>14, <1>15, <1>16

\* minmax.c: the first of the smallest elements, and the first of the largest.
LEMMA Minimum ==
  ASSUME NEW u \in Seq(Element), u # <<>>
  PROVE  /\ min_element(u) \in 0 .. Len(u) - 1
         /\ \A i \in 0 .. Len(u) - 1 :
              cmp(get(u, min_element(u)), get(u, i)) <= (IF i < min_element(u) THEN -1 ELSE 0)
<1>a. PICK len \in Nat \ {0} : len = Len(u)
  OBVIOUS
<1>b. PICK r : r = [i \in 0 .. len - 1 |-> rank(get(u, i).key)]
  OBVIOUS
<1>c. \A i, j \in 0 .. len - 1 :
        /\ r[i] \in Int /\ r[j] \in Int
        /\ cmp(get(u, i), get(u, j)) = IF r[i] < r[j] THEN -1 ELSE IF r[i] > r[j] THEN 1 ELSE 0
  <2>1. TAKE i, j \in 0 .. len - 1
  <2>2. get(u, i) \in Element /\ get(u, j) \in Element
    BY <1>a DEF get
  <2> QED
    BY <1>b, <2>2, ComparesElements
<1> DEFINE step(best, i) == IF cmp(get(u, i), get(u, best)) < 0 THEN i ELSE best
           start == 0
           In(n, b) == /\ b = 0 \/ b < n
                       /\ \A i \in 0 .. n - 1 : IF i < b THEN r[b] < r[i] ELSE r[b] <= r[i]
           A == [n \in 0 .. len |-> { b \in 0 .. len - 1 : In(n, b) }]
           F == [n \in 0 .. len - 1 |-> [a \in A[n] |-> step(a, n)]]
<1>1. start \in A[0]
  OBVIOUS
<1>2. ASSUME NEW n \in 0 .. len - 1, NEW b \in A[n] PROVE step(b, n) \in A[n + 1]
  <2>1. n \in 0 .. len /\ n + 1 \in 0 .. len
    OBVIOUS
  <2>2. b \in 0 .. len - 1 /\ In(n, b)
    BY <2>1
  <2>3. r[b] \in Int /\ r[n] \in Int /\ \A i \in 0 .. n - 1 : i \in 0 .. len - 1 /\ r[i] \in Int
    BY <1>c, <2>2
  <2>4. CASE r[n] < r[b]
    <3>1. step(b, n) = n
      BY <1>c, <2>2, <2>4
    <3>2. b # n
      BY <2>3, <2>4
    <3>3. In(n + 1, n)
      BY <2>2, <2>3, <2>4
    <3> QED
      BY <2>1, <3>1, <3>3
  <2>5. CASE ~(r[n] < r[b])
    <3>1. step(b, n) = b
      BY <1>c, <2>2, <2>5
    <3>2. In(n + 1, b)
      BY <2>2, <2>3, <2>5
    <3> QED
      BY <2>1, <2>2, <3>1, <3>2
  <2> QED
    BY <2>4, <2>5
<1> HIDE DEF A
<1>3. Leads(F, len, A)
  BY <1>2 DEF Leads
<1> HIDE DEF F, step, start
<1>4. PICK f : Runs(f, len, start, F) /\ \A n \in 0 .. len : f[n] \in A[n]
  BY <1>1, <1>3, LoopExists
<1>5. f = [n \in 0 .. len |-> IF n = 0 THEN start ELSE step(f[n - 1], n - 1)]
  <2>1. ASSUME NEW n \in 0 .. len PROVE f[n] = IF n = 0 THEN start ELSE step(f[n - 1], n - 1)
    <3>1. CASE n = 0
      BY <1>4, <3>1 DEF Runs
    <3>2. CASE n # 0
      <4>1. n - 1 \in 0 .. len - 1 /\ n - 1 \in 0 .. len
        BY <3>2
      <4>2. f[n] = F[n - 1][f[n - 1]] /\ f[n - 1] \in A[n - 1]
        BY <1>4, <3>2, <4>1 DEF Runs
      <4> QED
        BY <3>2, <4>1, <4>2 DEF F
    <3> QED
      BY <3>1, <3>2
  <2> QED
    BY <1>4, <2>1 DEF Runs
<1>6. PICK g : /\ g = [n \in 0 .. len |-> IF n = 0 THEN start ELSE step(g[n - 1], n - 1)]
               /\ min_element(u) = g[len]
  BY <1>a, <1>5 DEF min_element, Loop, step, start
<1>7. g[len] \in A[len]
  <2>1. g[0] \in A[0]
    BY <1>1, <1>6
  <2>2. ASSUME NEW n \in 0 .. len - 1, g[n] \in A[n] PROVE g[n + 1] \in A[n + 1]
    <3>1. g[n + 1] = step(g[n], n)
      BY <1>6
    <3> QED
      BY <1>2, <2>2, <3>1
  <2> QED
    BY <2>1, <2>2, LoopKeeps
<1>8. PICK b \in 0 .. len - 1 : b = min_element(u) /\ In(len, b)
  <2>1. A[len] = { b \in 0 .. len - 1 : In(len, b) }
    BY DEF A
  <2> QED
    BY <1>6, <1>7, <2>1
<1>9. ASSUME NEW i \in 0 .. len - 1 PROVE cmp(get(u, b), get(u, i)) <= (IF i < b THEN -1 ELSE 0)
  BY <1>c, <1>8
<1> QED
  BY <1>a, <1>8, <1>9

\* The largest.
LEMMA Maximum ==
  ASSUME NEW u \in Seq(Element), u # <<>>
  PROVE  /\ max_element(u) \in 0 .. Len(u) - 1
         /\ \A i \in 0 .. Len(u) - 1 :
              cmp(get(u, max_element(u)), get(u, i)) >= (IF i < max_element(u) THEN 1 ELSE 0)
<1>a. PICK len \in Nat \ {0} : len = Len(u)
  OBVIOUS
<1>b. PICK r : r = [i \in 0 .. len - 1 |-> rank(get(u, i).key)]
  OBVIOUS
<1>c. \A i, j \in 0 .. len - 1 :
        /\ r[i] \in Int /\ r[j] \in Int
        /\ cmp(get(u, i), get(u, j)) = IF r[i] < r[j] THEN -1 ELSE IF r[i] > r[j] THEN 1 ELSE 0
  <2>1. TAKE i, j \in 0 .. len - 1
  <2>2. get(u, i) \in Element /\ get(u, j) \in Element
    BY <1>a DEF get
  <2> QED
    BY <1>b, <2>2, ComparesElements
<1> DEFINE step(best, i) == IF cmp(get(u, i), get(u, best)) > 0 THEN i ELSE best
           start == 0
           In(n, b) == /\ b = 0 \/ b < n
                       /\ \A i \in 0 .. n - 1 : IF i < b THEN r[b] > r[i] ELSE r[b] >= r[i]
           A == [n \in 0 .. len |-> { b \in 0 .. len - 1 : In(n, b) }]
           F == [n \in 0 .. len - 1 |-> [a \in A[n] |-> step(a, n)]]
<1>1. start \in A[0]
  OBVIOUS
<1>2. ASSUME NEW n \in 0 .. len - 1, NEW b \in A[n] PROVE step(b, n) \in A[n + 1]
  <2>1. n \in 0 .. len /\ n + 1 \in 0 .. len
    OBVIOUS
  <2>2. b \in 0 .. len - 1 /\ In(n, b)
    BY <2>1
  <2>3. r[b] \in Int /\ r[n] \in Int /\ \A i \in 0 .. n - 1 : i \in 0 .. len - 1 /\ r[i] \in Int
    BY <1>c, <2>2
  <2>4. CASE r[n] > r[b]
    <3>1. step(b, n) = n
      BY <1>c, <2>2, <2>4
    <3>2. b # n
      BY <2>3, <2>4
    <3>3. In(n + 1, n)
      BY <2>2, <2>3, <2>4
    <3> QED
      BY <2>1, <3>1, <3>3
  <2>5. CASE ~(r[n] > r[b])
    <3>1. step(b, n) = b
      BY <1>c, <2>2, <2>5
    <3>2. In(n + 1, b)
      BY <2>2, <2>3, <2>5
    <3> QED
      BY <2>1, <2>2, <3>1, <3>2
  <2> QED
    BY <2>4, <2>5
<1> HIDE DEF A
<1>3. Leads(F, len, A)
  BY <1>2 DEF Leads
<1> HIDE DEF F, step, start
<1>4. PICK f : Runs(f, len, start, F) /\ \A n \in 0 .. len : f[n] \in A[n]
  BY <1>1, <1>3, LoopExists
<1>5. f = [n \in 0 .. len |-> IF n = 0 THEN start ELSE step(f[n - 1], n - 1)]
  <2>1. ASSUME NEW n \in 0 .. len PROVE f[n] = IF n = 0 THEN start ELSE step(f[n - 1], n - 1)
    <3>1. CASE n = 0
      BY <1>4, <3>1 DEF Runs
    <3>2. CASE n # 0
      <4>1. n - 1 \in 0 .. len - 1 /\ n - 1 \in 0 .. len
        BY <3>2
      <4>2. f[n] = F[n - 1][f[n - 1]] /\ f[n - 1] \in A[n - 1]
        BY <1>4, <3>2, <4>1 DEF Runs
      <4> QED
        BY <3>2, <4>1, <4>2 DEF F
    <3> QED
      BY <3>1, <3>2
  <2> QED
    BY <1>4, <2>1 DEF Runs
<1>6. PICK g : /\ g = [n \in 0 .. len |-> IF n = 0 THEN start ELSE step(g[n - 1], n - 1)]
               /\ max_element(u) = g[len]
  BY <1>a, <1>5 DEF max_element, Loop, step, start
<1>7. g[len] \in A[len]
  <2>1. g[0] \in A[0]
    BY <1>1, <1>6
  <2>2. ASSUME NEW n \in 0 .. len - 1, g[n] \in A[n] PROVE g[n + 1] \in A[n + 1]
    <3>1. g[n + 1] = step(g[n], n)
      BY <1>6
    <3> QED
      BY <1>2, <2>2, <3>1
  <2> QED
    BY <2>1, <2>2, LoopKeeps
<1>8. PICK b \in 0 .. len - 1 : b = max_element(u) /\ In(len, b)
  <2>1. A[len] = { b \in 0 .. len - 1 : In(len, b) }
    BY DEF A
  <2> QED
    BY <1>6, <1>7, <2>1
<1>9. ASSUME NEW i \in 0 .. len - 1 PROVE cmp(get(u, b), get(u, i)) >= (IF i < b THEN 1 ELSE 0)
  BY <1>c, <1>8
<1> QED
  BY <1>a, <1>8, <1>9

-----------------------------------------------------------------------------
(* Spans.                                                                  *)

Spans == Seq(Element)

\* t holds the elements of u.
Perm(t, u) == t \in Spans /\ Len(t) = Len(u) /\ ToSet(t) = ToSet(u)

LEMMA Positions ==
  ASSUME NEW u \in Spans
  PROVE  /\ Len(u) \in Nat /\ DOMAIN u = 1 .. Len(u)
         /\ \A k \in 1 .. Len(u) : u[k] \in Element
         /\ \A i \in 0 .. Len(u) - 1 : i + 1 \in 1 .. Len(u) /\ get(u, i) = u[i + 1] /\ get(u, i) \in Element
BY DEF Spans, get

LEMMA SameSpan ==
  ASSUME NEW a \in Spans, NEW b \in Spans, Len(a) = Len(b), \A k \in 1 .. Len(a) : a[k] = b[k]
  PROVE  a = b
BY DEF Spans

LEMMA Members ==
  ASSUME NEW u \in Spans, NEW x
  PROVE  x \in ToSet(u) <=> \E k \in 1 .. Len(u) : x = u[k]
<1>1. DOMAIN u = 1 .. Len(u)
  BY Positions
<1> QED
  BY <1>1 DEF ToSet

\* The elements of t are some of those of u.
Within(t, u) == \A k \in 1 .. Len(t) : \E m \in 1 .. Len(u) : t[k] = u[m]

LEMMA SameMembers ==
  ASSUME NEW t \in Spans, NEW u \in Spans, Within(t, u), Within(u, t)
  PROVE  ToSet(t) = ToSet(u)
<1>1. ASSUME NEW x, x \in ToSet(t) PROVE x \in ToSet(u)
  <2>1. PICK k \in 1 .. Len(t) : x = t[k]
    BY <1>1, Members
  <2>2. PICK m \in 1 .. Len(u) : t[k] = u[m]
    BY DEF Within
  <2> QED
    BY <2>1, <2>2, Members
<1>2. ASSUME NEW x, x \in ToSet(u) PROVE x \in ToSet(t)
  <2>1. PICK k \in 1 .. Len(u) : x = u[k]
    BY <1>2, Members
  <2>2. PICK m \in 1 .. Len(t) : u[k] = t[m]
    BY DEF Within
  <2> QED
    BY <2>1, <2>2, Members
<1> QED
  BY <1>1, <1>2

LEMMA MakeSpan ==
  ASSUME NEW n \in Nat, NEW t, t = [k \in 1 .. n |-> t[k]], \A k \in 1 .. n : t[k] \in Element
  PROVE  t \in Spans /\ Len(t) = n
<1>1. t \in [1 .. n -> Element]
  OBVIOUS
<1> QED
  BY <1>1 DEF Spans

LEMMA SetSpan ==
  ASSUME NEW u \in Spans, NEW i \in 0 .. Len(u) - 1, NEW x \in Element
  PROVE  /\ set(u, i, x) \in Spans /\ Len(set(u, i, x)) = Len(u)
         /\ \A k \in 1 .. Len(u) : set(u, i, x)[k] = IF k = i + 1 THEN x ELSE u[k]
BY DEF set, Spans

LEMMA SubSpan ==
  ASSUME NEW u \in Spans, NEW off \in Nat, NEW cnt \in Nat, off + cnt <= Len(u)
  PROVE  /\ sub(u, off, cnt) \in Spans /\ Len(sub(u, off, cnt)) = cnt
         /\ \A k \in 1 .. cnt : sub(u, off, cnt)[k] = u[off + k]
<1>1. sub(u, off, cnt) \in Spans /\ Len(sub(u, off, cnt)) = cnt
  BY DEF sub, Spans
<1>2. ASSUME NEW k \in 1 .. cnt PROVE sub(u, off, cnt)[k] = u[off + k]
  <2>1. (off + 1) + k - 1 = off + k
    OBVIOUS
  <2> QED
    BY <2>1 DEF sub, Spans
<1> QED
  BY <1>1, <1>2

LEMMA SwapSpan ==
  ASSUME NEW u \in Spans, NEW i \in 0 .. Len(u) - 1, NEW j \in 0 .. Len(u) - 1
  PROVE  /\ swap(u, i, j) \in Spans /\ Len(swap(u, i, j)) = Len(u)
         /\ \A k \in 1 .. Len(u) :
              swap(u, i, j)[k] = IF k = j + 1 THEN u[i + 1] ELSE IF k = i + 1 THEN u[j + 1] ELSE u[k]
         /\ Perm(swap(u, i, j), u)
<1>1. PICK x \in Element : x = get(u, j) /\ x = u[j + 1]
  BY Positions
<1>2. PICK y \in Element : y = get(u, i) /\ y = u[i + 1]
  BY Positions
<1>3. PICK v \in Spans : /\ v = set(u, i, x) /\ Len(v) = Len(u)
                         /\ \A k \in 1 .. Len(u) : v[k] = IF k = i + 1 THEN x ELSE u[k]
  BY SetSpan
<1>4. PICK w \in Spans : /\ w = set(v, j, y) /\ Len(w) = Len(u)
                         /\ \A k \in 1 .. Len(u) : w[k] = IF k = j + 1 THEN y ELSE v[k]
  <2>1. j \in 0 .. Len(v) - 1 /\ Len(v) = Len(u)
    BY <1>3
  <2> QED
    BY <2>1, SetSpan
<1>5. swap(u, i, j) = w
  BY <1>1, <1>2, <1>3, <1>4 DEF swap
<1>6. \A k \in 1 .. Len(u) : w[k] = IF k = j + 1 THEN u[i + 1] ELSE IF k = i + 1 THEN u[j + 1] ELSE u[k]
  BY <1>1, <1>2, <1>3, <1>4
<1>7. ToSet(w) = ToSet(u)
  <2>1. DOMAIN w = 1 .. Len(u) /\ DOMAIN u = 1 .. Len(u) /\ i + 1 \in 1 .. Len(u) /\ j + 1 \in 1 .. Len(u)
    BY <1>4, Positions
  <2>2. Within(w, u)
    BY <1>4, <1>6, <2>1 DEF Within
  <2>3. w[i + 1] = u[j + 1] /\ w[j + 1] = u[i + 1]
    BY <1>6, <2>1
  <2>4. Within(u, w)
    <3>1. SUFFICES ASSUME NEW k \in 1 .. Len(u) PROVE \E m \in 1 .. Len(u) : u[k] = w[m]
      BY <1>4 DEF Within
    <3>2. CASE k = i + 1
      BY <2>1, <2>3, <3>2
    <3>3. CASE k = j + 1
      BY <2>1, <2>3, <3>3
    <3>4. CASE k # i + 1 /\ k # j + 1
      BY <1>6, <3>4
    <3> QED
      BY <3>2, <3>3, <3>4
  <2> QED
    BY <2>2, <2>4, SameMembers
<1> QED
  BY <1>4, <1>5, <1>6, <1>7 DEF Perm

LEMMA PermTrans ==
  ASSUME NEW t, NEW u, NEW v, Perm(t, u), Perm(u, v)
  PROVE  Perm(t, v)
BY DEF Perm

\* A span whose tags are its positions, and the elements of another one.
Numbered(u) == u \in Spans /\ \A i \in DOMAIN u : u[i].tag = i

-----------------------------------------------------------------------------
(* transform.c: what moves every element.                                  *)

Fits(u, p) == /\ p.elem \in Element
              /\ p.at = -1 \/ p.at \in 0 .. Len(u) - 1

LEMMA Dereferenced ==
  ASSUME NEW u \in Spans, NEW p, Fits(u, p)
  PROVE  Deref(u, p) \in Element
BY Positions DEF Deref, Fits

\* fill: the element is written over itself, too.
LEMMA Fills ==
  ASSUME NEW u \in Spans, NEW p, Fits(u, p)
  PROVE  /\ fill(u, p) \in Spans /\ Len(fill(u, p)) = Len(u)
         /\ \A k \in 1 .. Len(u) : fill(u, p)[k] = Deref(u, p)
<1>a. PICK len \in Nat : len = Len(u)
  BY Positions
<1>b. PICK x \in Element : x = Deref(u, p)
  BY Dereferenced
<1> DEFINE step(t, i) == set(t, i, Deref(t, p))
           start == u
           In(n, t) == /\ Len(t) = len
                       /\ \A k \in 1 .. len : t[k] = IF k <= n THEN x ELSE u[k]
           A == [n \in 0 .. len |-> { t \in Spans : In(n, t) }]
           F == [n \in 0 .. len - 1 |-> [a \in A[n] |-> step(a, n)]]
<1>1. start \in A[0]
  BY <1>a, Positions
<1>2. ASSUME NEW n \in 0 .. len - 1, NEW t \in A[n] PROVE step(t, n) \in A[n + 1]
  <2>1. n \in 0 .. len /\ n + 1 \in 0 .. len
    OBVIOUS
  <2>2. t \in Spans /\ In(n, t)
    BY <2>1
  <2>3. Deref(t, p) = x
    <3>1. CASE p.at = -1
      BY <1>b, <3>1 DEF Deref
    <3>2. CASE p.at \in 0 .. len - 1
      <4>1. p.at + 1 \in 1 .. len /\ p.at # -1
        BY <3>2
      <4>2. t[p.at + 1] = x \/ t[p.at + 1] = u[p.at + 1]
        BY <2>2, <4>1
      <4>3. x = u[p.at + 1]
        BY <1>b, <4>1 DEF Deref, get
      <4> QED
        BY <4>1, <4>2, <4>3 DEF Deref, get
    <3> QED
      BY <1>a, <3>1, <3>2 DEF Fits
  <2>4. PICK v : v = set(t, n, x)
    OBVIOUS
  <2>5. v \in Spans /\ Len(v) = len /\ \A k \in 1 .. len : v[k] = IF k = n + 1 THEN x ELSE t[k]
    BY <2>2, <2>4, SetSpan
  <2>6. In(n + 1, v)
    BY <2>2, <2>5
  <2> QED
    BY <2>1, <2>3, <2>4, <2>5, <2>6
<1> HIDE DEF A
<1>3. Leads(F, len, A)
  BY <1>2 DEF Leads
<1> HIDE DEF F, step, start
<1>4. PICK f : Runs(f, len, start, F) /\ \A n \in 0 .. len : f[n] \in A[n]
  BY <1>1, <1>3, LoopExists
<1>5. f = [n \in 0 .. len |-> IF n = 0 THEN start ELSE step(f[n - 1], n - 1)]
  <2>1. ASSUME NEW n \in 0 .. len PROVE f[n] = IF n = 0 THEN start ELSE step(f[n - 1], n - 1)
    <3>1. CASE n = 0
      BY <1>4, <3>1 DEF Runs
    <3>2. CASE n # 0
      <4>1. n - 1 \in 0 .. len - 1 /\ n - 1 \in 0 .. len
        BY <3>2
      <4>2. f[n] = F[n - 1][f[n - 1]] /\ f[n - 1] \in A[n - 1]
        BY <1>4, <3>2, <4>1 DEF Runs
      <4> QED
        BY <3>2, <4>1, <4>2 DEF F
    <3> QED
      BY <3>1, <3>2
  <2> QED
    BY <1>4, <2>1 DEF Runs
<1>6. PICK g : /\ g = [n \in 0 .. len |-> IF n = 0 THEN start ELSE step(g[n - 1], n - 1)]
               /\ fill(u, p) = g[len]
  BY <1>a, <1>5 DEF fill, Loop, step, start
<1>7. g[len] \in A[len]
  <2>1. g[0] \in A[0]
    BY <1>1, <1>6
  <2>2. ASSUME NEW n \in 0 .. len - 1, g[n] \in A[n] PROVE g[n + 1] \in A[n + 1]
    <3>1. g[n + 1] = step(g[n], n)
      BY <1>6
    <3> QED
      BY <1>2, <2>2, <3>1
  <2> QED
    BY <2>1, <2>2, LoopKeeps
<1>8. g[len] \in Spans /\ In(len, g[len])
  <2>1. A[len] = { t \in Spans : In(len, t) }
    BY DEF A
  <2> QED
    BY <1>7, <2>1
<1> QED
  BY <1>a, <1>b, <1>6, <1>8

LEMMA Transforms ==
  ASSUME NEW u \in Spans, NEW F \in [Floats -> Floats]
  PROVE  /\ transform(u, F) \in Spans /\ Len(transform(u, F)) = Len(u)
         /\ \A k \in 1 .. Len(u) : transform(u, F)[k].key = F[u[k].key]
<1>1. PICK t : t = transform(u, F)
  OBVIOUS
<1>2. DOMAIN u = 1 .. Len(u) /\ Len(u) \in Nat
  BY Positions
<1>3. t = [k \in 1 .. Len(u) |-> [u[k] EXCEPT !.key = F[@]]]
  BY <1>1, <1>2 DEF transform
<1>4. ASSUME NEW k \in 1 .. Len(u) PROVE t[k] \in Element /\ t[k].key = F[u[k].key]
  <2>1. u[k] \in Element /\ t[k] = [u[k] EXCEPT !.key = F[@]]
    BY <1>3, Positions
  <2> QED
    BY <2>1 DEF Element
<1>5. t = [k \in 1 .. Len(u) |-> t[k]]
  BY <1>3
<1> QED
  BY <1>1, <1>2, <1>4, <1>5, MakeSpan

LEMMA Copies ==
  ASSUME NEW u \in Spans, NEW to \in Nat, NEW from \in Nat, NEW n \in Nat,
         to + n <= Len(u), from + n <= Len(u)
  PROVE  copy(u, to, from, n) \in Spans /\ Len(copy(u, to, from, n)) = Len(u)
<1>1. DOMAIN u = 1 .. Len(u) /\ Len(u) \in Nat /\ \A k \in 1 .. Len(u) : u[k] \in Element
  BY Positions
<1>2. \A i \in 1 .. Len(u) : to < i /\ i <= to + n => from + (i - to) \in 1 .. Len(u)
  BY <1>1
<1>3. \A i \in 1 .. Len(u) : (IF to < i /\ i <= to + n THEN u[from + (i - to)] ELSE u[i]) \in Element
  BY <1>1, <1>2
<1> QED
  BY <1>1, <1>3 DEF copy, Spans

\* reverse: the pairs are swapped from the ends to the middle.
LEMMA Reverses ==
  ASSUME NEW u \in Spans
  PROVE  /\ reverse(u) \in Spans /\ Len(reverse(u)) = Len(u)
         /\ \A k \in 1 .. Len(u) : reverse(u)[k] = u[Len(u) - k + 1]
<1>a. PICK L \in Nat : L = Len(u)
  BY Positions
<1>b. PICK len \in Nat : len = L \div 2 /\ 2 * len <= L /\ L <= 2 * len + 1
  BY DivMod
<1> DEFINE step(t, left) == swap(t, left, L - 1 - left)
           start == u
           In(n, t) == /\ Len(t) = L
                       /\ \A k \in 1 .. L : t[k] = IF k <= n \/ k > L - n THEN u[L - k + 1] ELSE u[k]
           A == [n \in 0 .. len |-> { t \in Spans : In(n, t) }]
           F == [n \in 0 .. len - 1 |-> [a \in A[n] |-> step(a, n)]]
<1>1. start \in A[0]
  BY <1>a, Positions
<1>2. ASSUME NEW n \in 0 .. len - 1, NEW t \in A[n] PROVE step(t, n) \in A[n + 1]
  <2>1. /\ n \in 0 .. len /\ n + 1 \in 0 .. len /\ n \in 0 .. L - 1 /\ L - 1 - n \in 0 .. L - 1
        /\ n + 1 < L - n /\ n + 1 \in 1 .. L /\ L - n \in 1 .. L
    BY <1>b
  <2>2. t \in Spans /\ In(n, t)
    BY <2>1
  <2>3. PICK v : v = swap(t, n, L - 1 - n)
    OBVIOUS
  <2>4. PICK j \in 0 .. L - 1 : j = L - 1 - n
    BY <2>1
  <2>5. /\ v \in Spans /\ Len(v) = L
        /\ \A k \in 1 .. L : v[k] = IF k = j + 1 THEN t[n + 1] ELSE IF k = n + 1 THEN t[j + 1] ELSE t[k]
    <3>1. v = swap(t, n, j) /\ Len(t) = L /\ n \in 0 .. Len(t) - 1 /\ j \in 0 .. Len(t) - 1
      BY <2>1, <2>2, <2>3, <2>4
    <3>2. /\ swap(t, n, j) \in Spans /\ Len(swap(t, n, j)) = Len(t)
          /\ \A k \in 1 .. Len(t) : swap(t, n, j)[k] =
               IF k = j + 1 THEN t[n + 1] ELSE IF k = n + 1 THEN t[j + 1] ELSE t[k]
      BY <2>2, <3>1, SwapSpan
    <3> QED
      BY <3>1, <3>2
  <2>6. t[n + 1] = u[n + 1] /\ t[j + 1] = u[j + 1] /\ j + 1 = L - n
    BY <2>1, <2>2, <2>4
  <2>7. ASSUME NEW k \in 1 .. L
        PROVE  v[k] = IF k <= n + 1 \/ k > L - (n + 1) THEN u[L - k + 1] ELSE u[k]
    <3>1. CASE k = L - n
      <4>1. v[k] = u[n + 1] /\ L - k + 1 = n + 1 /\ k > L - (n + 1)
        BY <2>1, <2>5, <2>6, <3>1
      <4> QED
        BY <4>1
    <3>2. CASE k = n + 1
      <4>1. v[k] = u[j + 1] /\ L - k + 1 = j + 1
        BY <2>1, <2>5, <2>6, <3>2
      <4> QED
        BY <3>2, <4>1
    <3>3. CASE k # L - n /\ k # n + 1
      <4>1. v[k] = t[k]
        BY <2>5, <2>6, <3>3
      <4>2. (k <= n + 1 \/ k > L - (n + 1)) <=> (k <= n \/ k > L - n)
        BY <2>1, <3>3
      <4> QED
        BY <2>2, <4>1, <4>2
    <3> QED
      BY <3>1, <3>2, <3>3
  <2> QED
    BY <2>1, <2>3, <2>5, <2>7
<1> HIDE DEF A
<1>3. Leads(F, len, A)
  BY <1>2 DEF Leads
<1> HIDE DEF F, step, start
<1>4. PICK f : Runs(f, len, start, F) /\ \A n \in 0 .. len : f[n] \in A[n]
  BY <1>1, <1>3, LoopExists
<1>5. f = [n \in 0 .. len |-> IF n = 0 THEN start ELSE step(f[n - 1], n - 1)]
  <2>1. ASSUME NEW n \in 0 .. len PROVE f[n] = IF n = 0 THEN start ELSE step(f[n - 1], n - 1)
    <3>1. CASE n = 0
      BY <1>4, <3>1 DEF Runs
    <3>2. CASE n # 0
      <4>1. n - 1 \in 0 .. len - 1 /\ n - 1 \in 0 .. len
        BY <3>2
      <4>2. f[n] = F[n - 1][f[n - 1]] /\ f[n - 1] \in A[n - 1]
        BY <1>4, <3>2, <4>1 DEF Runs
      <4> QED
        BY <3>2, <4>1, <4>2 DEF F
    <3> QED
      BY <3>1, <3>2
  <2> QED
    BY <1>4, <2>1 DEF Runs
<1>6. PICK g : /\ g = [n \in 0 .. len |-> IF n = 0 THEN start ELSE step(g[n - 1], n - 1)]
               /\ reverse(u) = g[len]
  BY <1>a, <1>b, <1>5 DEF reverse, Loop, step, start
<1>7. g[len] \in A[len]
  <2>1. g[0] \in A[0]
    BY <1>1, <1>6
  <2>2. ASSUME NEW n \in 0 .. len - 1, g[n] \in A[n] PROVE g[n + 1] \in A[n + 1]
    <3>1. g[n + 1] = step(g[n], n)
      BY <1>6
    <3> QED
      BY <1>2, <2>2, <3>1
  <2> QED
    BY <2>1, <2>2, LoopKeeps
<1>8. g[len] \in Spans /\ In(len, g[len])
  <2>1. A[len] = { t \in Spans : In(len, t) }
    BY DEF A
  <2> QED
    BY <1>7, <2>1
<1>9. \A k \in 1 .. L : g[len][k] = u[L - k + 1]
  <2>1. TAKE k \in 1 .. L
  <2>2. k <= len \/ k > L - len \/ L - k + 1 = k
    BY <1>b
  <2> QED
    BY <1>8, <2>2
<1> QED
  BY <1>a, <1>6, <1>8, <1>9

LEMMA ReverseIsReverse ==
  ASSUME NEW u \in Spans
  PROVE  reverse(u) = Reverse(u) /\ Perm(reverse(u), u)
<1>1. PICK v \in Spans : v = reverse(u) /\ Len(v) = Len(u) /\ \A k \in 1 .. Len(u) : v[k] = u[Len(u) - k + 1]
  BY Reverses
<1>2. PICK L \in Nat : L = Len(u) /\ DOMAIN v = 1 .. L /\ DOMAIN u = 1 .. L
  BY <1>1, Positions
<1>3. \A k \in 1 .. L : L - k + 1 \in 1 .. L /\ L - (L - k + 1) + 1 = k /\ v[k] = u[L - k + 1]
  BY <1>1, <1>2
<1>4. v = [k \in 1 .. L |-> u[(L - k) + 1]]
  BY <1>2, <1>3 DEF Spans
<1>5. \A k \in 1 .. L : u[k] = v[L - k + 1]
  BY <1>3
<1>6. ToSet(v) = ToSet(u)
  <2>1. Within(v, u) /\ Within(u, v)
    BY <1>1, <1>2, <1>3, <1>5 DEF Within
  <2> QED
    BY <2>1, SameMembers
<1> QED
  BY <1>1, <1>2, <1>4, <1>6 DEF Perm, Reverse

LEMMA Joined ==
  ASSUME NEW a \in Spans, NEW b \in Spans
  PROVE  /\ a \o b \in Spans /\ Len(a \o b) = Len(a) + Len(b)
         /\ \A k \in 1 .. Len(a) : (a \o b)[k] = a[k]
         /\ \A k \in 1 .. Len(b) : (a \o b)[Len(a) + k] = b[k]
         /\ \A k \in Len(a) + 1 .. Len(a) + Len(b) : (a \o b)[k] = b[k - Len(a)]
         /\ ToSet(a \o b) = ToSet(a) \union ToSet(b)
<1>1. PICK c : c = a \o b
  OBVIOUS
<1>2. PICK m \in Nat, n \in Nat : m = Len(a) /\ n = Len(b) /\ DOMAIN a = 1 .. m /\ DOMAIN b = 1 .. n
  BY Positions
<1>3. c \in Spans /\ Len(c) = m + n /\ DOMAIN c = 1 .. m + n
  BY <1>1, <1>2, Positions DEF Spans
<1>4. \A k \in 1 .. m : c[k] = a[k]
  BY <1>1, <1>2 DEF Spans
<1>5. \A k \in m + 1 .. m + n : c[k] = b[k - m]
  BY <1>1, <1>2 DEF Spans
<1>6. \A k \in 1 .. n : m + k \in m + 1 .. m + n /\ m + k \in 1 .. m + n /\ (m + k) - m = k
  BY <1>2
<1>7. \A k \in 1 .. n : c[m + k] = b[k]
  BY <1>5, <1>6
<1>8. ToSet(c) = ToSet(a) \union ToSet(b)
  <2>1. \A k \in 1 .. m + n : k \in 1 .. m \/ (k \in m + 1 .. m + n /\ k - m \in 1 .. n)
    BY <1>2
  <2>2. \A k \in 1 .. m : k \in 1 .. m + n
    BY <1>2
  <2>3. \A x : x \in ToSet(c) <=> \E k \in 1 .. m + n : x = c[k]
    BY <1>3 DEF ToSet
  <2>4. \A x : x \in ToSet(a) <=> \E k \in 1 .. m : x = a[k]
    BY <1>2 DEF ToSet
  <2>5. \A x : x \in ToSet(b) <=> \E k \in 1 .. n : x = b[k]
    BY <1>2 DEF ToSet
  <2>6. \A x : x \in ToSet(c) => x \in ToSet(a) \/ x \in ToSet(b)
    BY <1>4, <1>5, <2>1, <2>3, <2>4, <2>5
  <2>7. \A x : x \in ToSet(a) => x \in ToSet(c)
    BY <1>4, <2>2, <2>3, <2>4
  <2>8. \A x : x \in ToSet(b) => x \in ToSet(c)
    BY <1>6, <1>7, <2>3, <2>5
  <2> QED
    BY <2>6, <2>7, <2>8
<1> QED
  BY <1>1, <1>2, <1>3, <1>4, <1>5, <1>7, <1>8

\* rotate: three reversals.
LEMMA Rotates ==
  ASSUME NEW u \in Spans, NEW mid \in 0 .. Len(u)
  PROVE  /\ rotate(u, mid) \in Spans /\ Len(rotate(u, mid)) = Len(u)
         /\ rotate(u, mid) = SubSeq(u, mid + 1, Len(u)) \o SubSeq(u, 1, mid)
<1>1. PICK L \in Nat : L = Len(u)
  BY Positions
<1>2. PICK a \in Spans : /\ a = sub(u, 0, mid) /\ a = SubSeq(u, 1, mid) /\ Len(a) = mid
                         /\ \A k \in 1 .. mid : a[k] = u[k]
  <2>1. 0 + 1 = 1 /\ 0 + mid = mid /\ mid <= Len(u) /\ mid \in Nat /\ \A k \in 1 .. mid : 0 + k = k
    BY <1>1
  <2>2. /\ sub(u, 0, mid) \in Spans /\ Len(sub(u, 0, mid)) = mid
        /\ \A k \in 1 .. mid : sub(u, 0, mid)[k] = u[0 + k]
    BY <2>1, SubSpan
  <2>3. sub(u, 0, mid) = SubSeq(u, 1, mid)
    BY <2>1 DEF sub
  <2> QED
    BY <2>1, <2>2, <2>3
<1>3. PICK b \in Spans : /\ b = sub(u, mid, L - mid) /\ b = SubSeq(u, mid + 1, L) /\ Len(b) = L - mid
                         /\ \A k \in 1 .. L - mid : b[k] = u[mid + k]
  <2>1. PICK n \in Nat : n = L - mid /\ mid + n = L /\ mid \in Nat /\ mid + n <= Len(u)
    BY <1>1
  <2>2. /\ sub(u, mid, n) \in Spans /\ Len(sub(u, mid, n)) = n
        /\ \A k \in 1 .. n : sub(u, mid, n)[k] = u[mid + k]
    BY <2>1, SubSpan
  <2>3. sub(u, mid, n) = SubSeq(u, mid + 1, L)
    BY <2>1 DEF sub
  <2> QED
    BY <2>1, <2>2, <2>3
<1>4. PICK c \in Spans : /\ c = b \o a /\ Len(c) = L
                         /\ \A k \in 1 .. L - mid : c[k] = b[k]
                         /\ \A k \in L - mid + 1 .. L : c[k] = a[k - (L - mid)]
  <2>a. PICK n : n = L - mid
    OBVIOUS
  <2>1. n \in Nat /\ n = L - mid /\ n + mid = L /\ n = Len(b) /\ mid = Len(a)
    BY <1>1, <1>2, <1>3, <2>a
  <2>2. PICK q : q = b \o a
    OBVIOUS
  <2>3. /\ q \in Spans /\ Len(q) = n + mid
        /\ \A k \in 1 .. n : q[k] = b[k]
        /\ \A k \in n + 1 .. n + mid : q[k] = a[k - n]
    <3>1. /\ b \o a \in Spans /\ Len(b \o a) = Len(b) + Len(a)
          /\ \A k \in 1 .. Len(b) : (b \o a)[k] = b[k]
          /\ \A k \in Len(b) + 1 .. Len(b) + Len(a) : (b \o a)[k] = a[k - Len(b)]
      BY Joined
    <3> QED
      BY <2>1, <2>2, <3>1
  <2>4. /\ Len(q) = L /\ \A k \in 1 .. L - mid : q[k] = b[k]
        /\ \A k \in L - mid + 1 .. L : q[k] = a[k - (L - mid)]
    BY <2>1, <2>3
  <2> QED
    BY <2>2, <2>3, <2>4
<1>5. CASE mid = 0
  <2>1. \A k \in 1 .. L : c[k] = u[k]
    BY <1>1, <1>3, <1>4, <1>5
  <2>2. c = u
    BY <1>1, <1>4, <2>1, SameSpan
  <2> QED
    BY <1>1, <1>2, <1>3, <1>4, <1>5, <2>2 DEF rotate
<1>6. CASE mid = L
  <2>1. \A k \in 1 .. L : c[k] = u[k]
    BY <1>1, <1>2, <1>4, <1>6
  <2>2. c = u
    BY <1>1, <1>4, <2>1, SameSpan
  <2> QED
    BY <1>1, <1>2, <1>3, <1>4, <1>6, <2>2 DEF rotate
<1>7. CASE mid # 0 /\ mid # L
  <2>1. PICK ra \in Spans : ra = reverse(a) /\ Len(ra) = mid /\ \A k \in 1 .. mid : ra[k] = a[mid - k + 1]
    BY <1>2, Reverses
  <2>2. PICK rb \in Spans : rb = reverse(b) /\ Len(rb) = L - mid /\ \A k \in 1 .. L - mid : rb[k] = b[(L - mid) - k + 1]
    <3>1. PICK n : n = L - mid /\ Len(b) = n
      BY <1>3
    <3>2. reverse(b) \in Spans /\ Len(reverse(b)) = n /\ \A k \in 1 .. n : reverse(b)[k] = b[n - k + 1]
      BY <3>1, Reverses
    <3> QED
      BY <3>1, <3>2
  <2>3. PICK d \in Spans : /\ d = ra \o rb /\ Len(d) = L
                           /\ \A k \in 1 .. mid : d[k] = ra[k]
                           /\ \A k \in mid + 1 .. L : d[k] = rb[k - mid]
    <3>a. PICK n : n = L - mid
      OBVIOUS
    <3>1. n \in Nat /\ n = L - mid /\ mid + n = L /\ n = Len(rb) /\ mid = Len(ra)
      BY <1>1, <2>1, <2>2, <3>a
    <3>2. PICK q : q = ra \o rb
      OBVIOUS
    <3>3. /\ q \in Spans /\ Len(q) = mid + n
          /\ \A k \in 1 .. mid : q[k] = ra[k]
          /\ \A k \in mid + 1 .. mid + n : q[k] = rb[k - mid]
      <4>1. /\ ra \o rb \in Spans /\ Len(ra \o rb) = Len(ra) + Len(rb)
            /\ \A k \in 1 .. Len(ra) : (ra \o rb)[k] = ra[k]
            /\ \A k \in Len(ra) + 1 .. Len(ra) + Len(rb) : (ra \o rb)[k] = rb[k - Len(ra)]
        BY Joined
      <4> QED
        BY <3>1, <3>2, <4>1
    <3>4. Len(q) = L /\ \A k \in mid + 1 .. L : q[k] = rb[k - mid]
      BY <3>1, <3>3
    <3> QED
      BY <3>2, <3>3, <3>4
  <2>4. PICK e \in Spans : e = reverse(d) /\ Len(e) = L /\ \A k \in 1 .. L : e[k] = d[L - k + 1]
    BY <2>3, Reverses
  <2>5. ASSUME NEW k \in 1 .. L PROVE e[k] = c[k]
    <3>1. CASE k <= L - mid
      <4>1. L - k + 1 \in mid + 1 .. L /\ L - k + 1 - mid \in 1 .. L - mid /\ k \in 1 .. L - mid
        BY <1>1, <3>1
      <4>2. (L - mid) - (L - k + 1 - mid) + 1 = k
        BY <1>1
      <4>3. d[L - k + 1] = b[k]
        BY <2>2, <2>3, <4>1, <4>2
      <4> QED
        BY <1>4, <2>4, <4>1, <4>3
    <3>2. CASE k > L - mid
      <4>1. L - k + 1 \in 1 .. mid /\ k \in L - mid + 1 .. L
        BY <1>1, <3>2
      <4>2. mid - (L - k + 1) + 1 = k - (L - mid)
        BY <1>1
      <4>3. d[L - k + 1] = a[k - (L - mid)]
        BY <2>1, <2>3, <4>1, <4>2
      <4> QED
        BY <1>4, <2>4, <4>1, <4>3
    <3> QED
      BY <1>1, <3>1, <3>2
  <2>6. e = c
    BY <1>1, <1>4, <2>4, <2>5, SameSpan
  <2>7. rotate(u, mid) = e
    BY <1>1, <1>2, <1>3, <1>7, <2>1, <2>2, <2>3, <2>4 DEF rotate
  <2> QED
    BY <1>1, <1>2, <1>3, <1>4, <2>6, <2>7
<1> QED
  BY <1>5, <1>6, <1>7

\* shuffle: whatever is drawn, no element is lost or doubled.
LEMMA Shuffles ==
  ASSUME NEW u \in Spans, NEW v \in shuffles(u)
  PROVE  Perm(v, u)
<1>a. PICK L \in Nat : L = Len(u)
  BY Positions
<1>b. Perm(u, u)
  BY DEF Perm
<1>c. CASE L < 2
  BY <1>a, <1>b, <1>c DEF shuffles, Loop
<1>d. CASE L >= 2
  <2>a. PICK len \in Nat : len = L - 1
    BY <1>d
  <2> DEFINE step(T, n) == Drawn(T, Len(u) - 1 - n)
             start == {u}
             P == { t \in Spans : Perm(t, u) }
             A == [n \in 0 .. len |-> SUBSET P]
             F == [n \in 0 .. len - 1 |-> [a \in A[n] |-> step(a, n)]]
  <2>1. start \in A[0]
    BY <1>b
  <2>2. ASSUME NEW n \in 0 .. len - 1, NEW T \in A[n] PROVE step(T, n) \in A[n + 1]
    <3>1. n \in 0 .. len /\ n + 1 \in 0 .. len /\ L - 1 - n \in 0 .. L - 1
      BY <2>a
    <3>2. ASSUME NEW t \in T, NEW j \in 0 .. Len(u) - 1 - n PROVE swap(t, Len(u) - 1 - n, j) \in P
      <4>1. t \in Spans /\ Perm(t, u) /\ Len(t) = L
        BY <1>a, <3>1 DEF Perm
      <4>2. j \in 0 .. Len(t) - 1 /\ Len(u) - 1 - n \in 0 .. Len(t) - 1
        BY <1>a, <3>1, <4>1
      <4>3. swap(t, Len(u) - 1 - n, j) \in Spans /\ Perm(swap(t, Len(u) - 1 - n, j), t)
        BY <4>1, <4>2, SwapSpan
      <4> QED
        BY <4>1, <4>3, PermTrans
    <3> QED
      BY <3>1, <3>2 DEF Drawn
  <2> HIDE DEF A
  <2>3. Leads(F, len, A)
    BY <2>2 DEF Leads
  <2> HIDE DEF F, step, start
  <2>4. PICK f : Runs(f, len, start, F) /\ \A n \in 0 .. len : f[n] \in A[n]
    BY <2>1, <2>3, LoopExists
  <2>5. f = [n \in 0 .. len |-> IF n = 0 THEN start ELSE step(f[n - 1], n - 1)]
    <3>1. ASSUME NEW n \in 0 .. len PROVE f[n] = IF n = 0 THEN start ELSE step(f[n - 1], n - 1)
      <4>1. CASE n = 0
        BY <2>4, <4>1 DEF Runs
      <4>2. CASE n # 0
        <5>1. n - 1 \in 0 .. len - 1 /\ n - 1 \in 0 .. len
          BY <4>2
        <5>2. f[n] = F[n - 1][f[n - 1]] /\ f[n - 1] \in A[n - 1]
          BY <2>4, <4>2, <5>1 DEF Runs
        <5> QED
          BY <4>2, <5>1, <5>2 DEF F
      <4> QED
        BY <4>1, <4>2
    <3> QED
      BY <2>4, <3>1 DEF Runs
  <2>c. /\ Len(u) - 1 = len /\ ~(Len(u) < 2)
        /\ f = [n \in 0 .. Len(u) - 1 |-> IF n = 0 THEN {u} ELSE Drawn(f[n - 1], Len(u) - 1 - (n - 1))]
    <3>1. Len(u) - 1 = len /\ ~(Len(u) < 2)
      BY <1>a, <1>d, <2>a
    <3>2. f = [n \in 0 .. len |-> IF n = 0 THEN {u} ELSE Drawn(f[n - 1], Len(u) - 1 - (n - 1))]
      BY <2>5 DEF step, start
    <3> QED
      BY <3>1, <3>2
  <2>d. PICK g : /\ g = [n \in 0 .. Len(u) - 1 |-> IF n = 0 THEN {u} ELSE Drawn(g[n - 1], Len(u) - 1 - (n - 1))]
                 /\ shuffles(u) = g[Len(u) - 1]
    BY <2>c DEF shuffles, Loop
  <2>6. /\ g = [n \in 0 .. len |-> IF n = 0 THEN start ELSE step(g[n - 1], n - 1)]
        /\ shuffles(u) = g[len]
    BY <2>c, <2>d DEF step, start
  <2>7. g[len] \in A[len]
    <3>1. g[0] \in A[0]
      BY <2>1, <2>6
    <3>2. ASSUME NEW n \in 0 .. len - 1, g[n] \in A[n] PROVE g[n + 1] \in A[n + 1]
      <4>1. g[n + 1] = step(g[n], n)
        BY <2>6
      <4> QED
        BY <2>2, <3>2, <4>1
    <3> QED
      BY <3>1, <3>2, LoopKeeps
  <2> QED
    BY <2>6, <2>7 DEF A
<1> QED
  BY <1>a, <1>c, <1>d

-----------------------------------------------------------------------------
(* transform.c: what keeps some elements.                                  *)

\* How many of the first n positions are in P.
Cnt(P, n) == Cardinality({ i \in 0 .. n - 1 : i \in P })

LEMMA Counted ==
  ASSUME NEW P, NEW n \in Nat
  PROVE  /\ Cnt(P, 0) = 0 /\ Cnt(P, n) \in 0 .. n
         /\ Cnt(P, n + 1) = IF n \in P THEN Cnt(P, n) + 1 ELSE Cnt(P, n)
         /\ Cnt(P, n + 1) \in Nat
<1>1. PICK S : S = { i \in 0 .. n - 1 : i \in P }
  OBVIOUS
<1>2. PICK T : T = { i \in 0 .. n : i \in P }
  OBVIOUS
<1>3. PICK c : c = Cardinality(S)
  OBVIOUS
<1>4. IsFiniteSet(0 .. n - 1) /\ Cardinality(0 .. n - 1) = n
  <2>1. n - 1 \in Int /\ (0 > n - 1 => n = 0) /\ n - 1 - 0 + 1 = n
    OBVIOUS
  <2>2. IsFiniteSet(0 .. n - 1) /\ Cardinality(0 .. n - 1) = IF 0 > n - 1 THEN 0 ELSE n - 1 - 0 + 1
    BY <2>1, FS_Interval
  <2> QED
    BY <2>1, <2>2
<1>5. IsFiniteSet(S) /\ Cardinality(S) <= n
  <2>1. S \in SUBSET (0 .. n - 1)
    BY <1>1
  <2> QED
    BY <1>4, <2>1, FS_Subset
<1>6. c \in 0 .. n /\ Cnt(P, n) = c
  <2>1. Cardinality(S) \in Nat
    BY <1>5, FS_CardinalityType
  <2> QED
    BY <1>1, <1>3, <1>5, <2>1 DEF Cnt
<1>7. Cnt(P, n + 1) = Cardinality(T)
  <2>1. (n + 1) - 1 = n
    OBVIOUS
  <2> QED
    BY <1>2, <2>1 DEF Cnt
<1>8. n \notin S
  BY <1>1
<1>9. Cardinality(S \union {n}) = c + 1
  BY <1>3, <1>5, <1>8, FS_AddElement
<1>10. T = IF n \in P THEN S \union {n} ELSE S
  <2>1. \A i : i \in 0 .. n <=> i \in 0 .. n - 1 \/ i = n
    OBVIOUS
  <2> QED
    BY <1>1, <1>2, <2>1
<1>11. Cnt(P, 0) = 0
  <2>1. { i \in 0 .. 0 - 1 : i \in P } = {}
    OBVIOUS
  <2> QED
    BY <2>1, FS_EmptySet DEF Cnt
<1>12. Cnt(P, n + 1) = IF n \in P THEN c + 1 ELSE c
  BY <1>3, <1>7, <1>9, <1>10
<1> QED
  BY <1>6, <1>11, <1>12

LEMMA CountedUpTo ==
  ASSUME NEW P, NEW n \in Nat, NEW m \in Nat, n <= m
  PROVE  Cnt(P, n) <= Cnt(P, m)
<1>1. PICK S : S = { i \in 0 .. n - 1 : i \in P }
  OBVIOUS
<1>2. PICK T : T = { i \in 0 .. m - 1 : i \in P }
  OBVIOUS
<1>3. IsFiniteSet(0 .. m - 1)
  BY FS_Interval
<1>4. T \in SUBSET (0 .. m - 1) /\ S \in SUBSET T
  BY <1>1, <1>2
<1>5. IsFiniteSet(T)
  BY <1>3, <1>4, FS_Subset
<1>6. Cardinality(S) <= Cardinality(T)
  BY <1>4, <1>5, FS_Subset
<1> QED
  BY <1>1, <1>2, <1>6 DEF Cnt

LEMMA MovesOne ==
  ASSUME NEW t \in Spans, NEW n \in 0 .. Len(t) - 1, NEW o \in 0 .. n
  PROVE  \E v \in Spans :
           /\ Moved([s |-> t, out |-> o], n) = [s |-> v, out |-> o + 1]
           /\ Len(v) = Len(t)
           /\ \A k \in 1 .. Len(t) : v[k] = IF k = o + 1 THEN t[n + 1] ELSE t[k]
<1>1. o \in 0 .. Len(t) - 1 /\ get(t, n) = t[n + 1] /\ get(t, n) \in Element
  BY Positions
<1>2. PICK v : v = set(t, o, get(t, n))
  OBVIOUS
<1>3. v \in Spans /\ Len(v) = Len(t) /\ \A k \in 1 .. Len(t) : v[k] = IF k = o + 1 THEN t[n + 1] ELSE t[k]
  BY <1>1, <1>2, SetSpan
<1>4. Moved([s |-> t, out |-> o], n) = [s |-> v, out |-> o + 1]
  <2>1. PICK a : a = [s |-> t, out |-> o]
    OBVIOUS
  <2>2. a.s = t /\ a.out = o
    BY <2>1
  <2>3. Moved(a, n) = [a EXCEPT !.s = v, !.out = o + 1]
    BY <1>2, <2>1, <2>2 DEF Moved
  <2> QED
    BY <2>1, <2>3
<1> QED
  BY <1>3, <1>4

\* After n rounds those of the first n elements whose positions are in P lie
\* in front, and what is behind them is as it was.
Gathered(u, P, n, t, o) ==
  /\ \A k \in 1 .. o : \E m \in 1 .. n : m - 1 \in P /\ t[k] = u[m]
  /\ \A m \in 1 .. n : m - 1 \in P => \E k \in 1 .. o : t[k] = u[m]
Behind(u, t, o) == \A k \in o + 1 .. Len(u) : t[k] = u[k]
Rising(t, o)    == \A i, j \in 1 .. o : i < j => t[i].tag < t[j].tag
Compact(u, P, n, t, o) == o = Cnt(P, n) /\ Gathered(u, P, n, t, o) /\ Behind(u, t, o) /\ Rising(t, o)

LEMMA CompactStart ==
  ASSUME NEW u \in Spans, NEW P
  PROVE  Compact(u, P, 0, u, 0)
BY Counted DEF Compact, Gathered, Behind, Rising

LEMMA CompactSkips ==
  ASSUME NEW u \in Spans, NEW P, NEW n \in Nat, NEW t, NEW o \in Nat, Compact(u, P, n, t, o), n \notin P
  PROVE  Compact(u, P, n + 1, t, o)
<1>1. o = Cnt(P, n + 1)
  BY Counted DEF Compact
<1>2. \A m \in 1 .. n + 1 : m - 1 \in P => m \in 1 .. n
  OBVIOUS
<1>3. \A m \in 1 .. n : m \in 1 .. n + 1
  OBVIOUS
<1>4. Gathered(u, P, n, t, o)
  BY DEF Compact
<1>5. Gathered(u, P, n + 1, t, o)
  BY <1>2, <1>3, <1>4 DEF Gathered
<1> QED
  BY <1>1, <1>5 DEF Compact

LEMMA CompactMoves ==
  ASSUME NEW u, Numbered(u), NEW P, NEW n \in 0 .. Len(u) - 1, NEW t \in Spans, Len(t) = Len(u),
         NEW o \in 0 .. n, Compact(u, P, n, t, o), n \in P,
         NEW v \in Spans, \A k \in 1 .. Len(t) : v[k] = IF k = o + 1 THEN t[n + 1] ELSE t[k]
  PROVE  Compact(u, P, n + 1, v, o + 1)
<1>1. PICK L \in Nat : L = Len(u) /\ \A i \in 1 .. L : u[i].tag = i
  BY Positions DEF Numbered
<1>2. o + 1 = Cnt(P, n + 1)
  BY <1>1, Counted DEF Compact
<1>3. Behind(u, t, o) /\ Gathered(u, P, n, t, o) /\ Rising(t, o)
  BY DEF Compact
<1>4. t[n + 1] = u[n + 1] /\ n + 1 \in 1 .. L /\ o + 1 \in 1 .. L
  BY <1>1, <1>3 DEF Behind
<1>5. v[o + 1] = u[n + 1] /\ \A k \in 1 .. o : v[k] = t[k] /\ k \in 1 .. L
  BY <1>1, <1>4
<1>6. Behind(u, v, o + 1)
  <2>1. SUFFICES ASSUME NEW k \in o + 1 + 1 .. L PROVE v[k] = u[k]
    BY <1>1 DEF Behind
  <2>2. k \in 1 .. L /\ k \in o + 1 .. L /\ k # o + 1
    BY <1>1
  <2> QED
    BY <1>1, <1>3, <2>2 DEF Behind
<1>7. Gathered(u, P, n + 1, v, o + 1)
  <2>1. ASSUME NEW k \in 1 .. o + 1 PROVE \E m \in 1 .. n + 1 : m - 1 \in P /\ v[k] = u[m]
    <3>1. CASE k = o + 1
      <4>1. n + 1 \in 1 .. n + 1 /\ (n + 1) - 1 = n
        BY <1>1
      <4> QED
        BY <1>5, <3>1, <4>1
    <3>2. CASE k # o + 1
      <4>1. k \in 1 .. o
        BY <3>2
      <4>2. PICK m \in 1 .. n : m - 1 \in P /\ t[k] = u[m]
        BY <1>3, <4>1 DEF Gathered
      <4>3. m \in 1 .. n + 1
        OBVIOUS
      <4> QED
        BY <1>5, <4>1, <4>2, <4>3
    <3> QED
      BY <3>1, <3>2
  <2>2. ASSUME NEW m \in 1 .. n + 1, m - 1 \in P PROVE \E k \in 1 .. o + 1 : v[k] = u[m]
    <3>1. CASE m = n + 1
      <4>1. o + 1 \in 1 .. o + 1
        OBVIOUS
      <4> QED
        BY <1>5, <3>1, <4>1
    <3>2. CASE m # n + 1
      <4>1. m \in 1 .. n
        BY <3>2
      <4>2. PICK k \in 1 .. o : t[k] = u[m]
        BY <1>3, <2>2, <4>1 DEF Gathered
      <4>3. k \in 1 .. o + 1
        OBVIOUS
      <4> QED
        BY <1>5, <4>2, <4>3
    <3> QED
      BY <3>1, <3>2
  <2> QED
    BY <2>1, <2>2 DEF Gathered
<1>8. Rising(v, o + 1)
  <2>1. SUFFICES ASSUME NEW i \in 1 .. o + 1, NEW j \in 1 .. o + 1, i < j PROVE v[i].tag < v[j].tag
    BY DEF Rising
  <2>2. i \in 1 .. o /\ v[i] = t[i]
    BY <1>5, <2>1
  <2>3. CASE j = o + 1
    <3>1. PICK m \in 1 .. n : t[i] = u[m]
      BY <1>3, <2>2 DEF Gathered
    <3>2. v[i].tag = m /\ v[j].tag = n + 1
      BY <1>1, <1>4, <1>5, <2>2, <2>3, <3>1
    <3> QED
      BY <3>2
  <2>4. CASE j # o + 1
    <3>1. j \in 1 .. o /\ v[j] = t[j]
      BY <1>5, <2>4
    <3> QED
      BY <1>3, <2>1, <2>2, <3>1 DEF Rising
  <2> QED
    BY <2>3, <2>4
<1> QED
  BY <1>2, <1>6, <1>7, <1>8 DEF Compact

\* What such a loop returns.
Reduction(u, r) == /\ r = [s |-> r.s, out |-> r.out] /\ r.s \in Spans /\ Len(r.s) = Len(u)
                   /\ r.out \in 0 .. Len(u)

\* copy_if, in place.
LEMMA CopiesIf ==
  ASSUME NEW u, Numbered(u), NEW pred
  PROVE  /\ Reduction(u, copy_if(u, pred))
         /\ Compact(u, { i \in 0 .. Len(u) - 1 : u[i + 1].key \in pred }, Len(u), copy_if(u, pred).s, copy_if(u, pred).out)
<1>a. PICK len \in Nat : len = Len(u) /\ u \in Spans
  BY Positions DEF Numbered
<1>b. PICK P : P = { i \in 0 .. len - 1 : u[i + 1].key \in pred }
  OBVIOUS
<1> DEFINE step(a, i) == IF get(a.s, i).key \in pred THEN Moved(a, i) ELSE a
           start == [s |-> u, out |-> 0]
           In(n, a) == /\ Len(a.s) = len /\ a.out <= n
                       /\ Compact(u, P, n, a.s, a.out)
           A == [n \in 0 .. len |-> { a \in [s : Spans, out : Nat] : In(n, a) }]
           F == [n \in 0 .. len - 1 |-> [a \in A[n] |-> step(a, n)]]
<1>1. start \in A[0]
  BY <1>a, CompactStart
<1>2. ASSUME NEW n \in 0 .. len - 1, NEW a \in A[n] PROVE step(a, n) \in A[n + 1]
  <2>1. n \in 0 .. len /\ n + 1 \in 0 .. len /\ n \in Nat
    OBVIOUS
  <2>2. a \in [s : Spans, out : Nat] /\ In(n, a)
    BY <2>1
  <2>3. PICK t \in Spans, o \in Nat : a = [s |-> t, out |-> o]
    BY <2>2
  <2>4. Len(t) = len /\ o \in 0 .. n /\ Compact(u, P, n, t, o)
    BY <2>2, <2>3
  <2> HIDE DEF In, A
  <2>5. get(t, n) = u[n + 1]
    <3>1. n + 1 \in o + 1 .. len
      BY <2>4
    <3> QED
      BY <1>a, <2>4, <3>1 DEF Compact, Behind, get
  <2>6. CASE n \in P
    <3>1. PICK v \in Spans : /\ Moved(a, n) = [s |-> v, out |-> o + 1] /\ Len(v) = len
                             /\ \A k \in 1 .. Len(t) : v[k] = IF k = o + 1 THEN t[n + 1] ELSE t[k]
      BY <2>3, <2>4, MovesOne
    <3>2. Compact(u, P, n + 1, v, o + 1)
      BY <1>a, <2>4, <2>6, <3>1, CompactMoves
    <3>3. step(a, n) = [s |-> v, out |-> o + 1]
      BY <1>b, <2>3, <2>5, <2>6, <3>1
    <3>4. In(n + 1, [s |-> v, out |-> o + 1])
      BY <2>4, <3>1, <3>2 DEF In
    <3> QED
      BY <2>1, <3>3, <3>4 DEF A
  <2>7. CASE n \notin P
    <3>1. Compact(u, P, n + 1, t, o)
      BY <1>a, <2>1, <2>4, <2>7, CompactSkips
    <3>2. step(a, n) = a
      BY <1>b, <2>3, <2>5, <2>7
    <3>3. In(n + 1, a)
      BY <2>3, <2>4, <3>1 DEF In
    <3> QED
      BY <2>1, <2>2, <3>2, <3>3 DEF A
  <2> QED
    BY <2>6, <2>7
<1> HIDE DEF In
<1> HIDE DEF A
<1>3. Leads(F, len, A)
  BY <1>2 DEF Leads
<1> HIDE DEF F, step, start
<1>4. PICK f : Runs(f, len, start, F) /\ \A n \in 0 .. len : f[n] \in A[n]
  BY <1>1, <1>3, LoopExists
<1>5. f = [n \in 0 .. len |-> IF n = 0 THEN start ELSE step(f[n - 1], n - 1)]
  <2>1. ASSUME NEW n \in 0 .. len PROVE f[n] = IF n = 0 THEN start ELSE step(f[n - 1], n - 1)
    <3>1. CASE n = 0
      BY <1>4, <3>1 DEF Runs
    <3>2. CASE n # 0
      <4>1. n - 1 \in 0 .. len - 1 /\ n - 1 \in 0 .. len
        BY <3>2
      <4>2. f[n] = F[n - 1][f[n - 1]] /\ f[n - 1] \in A[n - 1]
        BY <1>4, <3>2, <4>1 DEF Runs
      <4> QED
        BY <3>2, <4>1, <4>2 DEF F
    <3> QED
      BY <3>1, <3>2
  <2> QED
    BY <1>4, <2>1 DEF Runs
<1>6. PICK g : /\ g = [n \in 0 .. len |-> IF n = 0 THEN start ELSE step(g[n - 1], n - 1)]
               /\ copy_if(u, pred) = g[len]
  BY <1>a, <1>5 DEF copy_if, Loop, step, start
<1>7. g[len] \in A[len]
  <2>1. g[0] \in A[0]
    BY <1>1, <1>6
  <2>2. ASSUME NEW n \in 0 .. len - 1, g[n] \in A[n] PROVE g[n + 1] \in A[n + 1]
    <3>1. g[n + 1] = step(g[n], n)
      BY <1>6
    <3> QED
      BY <1>2, <2>2, <3>1
  <2> QED
    BY <2>1, <2>2, LoopKeeps
<1>8. g[len] \in [s : Spans, out : Nat] /\ In(len, g[len])
  <2>1. A[len] = { a \in [s : Spans, out : Nat] : In(len, a) }
    BY DEF A
  <2> QED
    BY <1>7, <2>1
<1>9. Reduction(u, g[len])
  BY <1>a, <1>8 DEF In, Reduction
<1> QED
  BY <1>a, <1>b, <1>6, <1>8, <1>9 DEF In

\* remove_if.
LEMMA RemovesIf ==
  ASSUME NEW u, Numbered(u), NEW pred
  PROVE  /\ Reduction(u, remove_if(u, pred))
         /\ Compact(u, { i \in 0 .. Len(u) - 1 : u[i + 1].key \notin pred }, Len(u), remove_if(u, pred).s, remove_if(u, pred).out)
<1>a. PICK len \in Nat : len = Len(u) /\ u \in Spans
  BY Positions DEF Numbered
<1>b. PICK P : P = { i \in 0 .. len - 1 : u[i + 1].key \notin pred }
  OBVIOUS
<1> DEFINE step(a, i) == IF get(a.s, i).key \in pred THEN a ELSE Moved(a, i)
           start == [s |-> u, out |-> 0]
           In(n, a) == /\ Len(a.s) = len /\ a.out <= n
                       /\ Compact(u, P, n, a.s, a.out)
           A == [n \in 0 .. len |-> { a \in [s : Spans, out : Nat] : In(n, a) }]
           F == [n \in 0 .. len - 1 |-> [a \in A[n] |-> step(a, n)]]
<1>1. start \in A[0]
  BY <1>a, CompactStart
<1>2. ASSUME NEW n \in 0 .. len - 1, NEW a \in A[n] PROVE step(a, n) \in A[n + 1]
  <2>1. n \in 0 .. len /\ n + 1 \in 0 .. len /\ n \in Nat
    OBVIOUS
  <2>2. a \in [s : Spans, out : Nat] /\ In(n, a)
    BY <2>1
  <2>3. PICK t \in Spans, o \in Nat : a = [s |-> t, out |-> o]
    BY <2>2
  <2>4. Len(t) = len /\ o \in 0 .. n /\ Compact(u, P, n, t, o)
    BY <2>2, <2>3
  <2> HIDE DEF In, A
  <2>5. get(t, n) = u[n + 1]
    <3>1. n + 1 \in o + 1 .. len
      BY <2>4
    <3> QED
      BY <1>a, <2>4, <3>1 DEF Compact, Behind, get
  <2>6. CASE n \in P
    <3>1. PICK v \in Spans : /\ Moved(a, n) = [s |-> v, out |-> o + 1] /\ Len(v) = len
                             /\ \A k \in 1 .. Len(t) : v[k] = IF k = o + 1 THEN t[n + 1] ELSE t[k]
      BY <2>3, <2>4, MovesOne
    <3>2. Compact(u, P, n + 1, v, o + 1)
      BY <1>a, <2>4, <2>6, <3>1, CompactMoves
    <3>3. step(a, n) = [s |-> v, out |-> o + 1]
      BY <1>b, <2>3, <2>5, <2>6, <3>1
    <3>4. In(n + 1, [s |-> v, out |-> o + 1])
      BY <2>4, <3>1, <3>2 DEF In
    <3> QED
      BY <2>1, <3>3, <3>4 DEF A
  <2>7. CASE n \notin P
    <3>1. Compact(u, P, n + 1, t, o)
      BY <1>a, <2>1, <2>4, <2>7, CompactSkips
    <3>2. step(a, n) = a
      BY <1>b, <2>3, <2>5, <2>7
    <3>3. In(n + 1, a)
      BY <2>3, <2>4, <3>1 DEF In
    <3> QED
      BY <2>1, <2>2, <3>2, <3>3 DEF A
  <2> QED
    BY <2>6, <2>7
<1> HIDE DEF In
<1> HIDE DEF A
<1>3. Leads(F, len, A)
  BY <1>2 DEF Leads
<1> HIDE DEF F, step, start
<1>4. PICK f : Runs(f, len, start, F) /\ \A n \in 0 .. len : f[n] \in A[n]
  BY <1>1, <1>3, LoopExists
<1>5. f = [n \in 0 .. len |-> IF n = 0 THEN start ELSE step(f[n - 1], n - 1)]
  <2>1. ASSUME NEW n \in 0 .. len PROVE f[n] = IF n = 0 THEN start ELSE step(f[n - 1], n - 1)
    <3>1. CASE n = 0
      BY <1>4, <3>1 DEF Runs
    <3>2. CASE n # 0
      <4>1. n - 1 \in 0 .. len - 1 /\ n - 1 \in 0 .. len
        BY <3>2
      <4>2. f[n] = F[n - 1][f[n - 1]] /\ f[n - 1] \in A[n - 1]
        BY <1>4, <3>2, <4>1 DEF Runs
      <4> QED
        BY <3>2, <4>1, <4>2 DEF F
    <3> QED
      BY <3>1, <3>2
  <2> QED
    BY <1>4, <2>1 DEF Runs
<1>6. PICK g : /\ g = [n \in 0 .. len |-> IF n = 0 THEN start ELSE step(g[n - 1], n - 1)]
               /\ remove_if(u, pred) = g[len]
  BY <1>a, <1>5 DEF remove_if, Loop, step, start
<1>7. g[len] \in A[len]
  <2>1. g[0] \in A[0]
    BY <1>1, <1>6
  <2>2. ASSUME NEW n \in 0 .. len - 1, g[n] \in A[n] PROVE g[n + 1] \in A[n + 1]
    <3>1. g[n + 1] = step(g[n], n)
      BY <1>6
    <3> QED
      BY <1>2, <2>2, <3>1
  <2> QED
    BY <2>1, <2>2, LoopKeeps
<1>8. g[len] \in [s : Spans, out : Nat] /\ In(len, g[len])
  <2>1. A[len] = { a \in [s : Spans, out : Nat] : In(len, a) }
    BY DEF A
  <2> QED
    BY <1>7, <2>1
<1>9. Reduction(u, g[len])
  BY <1>a, <1>8 DEF In, Reduction
<1> QED
  BY <1>a, <1>b, <1>6, <1>8, <1>9 DEF In

\* The positions of the elements that remove keeps, when the key stays what it
\* is; it does if it lies behind all that is kept.
Others(u, p)   == { i \in 0 .. Len(u) - 1 : cmp(get(u, i), Deref(u, p)) # 0 }
KeyStays(u, p) == p.at = -1 \/ Cnt(Others(u, p), Len(u)) <= p.at

LEMMA Removes ==
  ASSUME NEW u, Numbered(u), NEW p, Fits(u, p)
  PROVE  /\ Reduction(u, remove(u, p))
         /\ KeyStays(u, p) => Compact(u, Others(u, p), Len(u), remove(u, p).s, remove(u, p).out)
<1>a. PICK len \in Nat : len = Len(u) /\ u \in Spans
  BY Positions DEF Numbered
<1>b. PICK P : P = Others(u, p)
  OBVIOUS
<1> DEFINE step(a, i) == IF cmp(get(a.s, i), Deref(a.s, p)) # 0 THEN Moved(a, i) ELSE a
           start == [s |-> u, out |-> 0]
           In(n, a) == /\ Len(a.s) = len /\ a.out <= n
                       /\ KeyStays(u, p) => Compact(u, P, n, a.s, a.out)
           A == [n \in 0 .. len |-> { a \in [s : Spans, out : Nat] : In(n, a) }]
           F == [n \in 0 .. len - 1 |-> [a \in A[n] |-> step(a, n)]]
<1>1. start \in A[0]
  BY <1>a, CompactStart
<1>2. ASSUME NEW n \in 0 .. len - 1, NEW a \in A[n] PROVE step(a, n) \in A[n + 1]
  <2>1. n \in 0 .. len /\ n + 1 \in 0 .. len /\ n \in Nat
    OBVIOUS
  <2>2. a \in [s : Spans, out : Nat] /\ In(n, a)
    BY <2>1
  <2>3. PICK t \in Spans, o \in Nat : a = [s |-> t, out |-> o]
    BY <2>2
  <2>4. Len(t) = len /\ o \in 0 .. n /\ (KeyStays(u, p) => Compact(u, P, n, t, o))
    BY <2>2, <2>3
  <2> HIDE DEF In, A
  <2>5. PICK v \in Spans : /\ Moved(a, n) = [s |-> v, out |-> o + 1] /\ Len(v) = len
                           /\ \A k \in 1 .. Len(t) : v[k] = IF k = o + 1 THEN t[n + 1] ELSE t[k]
    BY <2>3, <2>4, MovesOne
  <2>6. ASSUME KeyStays(u, p)
        PROVE  cmp(get(t, n), Deref(t, p)) # 0 <=> n \in P
    <3>1. get(t, n) = get(u, n)
      <4>1. n + 1 \in o + 1 .. len
        BY <2>4
      <4> QED
        BY <1>a, <2>4, <2>6, <4>1 DEF Compact, Behind, get
    <3>2. Deref(t, p) = Deref(u, p)
      <4>1. CASE p.at = -1
        BY <4>1 DEF Deref
      <4>2. CASE p.at # -1
        <5>1. p.at \in 0 .. len - 1 /\ Cnt(P, len) <= p.at
          BY <1>a, <1>b, <2>6, <4>2 DEF Fits, KeyStays
        <5>2. o = Cnt(P, n) /\ Cnt(P, n) <= Cnt(P, len) /\ Cnt(P, len) \in Nat
          BY <2>1, <2>4, <2>6, Counted, CountedUpTo DEF Compact
        <5>3. p.at + 1 \in o + 1 .. len
          BY <5>1, <5>2
        <5> QED
          BY <1>a, <2>4, <2>6, <4>2, <5>3 DEF Compact, Behind, get, Deref
      <4> QED
        BY <4>1, <4>2
    <3>3. n \in 0 .. Len(u) - 1
      BY <1>a
    <3> QED
      BY <1>b, <3>1, <3>2, <3>3 DEF Others
  <2>7. CASE cmp(get(t, n), Deref(t, p)) # 0
    <3>1. KeyStays(u, p) => Compact(u, P, n + 1, v, o + 1)
      BY <1>a, <2>4, <2>5, <2>6, <2>7, CompactMoves
    <3>2. step(a, n) = [s |-> v, out |-> o + 1]
      BY <2>3, <2>5, <2>7
    <3>3. In(n + 1, [s |-> v, out |-> o + 1])
      BY <2>4, <2>5, <3>1 DEF In
    <3> QED
      BY <2>1, <3>2, <3>3 DEF A
  <2>8. CASE ~(cmp(get(t, n), Deref(t, p)) # 0)
    <3>1. KeyStays(u, p) => Compact(u, P, n + 1, t, o)
      BY <1>a, <2>1, <2>4, <2>6, <2>8, CompactSkips
    <3>2. step(a, n) = a
      BY <2>3, <2>8
    <3>3. In(n + 1, a)
      BY <2>3, <2>4, <3>1 DEF In
    <3> QED
      BY <2>1, <2>2, <3>2, <3>3 DEF A
  <2> QED
    BY <2>7, <2>8
<1> HIDE DEF In
<1> HIDE DEF A
<1>3. Leads(F, len, A)
  BY <1>2 DEF Leads
<1> HIDE DEF F, step, start
<1>4. PICK f : Runs(f, len, start, F) /\ \A n \in 0 .. len : f[n] \in A[n]
  BY <1>1, <1>3, LoopExists
<1>5. f = [n \in 0 .. len |-> IF n = 0 THEN start ELSE step(f[n - 1], n - 1)]
  <2>1. ASSUME NEW n \in 0 .. len PROVE f[n] = IF n = 0 THEN start ELSE step(f[n - 1], n - 1)
    <3>1. CASE n = 0
      BY <1>4, <3>1 DEF Runs
    <3>2. CASE n # 0
      <4>1. n - 1 \in 0 .. len - 1 /\ n - 1 \in 0 .. len
        BY <3>2
      <4>2. f[n] = F[n - 1][f[n - 1]] /\ f[n - 1] \in A[n - 1]
        BY <1>4, <3>2, <4>1 DEF Runs
      <4> QED
        BY <3>2, <4>1, <4>2 DEF F
    <3> QED
      BY <3>1, <3>2
  <2> QED
    BY <1>4, <2>1 DEF Runs
<1>6. PICK g : /\ g = [n \in 0 .. len |-> IF n = 0 THEN start ELSE step(g[n - 1], n - 1)]
               /\ remove(u, p) = g[len]
  BY <1>a, <1>5 DEF remove, Loop, step, start
<1>7. g[len] \in A[len]
  <2>1. g[0] \in A[0]
    BY <1>1, <1>6
  <2>2. ASSUME NEW n \in 0 .. len - 1, g[n] \in A[n] PROVE g[n + 1] \in A[n + 1]
    <3>1. g[n + 1] = step(g[n], n)
      BY <1>6
    <3> QED
      BY <1>2, <2>2, <3>1
  <2> QED
    BY <2>1, <2>2, LoopKeeps
<1>8. g[len] \in [s : Spans, out : Nat] /\ In(len, g[len])
  <2>1. A[len] = { a \in [s : Spans, out : Nat] : In(len, a) }
    BY DEF A
  <2> QED
    BY <1>7, <2>1
<1>9. Reduction(u, g[len])
  BY <1>a, <1>8 DEF In, Reduction
<1> QED
  BY <1>a, <1>b, <1>6, <1>8, <1>9 DEF In

\* The positions of the first of each run of equal elements.
Firsts(u) == { i \in 0 .. Len(u) - 1 : i = 0 \/ rank(u[i].key) # rank(u[i + 1].key) }

LEMMA KeepsUnique ==
  ASSUME NEW u, Numbered(u)
  PROVE  /\ Reduction(u, unique(u))
         /\ Compact(u, Firsts(u), Len(u), unique(u).s, unique(u).out)
<1>a. PICK len \in Nat : len = Len(u) /\ u \in Spans
  BY Positions DEF Numbered
<1>b. PICK P : P = Firsts(u)
  OBVIOUS
<1> DEFINE step(a, i) ==
             IF i = 0 \/ cmp(get(a.s, a.out - 1), get(a.s, i)) # 0 THEN Moved(a, i) ELSE a
           start == [s |-> u, out |-> 0]
           Latest(n, t, o) == n > 0 => o > 0 /\ rank(t[o].key) = rank(u[n].key)
           In(n, a) == /\ Len(a.s) = len /\ a.out <= n
                       /\ Compact(u, P, n, a.s, a.out)
                       /\ Latest(n, a.s, a.out)
           A == [n \in 0 .. len |-> { a \in [s : Spans, out : Nat] : In(n, a) }]
           F == [n \in 0 .. len - 1 |-> [a \in A[n] |-> step(a, n)]]
<1>1. start \in A[0]
  BY <1>a, CompactStart
<1>2. ASSUME NEW n \in 0 .. len - 1, NEW a \in A[n] PROVE step(a, n) \in A[n + 1]
  <2>1. n \in 0 .. len /\ n + 1 \in 0 .. len /\ n \in Nat
    OBVIOUS
  <2>2. a \in [s : Spans, out : Nat] /\ In(n, a)
    BY <2>1
  <2>3. PICK t \in Spans, o \in Nat : a = [s |-> t, out |-> o]
    BY <2>2
  <2>4. Len(t) = len /\ o \in 0 .. n /\ Compact(u, P, n, t, o) /\ Latest(n, t, o)
    BY <2>2, <2>3
  <2> HIDE DEF In, A
  <2>5. PICK v \in Spans : /\ Moved(a, n) = [s |-> v, out |-> o + 1] /\ Len(v) = len
                           /\ \A k \in 1 .. Len(t) : v[k] = IF k = o + 1 THEN t[n + 1] ELSE t[k]
    BY <2>3, <2>4, MovesOne
  <2>6. t[n + 1] = u[n + 1] /\ n + 1 \in 1 .. len
    <3>1. n + 1 \in o + 1 .. len
      BY <2>4
    <3> QED
      BY <1>a, <2>4, <3>1 DEF Compact, Behind
  <2>7. n = 0 \/ cmp(get(t, o - 1), get(t, n)) # 0 <=> n \in P
    <3>1. CASE n = 0
      BY <1>a, <1>b, <2>6, <3>1 DEF Firsts
    <3>2. CASE n # 0
      <4>1. o \in 1 .. len /\ rank(t[o].key) = rank(u[n].key)
        BY <2>4, <3>2
      <4>2. get(t, o - 1) = t[o] /\ get(t, n) = u[n + 1] /\ t[o] \in Element /\ u[n + 1] \in Element
        BY <1>a, <2>4, <2>6, <4>1, Positions DEF get
      <4>3. cmp(t[o], u[n + 1]) # 0 <=> rank(t[o].key) # rank(u[n + 1].key)
        BY <4>2, ComparesElements
      <4>4. n \in P <=> rank(u[n].key) # rank(u[n + 1].key)
        BY <1>a, <1>b, <3>2 DEF Firsts
      <4> QED
        BY <3>2, <4>1, <4>2, <4>3, <4>4
    <3> QED
      BY <3>1, <3>2
  <2>8. CASE n \in P
    <3>1. Compact(u, P, n + 1, v, o + 1)
      BY <1>a, <2>4, <2>5, <2>8, CompactMoves
    <3>2. step(a, n) = [s |-> v, out |-> o + 1]
      BY <2>3, <2>5, <2>7, <2>8
    <3>3. v[o + 1] = u[n + 1]
      BY <2>4, <2>5, <2>6
    <3>4. In(n + 1, [s |-> v, out |-> o + 1])
      BY <2>4, <2>5, <3>1, <3>3 DEF In
    <3> QED
      BY <2>1, <3>2, <3>4 DEF A
  <2>9. CASE n \notin P
    <3>1. Compact(u, P, n + 1, t, o)
      BY <1>a, <2>1, <2>4, <2>9, CompactSkips
    <3>2. step(a, n) = a
      BY <2>3, <2>7, <2>9
    <3>3. n # 0 /\ rank(u[n].key) = rank(u[n + 1].key)
      BY <1>a, <1>b, <2>9 DEF Firsts
    <3>4. In(n + 1, a)
      BY <2>3, <2>4, <3>1, <3>3 DEF In
    <3> QED
      BY <2>1, <2>2, <3>2, <3>4 DEF A
  <2> QED
    BY <2>8, <2>9
<1> HIDE DEF In
<1> HIDE DEF A
<1>3. Leads(F, len, A)
  BY <1>2 DEF Leads
<1> HIDE DEF F, step, start
<1>4. PICK f : Runs(f, len, start, F) /\ \A n \in 0 .. len : f[n] \in A[n]
  BY <1>1, <1>3, LoopExists
<1>5. f = [n \in 0 .. len |-> IF n = 0 THEN start ELSE step(f[n - 1], n - 1)]
  <2>1. ASSUME NEW n \in 0 .. len PROVE f[n] = IF n = 0 THEN start ELSE step(f[n - 1], n - 1)
    <3>1. CASE n = 0
      BY <1>4, <3>1 DEF Runs
    <3>2. CASE n # 0
      <4>1. n - 1 \in 0 .. len - 1 /\ n - 1 \in 0 .. len
        BY <3>2
      <4>2. f[n] = F[n - 1][f[n - 1]] /\ f[n - 1] \in A[n - 1]
        BY <1>4, <3>2, <4>1 DEF Runs
      <4> QED
        BY <3>2, <4>1, <4>2 DEF F
    <3> QED
      BY <3>1, <3>2
  <2> QED
    BY <1>4, <2>1 DEF Runs
<1>6. PICK g : /\ g = [n \in 0 .. len |-> IF n = 0 THEN start ELSE step(g[n - 1], n - 1)]
               /\ unique(u) = g[len]
  BY <1>a, <1>5 DEF unique, Loop, step, start
<1>7. g[len] \in A[len]
  <2>1. g[0] \in A[0]
    BY <1>1, <1>6
  <2>2. ASSUME NEW n \in 0 .. len - 1, g[n] \in A[n] PROVE g[n + 1] \in A[n + 1]
    <3>1. g[n + 1] = step(g[n], n)
      BY <1>6
    <3> QED
      BY <1>2, <2>2, <3>1
  <2> QED
    BY <2>1, <2>2, LoopKeeps
<1>8. g[len] \in [s : Spans, out : Nat] /\ In(len, g[len])
  <2>1. A[len] = { a \in [s : Spans, out : Nat] : In(len, a) }
    BY DEF A
  <2> QED
    BY <1>7, <2>1
<1>9. Reduction(u, g[len])
  BY <1>a, <1>8 DEF In, Reduction
<1> QED
  BY <1>a, <1>b, <1>6, <1>8, <1>9 DEF In

\* Replaced: the elements whose positions are in E are now y.
Replaced(u, E, n, t, y) == \A k \in 1 .. Len(u) : t[k] = IF k <= n /\ k - 1 \in E THEN y ELSE u[k]

LEMMA ReplacesOne ==
  ASSUME NEW u \in Spans, NEW E, NEW n \in 0 .. Len(u) - 1, NEW y \in Element,
         NEW t \in Spans, Len(t) = Len(u), Replaced(u, E, n, t, y)
  PROVE  /\ get(t, n) = get(u, n)
         /\ n \notin E => Replaced(u, E, n + 1, t, y)
         /\ n \in E => Replaced(u, E, n + 1, set(t, n, y), y)
         /\ \A p : Fits(u, p) /\ Deref(u, p) = y => Deref(t, p) = y
<1>1. Len(u) \in Nat /\ n + 1 \in 1 .. Len(u) /\ ~(n + 1 <= n)
  BY Positions
<1>2. get(t, n) = get(u, n)
  BY <1>1 DEF Replaced, get
<1>3. \A k \in 1 .. Len(u) : k <= n + 1 <=> k <= n \/ k - 1 = n
  BY <1>1
<1>4. ASSUME n \notin E PROVE Replaced(u, E, n + 1, t, y)
  <2>1. \A k \in 1 .. Len(u) : (k <= n + 1 /\ k - 1 \in E) <=> (k <= n /\ k - 1 \in E)
    BY <1>3, <1>4
  <2> QED
    BY <2>1 DEF Replaced
<1>5. ASSUME n \in E PROVE Replaced(u, E, n + 1, set(t, n, y), y)
  <2>1. PICK v : v = set(t, n, y)
    OBVIOUS
  <2>2. \A k \in 1 .. Len(u) : v[k] = IF k = n + 1 THEN y ELSE t[k]
    BY <2>1, SetSpan
  <2>3. SUFFICES ASSUME NEW k \in 1 .. Len(u) PROVE v[k] = IF k <= n + 1 /\ k - 1 \in E THEN y ELSE u[k]
    BY <2>1 DEF Replaced
  <2>4. CASE k = n + 1
    <3>1. k - 1 = n /\ k <= n + 1
      BY <1>1, <2>4
    <3> QED
      BY <1>5, <2>2, <2>4, <3>1
  <2>5. CASE k # n + 1
    <3>1. k <= n + 1 <=> k <= n
      BY <1>1, <2>5
    <3> QED
      BY <2>2, <2>5, <3>1 DEF Replaced
  <2> QED
    BY <2>4, <2>5
<1>6. ASSUME NEW p, Fits(u, p), Deref(u, p) = y PROVE Deref(t, p) = y
  <2>1. CASE p.at = -1
    BY <1>6, <2>1 DEF Deref
  <2>2. CASE p.at # -1
    <3>1. p.at + 1 \in 1 .. Len(u) /\ u[p.at + 1] = y
      BY <1>1, <1>6, <2>2 DEF Fits, Deref, get
    <3>2. t[p.at + 1] = y
      BY <3>1 DEF Replaced
    <3> QED
      BY <2>2, <3>2 DEF Deref, get
  <2> QED
    BY <2>1, <2>2
<1> QED
  BY <1>2, <1>4, <1>5, <1>6

LEMMA FitsToo ==
  ASSUME NEW u, NEW t, Len(t) = Len(u), NEW p, Fits(u, p)
  PROVE  Fits(t, p)
BY DEF Fits

\* replace_if.
LEMMA ReplacesIf ==
  ASSUME NEW u \in Spans, NEW pred, NEW p, Fits(u, p)
  PROVE  /\ Reduction(u, replace_if(u, pred, p))
         /\ Replaced(u, { i \in 0 .. Len(u) - 1 : u[i + 1].key \in pred }, Len(u),
                     replace_if(u, pred, p).s, Deref(u, p))
<1>a. PICK len \in Nat : len = Len(u) /\ u \in Spans
  BY Positions
<1>b. PICK P : P = { i \in 0 .. len - 1 : u[i + 1].key \in pred }
  OBVIOUS
<1>c. PICK y \in Element : y = Deref(u, p)
  BY Dereferenced
<1> DEFINE step(a, i) == IF get(a.s, i).key \in pred
                         THEN [s |-> set(a.s, i, Deref(a.s, p)), out |-> a.out + 1] ELSE a
           start == [s |-> u, out |-> 0]
           In(n, a) == Len(a.s) = len /\ a.out <= n /\ Replaced(u, P, n, a.s, y)
           A == [n \in 0 .. len |-> { a \in [s : Spans, out : Nat] : In(n, a) }]
           F == [n \in 0 .. len - 1 |-> [a \in A[n] |-> step(a, n)]]
<1>1. start \in A[0]
  <2>1. Replaced(u, P, 0, u, y)
    BY DEF Replaced
  <2> QED
    BY <1>a, <2>1
<1>2. ASSUME NEW n \in 0 .. len - 1, NEW a \in A[n] PROVE step(a, n) \in A[n + 1]
  <2>1. n \in 0 .. len /\ n + 1 \in 0 .. len /\ n \in Nat
    OBVIOUS
  <2>2. a \in [s : Spans, out : Nat] /\ In(n, a)
    BY <2>1
  <2>3. PICK t \in Spans, o \in Nat : a = [s |-> t, out |-> o]
    BY <2>2
  <2>4. Len(t) = len /\ o <= n /\ Replaced(u, P, n, t, y) /\ n \in 0 .. Len(t) - 1
    BY <2>2, <2>3
  <2> HIDE DEF In, A
  <2>5. /\ get(t, n) = get(u, n) /\ Deref(t, p) = y
        /\ n \notin P => Replaced(u, P, n + 1, t, y)
        /\ n \in P => Replaced(u, P, n + 1, set(t, n, y), y)
    BY <1>a, <1>c, <2>4, ReplacesOne
  <2>6. set(t, n, y) \in Spans /\ Len(set(t, n, y)) = len
    BY <2>4, SetSpan
  <2>7. get(t, n).key \in pred <=> n \in P
    BY <1>b, <2>5 DEF get
  <2>8. CASE n \in P
    <3>1. step(a, n) = [s |-> set(t, n, y), out |-> o + 1]
      BY <2>3, <2>5, <2>7, <2>8
    <3>2. In(n + 1, [s |-> set(t, n, y), out |-> o + 1])
      BY <2>4, <2>5, <2>6, <2>8 DEF In
    <3> QED
      BY <2>1, <2>6, <3>1, <3>2 DEF A
  <2>9. CASE n \notin P
    <3>1. step(a, n) = a
      BY <2>3, <2>7, <2>9
    <3>2. In(n + 1, a)
      BY <2>3, <2>4, <2>5, <2>9 DEF In
    <3> QED
      BY <2>1, <2>2, <3>1, <3>2 DEF A
  <2> QED
    BY <2>8, <2>9
<1> HIDE DEF In
<1> HIDE DEF A
<1>3. Leads(F, len, A)
  BY <1>2 DEF Leads
<1> HIDE DEF F, step, start
<1>4. PICK f : Runs(f, len, start, F) /\ \A n \in 0 .. len : f[n] \in A[n]
  BY <1>1, <1>3, LoopExists
<1>5. f = [n \in 0 .. len |-> IF n = 0 THEN start ELSE step(f[n - 1], n - 1)]
  <2>1. ASSUME NEW n \in 0 .. len PROVE f[n] = IF n = 0 THEN start ELSE step(f[n - 1], n - 1)
    <3>1. CASE n = 0
      BY <1>4, <3>1 DEF Runs
    <3>2. CASE n # 0
      <4>1. n - 1 \in 0 .. len - 1 /\ n - 1 \in 0 .. len
        BY <3>2
      <4>2. f[n] = F[n - 1][f[n - 1]] /\ f[n - 1] \in A[n - 1]
        BY <1>4, <3>2, <4>1 DEF Runs
      <4> QED
        BY <3>2, <4>1, <4>2 DEF F
    <3> QED
      BY <3>1, <3>2
  <2> QED
    BY <1>4, <2>1 DEF Runs
<1>6. PICK g : /\ g = [n \in 0 .. len |-> IF n = 0 THEN start ELSE step(g[n - 1], n - 1)]
               /\ replace_if(u, pred, p) = g[len]
  BY <1>a, <1>5 DEF replace_if, Loop, step, start
<1>7. g[len] \in A[len]
  <2>1. g[0] \in A[0]
    BY <1>1, <1>6
  <2>2. ASSUME NEW n \in 0 .. len - 1, g[n] \in A[n] PROVE g[n + 1] \in A[n + 1]
    <3>1. g[n + 1] = step(g[n], n)
      BY <1>6
    <3> QED
      BY <1>2, <2>2, <3>1
  <2> QED
    BY <2>1, <2>2, LoopKeeps
<1>8. g[len] \in [s : Spans, out : Nat] /\ In(len, g[len])
  <2>1. A[len] = { a \in [s : Spans, out : Nat] : In(len, a) }
    BY DEF A
  <2> QED
    BY <1>7, <2>1
<1>9. Reduction(u, g[len])
  BY <1>a, <1>8 DEF In, Reduction
<1> QED
  BY <1>a, <1>b, <1>c, <1>6, <1>8, <1>9 DEF In

\* The old element may lie in the span if none after it equals it or the new one.
Equals(u, p) == { i \in 0 .. Len(u) - 1 : cmp(get(u, i), Deref(u, p)) = 0 }
OldStays(u, p, q) ==
  p.at = -1 \/ \A i \in p.at + 1 .. Len(u) - 1 :
                 cmp(get(u, i), Deref(u, p)) # 0 /\ cmp(get(u, i), Deref(u, q)) # 0

LEMMA Replaces ==
  ASSUME NEW u \in Spans, NEW p, Fits(u, p), NEW q, Fits(u, q)
  PROVE  /\ Reduction(u, replace(u, p, q))
         /\ OldStays(u, p, q) =>
              /\ Replaced(u, Equals(u, p), Len(u), replace(u, p, q).s, Deref(u, q))
              /\ replace(u, p, q).out = Cnt(Equals(u, p), Len(u))
<1>a. PICK len \in Nat : len = Len(u) /\ u \in Spans
  BY Positions
<1>b. PICK P : P = Equals(u, p)
  OBVIOUS
<1>c. PICK y \in Element : y = Deref(u, q)
  BY Dereferenced
<1>d. PICK x \in Element : x = Deref(u, p)
  BY Dereferenced
<1> DEFINE step(a, i) == IF cmp(get(a.s, i), Deref(a.s, p)) = 0
                         THEN [s |-> set(a.s, i, Deref(a.s, q)), out |-> a.out + 1] ELSE a
           start == [s |-> u, out |-> 0]
           Right(n, t, o) == Replaced(u, P, n, t, y) /\ o = Cnt(P, n)
           In(n, a) == /\ Len(a.s) = len /\ a.out <= n
                       /\ OldStays(u, p, q) => Right(n, a.s, a.out)
           A == [n \in 0 .. len |-> { a \in [s : Spans, out : Nat] : In(n, a) }]
           F == [n \in 0 .. len - 1 |-> [a \in A[n] |-> step(a, n)]]
<1>1. start \in A[0]
  <2>1. Right(0, u, 0)
    BY Counted DEF Replaced
  <2> QED
    BY <1>a, <2>1
<1>2. ASSUME NEW n \in 0 .. len - 1, NEW a \in A[n] PROVE step(a, n) \in A[n + 1]
  <2>1. n \in 0 .. len /\ n + 1 \in 0 .. len /\ n \in Nat
    OBVIOUS
  <2>2. a \in [s : Spans, out : Nat] /\ In(n, a)
    BY <2>1
  <2>3. PICK t \in Spans, o \in Nat : a = [s |-> t, out |-> o]
    BY <2>2
  <2>4. /\ Len(t) = len /\ o <= n /\ n \in 0 .. Len(t) - 1
        /\ OldStays(u, p, q) => Right(n, t, o)
    BY <2>2, <2>3
  <2> HIDE DEF In, A
  <2>5. PICK z \in Element : z = Deref(t, q)
    BY <1>a, <2>4, FitsToo, Dereferenced
  <2>6. set(t, n, z) \in Spans /\ Len(set(t, n, z)) = len
    BY <2>4, SetSpan
  <2>7. ASSUME OldStays(u, p, q)
        PROVE  /\ z = y
               /\ cmp(get(t, n), Deref(t, p)) = 0 <=> n \in P
               /\ n \notin P => Right(n + 1, t, o)
               /\ n \in P => Right(n + 1, set(t, n, y), o + 1)
    <3>1. Replaced(u, P, n, t, y) /\ o = Cnt(P, n) /\ n \in 0 .. Len(u) - 1
      BY <1>a, <2>4, <2>7
    <3>2. /\ get(t, n) = get(u, n) /\ Deref(t, q) = y
          /\ n \notin P => Replaced(u, P, n + 1, t, y)
          /\ n \in P => Replaced(u, P, n + 1, set(t, n, y), y)
      BY <1>a, <1>c, <2>4, <3>1, ReplacesOne
    <3>3. Cnt(P, n + 1) = IF n \in P THEN o + 1 ELSE o
      BY <2>1, <3>1, Counted
    <3>4. n \in P <=> cmp(get(u, n), x) = 0
      BY <1>b, <1>d, <3>1 DEF Equals
    <3>5. cmp(get(t, n), Deref(t, p)) = 0 <=> n \in P
      <4>1. CASE p.at = -1
        BY <1>d, <3>2, <3>4, <4>1 DEF Deref
      <4>2. CASE p.at # -1 /\ n <= p.at
        <5>1. p.at + 1 \in 1 .. len /\ ~(p.at + 1 <= n)
          BY <1>a, <4>2 DEF Fits
        <5>2. t[p.at + 1] = u[p.at + 1]
          BY <1>a, <3>1, <5>1 DEF Replaced
        <5>3. Deref(t, p) = x
          BY <1>d, <4>2, <5>2 DEF Deref, get
        <5> QED
          BY <3>2, <3>4, <5>3
      <4>3. CASE p.at # -1 /\ ~(n <= p.at)
        <5>1. p.at \in 0 .. len - 1 /\ p.at + 1 \in 1 .. len /\ p.at + 1 <= n /\ (p.at + 1) - 1 = p.at
          BY <1>a, <4>3 DEF Fits
        <5>2. x = get(u, p.at)
          BY <1>d, <4>3 DEF Deref
        <5>3. p.at \in P
          BY <1>a, <1>b, <1>d, <5>1, <5>2, ComparesElements DEF Equals
        <5>4. Deref(t, p) = y
          BY <1>a, <3>1, <4>3, <5>1, <5>3 DEF Replaced, Deref, get
        <5>5. n \in p.at + 1 .. Len(u) - 1
          BY <1>a, <5>1
        <5>6. cmp(get(u, n), x) # 0 /\ cmp(get(u, n), y) # 0
          BY <1>c, <1>d, <2>7, <4>3, <5>5 DEF OldStays
        <5> QED
          BY <3>2, <3>4, <5>4, <5>6
      <4> QED
        BY <4>1, <4>2, <4>3
    <3> QED
      BY <2>5, <3>2, <3>3, <3>5
  <2> HIDE DEF Right
  <2>8. CASE cmp(get(t, n), Deref(t, p)) = 0
    <3>1. step(a, n) = [s |-> set(t, n, z), out |-> o + 1]
      BY <2>3, <2>5, <2>8
    <3>2. In(n + 1, [s |-> set(t, n, z), out |-> o + 1])
      BY <2>4, <2>6, <2>7, <2>8 DEF In
    <3> QED
      BY <2>1, <2>6, <3>1, <3>2 DEF A
  <2>9. CASE cmp(get(t, n), Deref(t, p)) # 0
    <3>1. step(a, n) = a
      BY <2>3, <2>9
    <3>2. In(n + 1, a)
      BY <2>3, <2>4, <2>7, <2>9 DEF In
    <3> QED
      BY <2>1, <2>2, <3>1, <3>2 DEF A
  <2> QED
    BY <2>8, <2>9
<1> HIDE DEF In
<1> HIDE DEF A
<1>3. Leads(F, len, A)
  BY <1>2 DEF Leads
<1> HIDE DEF F, step, start
<1>4. PICK f : Runs(f, len, start, F) /\ \A n \in 0 .. len : f[n] \in A[n]
  BY <1>1, <1>3, LoopExists
<1>5. f = [n \in 0 .. len |-> IF n = 0 THEN start ELSE step(f[n - 1], n - 1)]
  <2>1. ASSUME NEW n \in 0 .. len PROVE f[n] = IF n = 0 THEN start ELSE step(f[n - 1], n - 1)
    <3>1. CASE n = 0
      BY <1>4, <3>1 DEF Runs
    <3>2. CASE n # 0
      <4>1. n - 1 \in 0 .. len - 1 /\ n - 1 \in 0 .. len
        BY <3>2
      <4>2. f[n] = F[n - 1][f[n - 1]] /\ f[n - 1] \in A[n - 1]
        BY <1>4, <3>2, <4>1 DEF Runs
      <4> QED
        BY <3>2, <4>1, <4>2 DEF F
    <3> QED
      BY <3>1, <3>2
  <2> QED
    BY <1>4, <2>1 DEF Runs
<1>6. PICK g : /\ g = [n \in 0 .. len |-> IF n = 0 THEN start ELSE step(g[n - 1], n - 1)]
               /\ replace(u, p, q) = g[len]
  BY <1>a, <1>5 DEF replace, Loop, step, start
<1>7. g[len] \in A[len]
  <2>1. g[0] \in A[0]
    BY <1>1, <1>6
  <2>2. ASSUME NEW n \in 0 .. len - 1, g[n] \in A[n] PROVE g[n + 1] \in A[n + 1]
    <3>1. g[n + 1] = step(g[n], n)
      BY <1>6
    <3> QED
      BY <1>2, <2>2, <3>1
  <2> QED
    BY <2>1, <2>2, LoopKeeps
<1>8. g[len] \in [s : Spans, out : Nat] /\ In(len, g[len])
  <2>1. A[len] = { a \in [s : Spans, out : Nat] : In(len, a) }
    BY DEF A
  <2> QED
    BY <1>7, <2>1
<1>9. Reduction(u, g[len])
  BY <1>a, <1>8 DEF In, Reduction
<1> QED
  BY <1>a, <1>b, <1>c, <1>6, <1>8, <1>9 DEF In, Right

-----------------------------------------------------------------------------
(* merge.c and the stable sort of sort.c.                                  *)

\* The order that the stable sort leaves: equal elements as they came.
Lex(x, y)    == \/ rank(x.key) < rank(y.key)
                \/ rank(x.key) = rank(y.key) /\ x.tag < y.tag
Sorted(u)    == \A i, j \in 1 .. Len(u) : i < j => Lex(u[i], u[j])
Apart(a, b)  == \A i \in 1 .. Len(a), j \in 1 .. Len(b) : a[i].tag < b[j].tag

LEMMA LexOrder ==
  ASSUME NEW x \in Element, NEW y \in Element, NEW z \in Element
  PROVE  /\ Lex(x, y) /\ Lex(y, z) => Lex(x, z)
         /\ cmp(x, y) <= 0 /\ x.tag < y.tag => Lex(x, y)
         /\ ~(cmp(x, y) <= 0) => Lex(y, x)
         /\ Lex(x, y) => rank(x.key) <= rank(y.key)
<1>1. rank(x.key) \in Int /\ rank(y.key) \in Int /\ rank(z.key) \in Int
  BY ComparesElements
<1>2. cmp(x, y) <= 0 <=> rank(x.key) <= rank(y.key)
  BY <1>1, ComparesElements
<1>3. x.tag \in Nat /\ y.tag \in Nat /\ z.tag \in Nat
  BY DEF Element
<1> QED
  BY <1>1, <1>2, <1>3 DEF Lex

\* dst holds the first i elements of a and the first j of b, and they come
\* before the others.
Mixed(a, b, i, j, dst) ==
  /\ \A k \in 1 .. Len(dst) : (\E x \in 1 .. i : dst[k] = a[x]) \/ (\E x \in 1 .. j : dst[k] = b[x])
  /\ \A x \in 1 .. i : \E k \in 1 .. Len(dst) : dst[k] = a[x]
  /\ \A x \in 1 .. j : \E k \in 1 .. Len(dst) : dst[k] = b[x]
Ahead(a, i, dst) == \A k \in 1 .. Len(dst) : \A x \in i + 1 .. Len(a) : Lex(dst[k], a[x])
InFront(a, b, i, j, dst) == Sorted(dst) /\ Ahead(a, i, dst) /\ Ahead(b, j, dst)

LEMMA MixedSwaps ==
  ASSUME NEW a, NEW b, NEW i, NEW j, NEW dst, Mixed(a, b, i, j, dst)
  PROVE  Mixed(b, a, j, i, dst)
BY DEF Mixed

LEMMA Appended ==
  ASSUME NEW t \in Spans, NEW x \in Element
  PROVE  /\ Append(t, x) \in Spans /\ Len(Append(t, x)) = Len(t) + 1
         /\ \A k \in 1 .. Len(t) : Append(t, x)[k] = t[k]
         /\ Append(t, x)[Len(t) + 1] = x
BY DEF Spans

LEMMA TakesNext ==
  ASSUME NEW a \in Spans, NEW b \in Spans, NEW i \in 0 .. Len(a) - 1, NEW j \in 0 .. Len(b),
         NEW dst \in Spans, Mixed(a, b, i, j, dst)
  PROVE  Mixed(a, b, i + 1, j, Append(dst, a[i + 1]))
<1>1. PICK e \in Element : e = a[i + 1]
  BY Positions
<1>2. PICK n \in Nat : n = Len(dst)
  BY Positions
<1>3. PICK d : d = Append(dst, e)
  OBVIOUS
<1>4. d \in Spans /\ Len(d) = n + 1 /\ (\A k \in 1 .. n : d[k] = dst[k]) /\ d[n + 1] = e
  BY <1>2, <1>3, Appended
<1>5. i + 1 \in 1 .. i + 1 /\ n + 1 \in 1 .. n + 1 /\ i \in Nat
  BY <1>2, Positions
<1>6. ASSUME NEW k \in 1 .. n + 1
      PROVE  (\E x \in 1 .. i + 1 : d[k] = a[x]) \/ (\E x \in 1 .. j : d[k] = b[x])
  <2>1. CASE k = n + 1
    BY <1>1, <1>4, <1>5, <2>1
  <2>2. CASE k # n + 1
    <3>1. k \in 1 .. n /\ d[k] = dst[k]
      BY <1>2, <1>4, <2>2
    <3>2. (\E x \in 1 .. i : d[k] = a[x]) \/ (\E x \in 1 .. j : d[k] = b[x])
      BY <1>2, <3>1 DEF Mixed
    <3>3. \A x \in 1 .. i : x \in 1 .. i + 1
      BY <1>5
    <3> QED
      BY <3>2, <3>3
  <2> QED
    BY <2>1, <2>2
<1>7. ASSUME NEW x \in 1 .. i + 1 PROVE \E k \in 1 .. n + 1 : d[k] = a[x]
  <2>1. CASE x = i + 1
    BY <1>1, <1>4, <1>5, <2>1
  <2>2. CASE x # i + 1
    <3>1. x \in 1 .. i
      BY <1>5, <2>2
    <3>2. PICK k \in 1 .. n : dst[k] = a[x]
      BY <1>2, <3>1 DEF Mixed
    <3>3. k \in 1 .. n + 1 /\ d[k] = a[x]
      BY <1>2, <1>4, <3>2
    <3> QED
      BY <3>3
  <2> QED
    BY <2>1, <2>2
<1>8. ASSUME NEW x \in 1 .. j PROVE \E k \in 1 .. n + 1 : d[k] = b[x]
  <2>1. PICK k \in 1 .. n : dst[k] = b[x]
    BY <1>2 DEF Mixed
  <2>2. k \in 1 .. n + 1 /\ d[k] = b[x]
    BY <1>2, <1>4, <2>1
  <2> QED
    BY <2>2
<1> QED
  BY <1>1, <1>3, <1>4, <1>6, <1>7, <1>8 DEF Mixed

LEMMA StaysInFront ==
  ASSUME NEW a \in Spans, NEW b \in Spans, NEW i \in 0 .. Len(a) - 1, NEW j \in 0 .. Len(b),
         NEW dst \in Spans, InFront(a, b, i, j, dst), Sorted(a),
         \A x \in j + 1 .. Len(b) : Lex(a[i + 1], b[x])
  PROVE  InFront(a, b, i + 1, j, Append(dst, a[i + 1]))
<1>1. PICK e \in Element : e = a[i + 1]
  BY Positions
<1>2. PICK n \in Nat : n = Len(dst)
  BY Positions
<1>3. PICK d : d = Append(dst, e)
  OBVIOUS
<1>4. d \in Spans /\ Len(d) = n + 1 /\ (\A k \in 1 .. n : d[k] = dst[k]) /\ d[n + 1] = e
  BY <1>2, <1>3, Appended
<1>5. PICK L \in Nat : L = Len(a) /\ i + 1 \in i + 1 .. L /\ i + 1 \in 1 .. L
  BY Positions
<1>6. \A k \in 1 .. n + 1 : k \in 1 .. n \/ k = n + 1
  BY <1>2
<1>7. \A k \in 1 .. n : Lex(dst[k], e)
  BY <1>1, <1>2, <1>5 DEF InFront, Ahead
<1>8. Sorted(d)
  <2>1. SUFFICES ASSUME NEW p \in 1 .. n + 1, NEW q \in 1 .. n + 1, p < q PROVE Lex(d[p], d[q])
    BY <1>4 DEF Sorted
  <2>2. p \in 1 .. n /\ d[p] = dst[p]
    BY <1>2, <1>4, <2>1
  <2>3. CASE q = n + 1
    BY <1>4, <1>7, <2>2, <2>3
  <2>4. CASE q \in 1 .. n
    BY <1>2, <1>4, <2>1, <2>2, <2>4 DEF InFront, Sorted
  <2> QED
    BY <1>6, <2>3, <2>4
<1>9. Ahead(a, i + 1, d)
  <2>1. SUFFICES ASSUME NEW k \in 1 .. n + 1, NEW x \in i + 1 + 1 .. L PROVE Lex(d[k], a[x])
    BY <1>4, <1>5 DEF Ahead
  <2>2. x \in i + 1 .. L /\ x \in 1 .. L /\ i + 1 < x
    BY <1>5
  <2>3. CASE k = n + 1
    BY <1>1, <1>4, <1>5, <2>2, <2>3 DEF Sorted
  <2>4. CASE k \in 1 .. n
    BY <1>2, <1>4, <1>5, <2>2, <2>4 DEF InFront, Ahead
  <2> QED
    BY <1>6, <2>3, <2>4
<1>10. Ahead(b, j, d)
  <2>1. SUFFICES ASSUME NEW k \in 1 .. n + 1, NEW x \in j + 1 .. Len(b) PROVE Lex(d[k], b[x])
    BY <1>4 DEF Ahead
  <2>2. CASE k = n + 1
    BY <1>1, <1>4, <2>2
  <2>3. CASE k \in 1 .. n
    BY <1>2, <1>4, <2>3 DEF InFront, Ahead
  <2> QED
    BY <1>6, <2>2, <2>3
<1> QED
  BY <1>1, <1>3, <1>8, <1>9, <1>10 DEF InFront

\* The next element of a comes before what is left of b if it comes before the
\* first of that.
LEMMA BeforeRest ==
  ASSUME NEW b \in Spans, Sorted(b), NEW j \in 0 .. Len(b) - 1, NEW e \in Element, Lex(e, b[j + 1])
  PROVE  \A x \in j + 1 .. Len(b) : Lex(e, b[x])
<1>1. TAKE x \in j + 1 .. Len(b)
<1>2. Len(b) \in Nat
  BY Positions
<1>3. x \in 1 .. Len(b) /\ j + 1 \in 1 .. Len(b)
  BY <1>2
<1>4. b[x] \in Element /\ b[j + 1] \in Element
  BY <1>3, Positions
<1>5. CASE x = j + 1
  BY <1>5
<1>6. CASE x # j + 1
  <2>1. j + 1 < x
    BY <1>2, <1>6
  <2>2. Lex(b[j + 1], b[x])
    BY <1>3, <2>1 DEF Sorted
  <2> QED
    BY <1>4, <2>2, LexOrder
<1> QED
  BY <1>5, <1>6

LEMMA Merges ==
  ASSUME NEW a \in Spans, NEW b \in Spans
  PROVE  /\ merge(a, b) \in Spans /\ Len(merge(a, b)) = Len(a) + Len(b)
         /\ ToSet(merge(a, b)) = ToSet(a) \union ToSet(b)
         /\ Sorted(a) /\ Sorted(b) /\ Apart(a, b) => Sorted(merge(a, b))
<1>a. PICK la \in Nat, lb \in Nat : la = Len(a) /\ lb = Len(b)
  BY Positions
<1>b. PICK len \in Nat : len = la + lb
  OBVIOUS
<1> DEFINE step(m, n) ==
             LET j == n - m.i
             IN IF j = Len(b) \/ (m.i < Len(a) /\ TakesLeft(get(a, m.i), get(b, j)))
                THEN [i |-> m.i + 1, dst |-> Append(m.dst, get(a, m.i))]
                ELSE [m EXCEPT !.dst = Append(@, get(b, j))]
           start == [i |-> 0, dst |-> <<>>]
           Good == Sorted(a) /\ Sorted(b) /\ Apart(a, b)
           In(n, m) == /\ n - m.i \in 0 .. lb /\ Len(m.dst) = n
                       /\ Mixed(a, b, m.i, n - m.i, m.dst)
                       /\ Good => InFront(a, b, m.i, n - m.i, m.dst)
           A == [n \in 0 .. len |-> { m \in [i : 0 .. la, dst : Spans] : In(n, m) }]
           F == [n \in 0 .. len - 1 |-> [m \in A[n] |-> step(m, n)]]
<1>1. start \in A[0]
  <2>1. start \in [i : 0 .. la, dst : Spans] /\ start.i = 0 /\ start.dst = <<>> /\ Len(<<>>) = 0 /\ 0 - 0 = 0
    BY DEF Spans
  <2>2. Mixed(a, b, 0, 0, <<>>) /\ InFront(a, b, 0, 0, <<>>)
    BY DEF Mixed, InFront, Ahead, Sorted
  <2> HIDE DEF start
  <2>3. In(0, start)
    BY <2>1, <2>2
  <2> QED
    BY <2>1, <2>3
<1>2. ASSUME NEW n \in 0 .. len - 1, NEW m \in A[n] PROVE step(m, n) \in A[n + 1]
  <2>1. n \in 0 .. len /\ n + 1 \in 0 .. len
    OBVIOUS
  <2>2. m \in [i : 0 .. la, dst : Spans] /\ In(n, m)
    BY <2>1
  <2>3. PICK i \in 0 .. la, dst \in Spans : m = [i |-> i, dst |-> dst]
    BY <2>2
  <2>4. PICK j \in 0 .. lb : j = n - i
    BY <2>2, <2>3
  <2>5. /\ Len(dst) = n /\ Mixed(a, b, i, j, dst) /\ (Good => InFront(a, b, i, j, dst))
        /\ m.i = i /\ m.dst = dst /\ n - m.i = j
    BY <2>2, <2>3, <2>4
  <2> HIDE DEF In, A, Good
  <2>6. ASSUME i < la, Good => \A x \in j + 1 .. lb : Lex(a[i + 1], b[x])
        PROVE  [i |-> i + 1, dst |-> Append(dst, get(a, i))] \in A[n + 1]
    <3>1. i \in 0 .. Len(a) - 1 /\ j \in 0 .. Len(b) /\ i + 1 \in 0 .. la /\ (n + 1) - (i + 1) = j
      BY <1>a, <2>4, <2>6
    <3>2. PICK d : d = Append(dst, a[i + 1])
      OBVIOUS
    <3>3. d \in Spans /\ Len(d) = n + 1 /\ get(a, i) = a[i + 1]
      BY <2>5, <3>1, <3>2, Positions, Appended
    <3>4. Mixed(a, b, i + 1, j, d)
      BY <2>5, <3>1, <3>2, TakesNext
    <3>5. Good => InFront(a, b, i + 1, j, d)
      BY <1>a, <2>5, <2>6, <3>1, <3>2, StaysInFront DEF Good
    <3>6. PICK q : q = [i |-> i + 1, dst |-> d]
      OBVIOUS
    <3>7. q \in [i : 0 .. la, dst : Spans] /\ q.i = i + 1 /\ q.dst = d
      BY <3>1, <3>3, <3>6
    <3>8. In(n + 1, q)
      BY <3>1, <3>3, <3>4, <3>5, <3>7 DEF In
    <3> QED
      BY <2>1, <3>2, <3>3, <3>6, <3>7, <3>8 DEF A
  <2>7. ASSUME j < lb, Good => \A x \in i + 1 .. la : Lex(b[j + 1], a[x])
        PROVE  [i |-> i, dst |-> Append(dst, get(b, j))] \in A[n + 1]
    <3>1. j \in 0 .. Len(b) - 1 /\ i \in 0 .. Len(a) /\ j + 1 \in 0 .. lb /\ (n + 1) - i = j + 1
      BY <1>a, <2>4, <2>7
    <3>2. PICK d : d = Append(dst, b[j + 1])
      OBVIOUS
    <3>3. d \in Spans /\ Len(d) = n + 1 /\ get(b, j) = b[j + 1]
      BY <2>5, <3>1, <3>2, Positions, Appended
    <3>4. Mixed(a, b, i, j + 1, d)
      <4>1. Mixed(b, a, j, i, dst)
        BY <2>5, MixedSwaps
      <4>2. Mixed(b, a, j + 1, i, d)
        BY <3>1, <3>2, <4>1, TakesNext
      <4> QED
        BY <4>2, MixedSwaps
    <3>5. Good => InFront(a, b, i, j + 1, d)
      <4>1. Good => InFront(b, a, j, i, dst)
        BY <2>5 DEF InFront
      <4>2. Good => InFront(b, a, j + 1, i, d)
        BY <1>a, <2>7, <3>1, <3>2, <4>1, StaysInFront DEF Good
      <4> QED
        BY <4>2 DEF InFront
    <3>6. PICK q : q = [i |-> i, dst |-> d]
      OBVIOUS
    <3>7. q \in [i : 0 .. la, dst : Spans] /\ q.i = i /\ q.dst = d
      BY <3>3, <3>6
    <3>8. In(n + 1, q)
      BY <3>1, <3>3, <3>4, <3>5, <3>7 DEF In
    <3> QED
      BY <2>1, <3>2, <3>3, <3>6, <3>7, <3>8 DEF A
  <2>8. CASE j = lb \/ (i < la /\ TakesLeft(get(a, i), get(b, j)))
    <3>1. step(m, n) = [i |-> i + 1, dst |-> Append(dst, get(a, i))]
      BY <1>a, <2>5, <2>8
    <3>2. i < la
      BY <1>b, <2>4, <2>8
    <3>3. Good => \A x \in j + 1 .. lb : Lex(a[i + 1], b[x])
      <4>1. CASE j = lb
        BY <4>1
      <4>2. CASE j # lb
        <5>1. i \in 0 .. Len(a) - 1 /\ j \in 0 .. Len(b) - 1 /\ i + 1 \in 1 .. Len(a) /\ j + 1 \in 1 .. Len(b)
          BY <1>a, <3>2, <4>2
        <5>2. /\ get(a, i) = a[i + 1] /\ get(b, j) = b[j + 1]
              /\ a[i + 1] \in Element /\ b[j + 1] \in Element
          BY <5>1, Positions
        <5>3. cmp(a[i + 1], b[j + 1]) <= 0
          BY <2>8, <4>2, <5>2 DEF TakesLeft
        <5>4. Good => a[i + 1].tag < b[j + 1].tag
          BY <5>1 DEF Good, Apart
        <5>5. Good => Lex(a[i + 1], b[j + 1])
          BY <5>2, <5>3, <5>4, LexOrder
        <5> QED
          BY <1>a, <5>1, <5>2, <5>5, BeforeRest DEF Good
      <4> QED
        BY <4>1, <4>2
    <3> QED
      BY <2>6, <3>1, <3>2, <3>3
  <2>9. CASE ~(j = lb \/ (i < la /\ TakesLeft(get(a, i), get(b, j))))
    <3>1. step(m, n) = [i |-> i, dst |-> Append(dst, get(b, j))]
      BY <1>a, <2>3, <2>5, <2>9
    <3>2. j < lb
      BY <2>9
    <3>3. Good => \A x \in i + 1 .. la : Lex(b[j + 1], a[x])
      <4>1. CASE i = la
        BY <4>1
      <4>2. CASE i # la
        <5>1. i \in 0 .. Len(a) - 1 /\ j \in 0 .. Len(b) - 1 /\ i + 1 \in 1 .. Len(a) /\ j + 1 \in 1 .. Len(b)
          BY <1>a, <3>2, <4>2
        <5>2. /\ get(a, i) = a[i + 1] /\ get(b, j) = b[j + 1]
              /\ a[i + 1] \in Element /\ b[j + 1] \in Element
          BY <5>1, Positions
        <5>3. ~(cmp(a[i + 1], b[j + 1]) <= 0)
          BY <2>9, <4>2, <5>2 DEF TakesLeft
        <5>4. Lex(b[j + 1], a[i + 1])
          BY <5>2, <5>3, LexOrder
        <5> QED
          BY <1>a, <5>1, <5>2, <5>4, BeforeRest DEF Good
      <4> QED
        BY <4>1, <4>2
    <3> QED
      BY <2>7, <3>1, <3>2, <3>3
  <2> QED
    BY <2>8, <2>9
<1> HIDE DEF In, Good
<1> HIDE DEF A
<1>3. Leads(F, len, A)
  BY <1>2 DEF Leads
<1> HIDE DEF F, step, start
<1>4. PICK f : Runs(f, len, start, F) /\ \A n \in 0 .. len : f[n] \in A[n]
  BY <1>1, <1>3, LoopExists
<1>5. f = [n \in 0 .. len |-> IF n = 0 THEN start ELSE step(f[n - 1], n - 1)]
  <2>1. ASSUME NEW n \in 0 .. len PROVE f[n] = IF n = 0 THEN start ELSE step(f[n - 1], n - 1)
    <3>1. CASE n = 0
      BY <1>4, <3>1 DEF Runs
    <3>2. CASE n # 0
      <4>1. n - 1 \in 0 .. len - 1 /\ n - 1 \in 0 .. len
        BY <3>2
      <4>2. f[n] = F[n - 1][f[n - 1]] /\ f[n - 1] \in A[n - 1]
        BY <1>4, <3>2, <4>1 DEF Runs
      <4> QED
        BY <3>2, <4>1, <4>2 DEF F
    <3> QED
      BY <3>1, <3>2
  <2> QED
    BY <1>4, <2>1 DEF Runs
<1>6. PICK g : /\ g = [n \in 0 .. len |-> IF n = 0 THEN start ELSE step(g[n - 1], n - 1)]
               /\ merge(a, b) = g[len].dst
  BY <1>a, <1>b, <1>5 DEF merge, Loop, step, start
<1>7. g[len] \in A[len]
  <2>1. g[0] \in A[0]
    BY <1>1, <1>6
  <2>2. ASSUME NEW n \in 0 .. len - 1, g[n] \in A[n] PROVE g[n + 1] \in A[n + 1]
    <3>1. g[n + 1] = step(g[n], n)
      BY <1>6
    <3> QED
      BY <1>2, <2>2, <3>1
  <2> QED
    BY <2>1, <2>2, LoopKeeps
<1>8. PICK d \in Spans : /\ d = merge(a, b) /\ Len(d) = len /\ Mixed(a, b, la, lb, d)
                        /\ (Good => Sorted(d))
  <2>1. A[len] = { m \in [i : 0 .. la, dst : Spans] : In(len, m) }
    BY DEF A
  <2>2. g[len] \in [i : 0 .. la, dst : Spans] /\ In(len, g[len])
    BY <1>7, <2>1
  <2>3. PICK i \in 0 .. la, d \in Spans : i = g[len].i /\ d = g[len].dst
    BY <2>2
  <2>4. len - i \in 0 .. lb
    BY <2>2, <2>3 DEF In
  <2>5. i = la /\ len - i = lb
    BY <1>b, <2>4
  <2> QED
    BY <1>6, <2>2, <2>3, <2>5 DEF In, InFront
<1>9. ToSet(d) = ToSet(a) \union ToSet(b)
  <2>1. ASSUME NEW x, x \in ToSet(d) PROVE x \in ToSet(a) \/ x \in ToSet(b)
    <3>1. PICK k \in 1 .. Len(d) : x = d[k]
      BY <2>1, Members
    <3> QED
      BY <1>a, <1>8, <3>1, Members DEF Mixed
  <2>2. ASSUME NEW x, x \in ToSet(a) PROVE x \in ToSet(d)
    <3>1. PICK k \in 1 .. la : x = a[k]
      BY <1>a, <2>2, Members
    <3> QED
      BY <1>8, <3>1, Members DEF Mixed
  <2>3. ASSUME NEW x, x \in ToSet(b) PROVE x \in ToSet(d)
    <3>1. PICK k \in 1 .. lb : x = b[k]
      BY <1>a, <2>3, Members
    <3> QED
      BY <1>8, <3>1, Members DEF Mixed
  <2> QED
    BY <2>1, <2>2, <2>3
<1> QED
  BY <1>a, <1>b, <1>8, <1>9 DEF Good

\* Part of a span: ascending, with the tags of the first part below those of
\* the second.
Ascends(u, lo, hi) == \A i, j \in lo + 1 .. hi : i < j => Lex(u[i], u[j])
Precedes(u, lo, mid, hi) == \A i \in lo + 1 .. mid, j \in mid + 1 .. hi : u[i].tag < u[j].tag
Part(u, lo, hi, m) == /\ m \in Spans /\ Len(m) = hi - lo
                      /\ \A x : x \in ToSet(m) <=> \E k \in lo + 1 .. hi : x = u[k]

LEMMA PartSpan ==
  ASSUME NEW u \in Spans, NEW lo \in Nat, NEW hi \in Nat, lo <= hi, hi <= Len(u)
  PROVE  /\ Part(u, lo, hi, sub(u, lo, hi - lo))
         /\ Ascends(u, lo, hi) => Sorted(sub(u, lo, hi - lo))
         /\ \A k \in 1 .. hi - lo : sub(u, lo, hi - lo)[k] = u[lo + k]
<1>1. PICK n \in Nat : n = hi - lo
  <2>1. hi - lo \in Nat
    OBVIOUS
  <2> QED
    BY <2>1
<1>2. lo + n = hi
  BY <1>1
<1>3. PICK a : a = sub(u, lo, n)
  OBVIOUS
<1>4. a \in Spans /\ Len(a) = n /\ \A k \in 1 .. n : a[k] = u[lo + k]
  BY <1>2, <1>3, SubSpan
<1>5. ASSUME NEW x PROVE x \in ToSet(a) <=> \E k \in lo + 1 .. hi : x = u[k]
  <2>1. ASSUME x \in ToSet(a) PROVE \E k \in lo + 1 .. hi : x = u[k]
    <3>1. PICK k \in 1 .. n : x = a[k]
      BY <1>4, <2>1, Members
    <3>2. lo + k \in lo + 1 .. hi
      BY <1>2, <3>1
    <3>3. x = u[lo + k]
      BY <1>4, <3>1
    <3> QED
      BY <3>2, <3>3
  <2>2. ASSUME NEW k \in lo + 1 .. hi, x = u[k] PROVE x \in ToSet(a)
    <3>1. k - lo \in 1 .. n /\ lo + (k - lo) = k
      BY <1>2
    <3>2. x = a[k - lo]
      BY <1>4, <2>2, <3>1
    <3> QED
      BY <1>4, <3>1, <3>2, Members
  <2> QED
    BY <2>1, <2>2
<1>6. ASSUME Ascends(u, lo, hi) PROVE Sorted(a)
  <2>1. SUFFICES ASSUME NEW i \in 1 .. n, NEW j \in 1 .. n, i < j PROVE Lex(a[i], a[j])
    BY <1>4 DEF Sorted
  <2>2. lo + i \in lo + 1 .. hi /\ lo + j \in lo + 1 .. hi /\ lo + i < lo + j
    BY <1>2, <2>1
  <2>3. Lex(u[lo + i], u[lo + j])
    BY <1>6, <2>2 DEF Ascends
  <2> QED
    BY <1>4, <2>3
<1>7. Part(u, lo, hi, a)
  BY <1>1, <1>4, <1>5 DEF Part
<1> QED
  BY <1>1, <1>3, <1>4, <1>6, <1>7

\* One merge of a pass.
LEMMA MergesParts ==
  ASSUME NEW u \in Spans, NEW lo \in Nat, NEW mid \in Nat, NEW hi \in Nat,
         lo <= mid, mid <= hi, hi <= Len(u),
         NEW m, m = merge(sub(u, lo, mid - lo), sub(u, mid, hi - mid))
  PROVE  /\ Part(u, lo, hi, m)
         /\ Ascends(u, lo, mid) /\ Ascends(u, mid, hi) /\ Precedes(u, lo, mid, hi) => Sorted(m)
<1>0. PICK L \in Nat : L = Len(u)
  BY Positions
<1>1. mid <= Len(u)
  BY <1>0
<1>2. PICK a : a = sub(u, lo, mid - lo)
  OBVIOUS
<1>3. PICK b : b = sub(u, mid, hi - mid)
  OBVIOUS
<1>4. /\ Part(u, lo, mid, a) /\ (Ascends(u, lo, mid) => Sorted(a))
      /\ \A k \in 1 .. mid - lo : a[k] = u[lo + k]
  BY <1>1, <1>2, PartSpan
<1>5. /\ Part(u, mid, hi, b) /\ (Ascends(u, mid, hi) => Sorted(b))
      /\ \A k \in 1 .. hi - mid : b[k] = u[mid + k]
  BY <1>3, PartSpan
<1>6. m = merge(a, b)
  BY <1>2, <1>3
<1>7. a \in Spans /\ b \in Spans /\ Len(a) = mid - lo /\ Len(b) = hi - mid
  BY <1>4, <1>5 DEF Part
<1>8. /\ m \in Spans /\ Len(m) = Len(a) + Len(b) /\ ToSet(m) = ToSet(a) \union ToSet(b)
      /\ Sorted(a) /\ Sorted(b) /\ Apart(a, b) => Sorted(m)
  BY <1>6, <1>7, Merges
<1>9. Len(m) = hi - lo
  BY <1>7, <1>8
<1>10. ASSUME NEW x PROVE x \in ToSet(m) <=> \E k \in lo + 1 .. hi : x = u[k]
  <2>1. \A k : k \in lo + 1 .. hi <=> k \in lo + 1 .. mid \/ k \in mid + 1 .. hi
    OBVIOUS
  <2>2. x \in ToSet(m) <=> x \in ToSet(a) \/ x \in ToSet(b)
    BY <1>8
  <2>3. x \in ToSet(a) <=> \E k \in lo + 1 .. mid : x = u[k]
    BY <1>4 DEF Part
  <2>4. x \in ToSet(b) <=> \E k \in mid + 1 .. hi : x = u[k]
    BY <1>5 DEF Part
  <2> QED
    BY <2>1, <2>2, <2>3, <2>4
<1>11. ASSUME Precedes(u, lo, mid, hi) PROVE Apart(a, b)
  <2>1. SUFFICES ASSUME NEW i \in 1 .. mid - lo, NEW j \in 1 .. hi - mid PROVE a[i].tag < b[j].tag
    BY <1>7 DEF Apart
  <2>2. lo + i \in lo + 1 .. mid /\ mid + j \in mid + 1 .. hi
    BY <2>1
  <2>3. u[lo + i].tag < u[mid + j].tag
    BY <1>11, <2>2 DEF Precedes
  <2> QED
    BY <1>4, <1>5, <2>3
<1> QED
  BY <1>4, <1>5, <1>8, <1>9, <1>10, <1>11 DEF Part

\* The blocks of a width w, one after the other; the last one may be cut off.
Block(w, k, i) == w * k < i /\ i <= w * k + w

\* Each block is sorted, and holds what was in its place at first.
RunsSorted(u, w) == \A k \in Nat : \A i, j \in 1 .. Len(u) :
                      Block(w, k, i) /\ Block(w, k, j) /\ i < j => Lex(u[i], u[j])
Home(u, w) == \A k \in Nat : \A i \in 1 .. Len(u) : Block(w, k, i) => Block(w, k, u[i].tag)

Cut(u, i) == IF i < Len(u) THEN i ELSE Len(u)

\* What lies in a block of width w, with hi where the block ends or before.
LEMMA InBlock ==
  ASSUME NEW u \in Spans, NEW w \in Nat, NEW k \in Nat, NEW lo \in Nat, lo = w * k,
         NEW hi \in Nat, hi <= lo + w, hi <= Len(u), RunsSorted(u, w), Home(u, w)
  PROVE  /\ Ascends(u, lo, hi)
         /\ \A i \in lo + 1 .. hi : lo < u[i].tag /\ u[i].tag <= lo + w
<1>1. PICK L \in Nat : L = Len(u)
  BY Positions
<1>2. ASSUME NEW i \in lo + 1 .. hi PROVE i \in 1 .. Len(u) /\ lo < i /\ i <= lo + w
  BY <1>1
<1>3. ASSUME NEW i \in lo + 1 .. hi PROVE Block(w, k, i)
  BY <1>2, <1>3 DEF Block
<1>4. Ascends(u, lo, hi)
  BY <1>2, <1>3 DEF Ascends, RunsSorted
<1>5. ASSUME NEW i \in lo + 1 .. hi PROVE lo < u[i].tag /\ u[i].tag <= lo + w
  <2>1. Block(w, k, u[i].tag)
    BY <1>2, <1>3, <1>5 DEF Home
  <2> QED
    BY <2>1 DEF Block
<1> QED
  BY <1>4, <1>5

LEMMA MergesTwo ==
  ASSUME NEW u \in Spans, NEW w \in Nat \ {0}, NEW n \in Nat, NEW left \in Nat, left = 2 * w * n,
         NEW le \in Nat, NEW re \in Nat, left <= le, le <= re, re <= Len(u),
         le <= left + w, re <= left + 2 * w, le < re => le = left + w,
         NEW m, m = merge(sub(u, left, le - left), sub(u, le, re - le)),
         RunsSorted(u, w), Home(u, w)
  PROVE  Sorted(m) /\ \A k \in 1 .. Len(m) : Block(2 * w, n, m[k].tag)
<1>0. PICK L \in Nat : L = Len(u)
  BY Positions
<1>1. PICK k1 \in Nat : k1 = 2 * n /\ left = w * k1
  OBVIOUS
<1>2. PICK k2 \in Nat : k2 = 2 * n + 1 /\ left + w = w * k2
  OBVIOUS
<1>3. le <= Len(u)
  BY <1>0
<1>4. Part(u, left, re, m) /\ (Ascends(u, left, le) /\ Ascends(u, le, re) /\ Precedes(u, left, le, re) => Sorted(m))
  BY MergesParts
<1>5. /\ Ascends(u, left, le)
      /\ \A i \in left + 1 .. le : left < u[i].tag /\ u[i].tag <= left + w
  BY <1>1, <1>3, InBlock
<1>6. /\ Ascends(u, le, re)
      /\ \A i \in le + 1 .. re : left + w < u[i].tag /\ u[i].tag <= left + w + w
  <2>1. CASE le = re
    <3>1. \A i \in le + 1 .. re : FALSE
      BY <2>1
    <3> QED
      BY <3>1 DEF Ascends
  <2>2. CASE le < re
    <3>1. le = w * k2 /\ re <= le + w
      BY <1>2, <2>2
    <3>2. /\ Ascends(u, le, re)
          /\ \A i \in le + 1 .. re : le < u[i].tag /\ u[i].tag <= le + w
      BY <1>2, <3>1, InBlock
    <3> QED
      BY <2>2, <3>2
  <2> QED
    BY <2>1, <2>2
<1>7. ASSUME NEW i \in left + 1 .. re PROVE u[i].tag \in Nat
  <2>1. i \in 1 .. Len(u)
    BY <1>0
  <2> QED
    BY <2>1, Positions DEF Element
<1>8. Precedes(u, left, le, re)
  <2>1. SUFFICES ASSUME NEW i \in left + 1 .. le, NEW j \in le + 1 .. re PROVE u[i].tag < u[j].tag
    BY DEF Precedes
  <2>2. i \in left + 1 .. re /\ j \in left + 1 .. re
    OBVIOUS
  <2>3. u[i].tag \in Nat /\ u[j].tag \in Nat
    BY <1>7, <2>2
  <2>4. u[i].tag <= left + w /\ left + w < u[j].tag
    BY <1>5, <1>6, <2>1
  <2> QED
    BY <2>3, <2>4
<1>9. ASSUME NEW k \in 1 .. Len(m) PROVE Block(2 * w, n, m[k].tag)
  <2>1. m \in Spans
    BY <1>4 DEF Part
  <2>2. m[k] \in ToSet(m)
    BY <2>1, Members
  <2>3. PICK x \in left + 1 .. re : m[k] = u[x]
    BY <1>4, <2>2 DEF Part
  <2>4. PICK t \in Nat : t = u[x].tag
    BY <1>7
  <2>5. left < t /\ t <= left + 2 * w
    <3>1. CASE x \in left + 1 .. le
      BY <1>5, <2>4, <3>1
    <3>2. CASE x \in le + 1 .. re
      BY <1>6, <2>4, <3>2
    <3> QED
      BY <3>1, <3>2
  <2> QED
    BY <2>3, <2>4, <2>5 DEF Block
<1> QED
  BY <1>4, <1>5, <1>6, <1>8, <1>9

\* Joining what was merged to what the pass has done before.
LEMMA JoinsRun ==
  ASSUME NEW v \in Nat \ {0}, NEW n \in Nat, NEW left \in Nat, left = v * n,
         NEW dst \in Spans, Len(dst) = left, NEW m \in Spans, Len(m) <= v,
         RunsSorted(dst, v), Home(dst, v), Sorted(m), \A k \in 1 .. Len(m) : Block(v, n, m[k].tag)
  PROVE  RunsSorted(dst \o m, v) /\ Home(dst \o m, v)
<1>1. PICK lm \in Nat : lm = Len(m)
  BY Positions
<1>2. PICK d : d = dst \o m
  OBVIOUS
<1>3. /\ d \in Spans /\ Len(d) = left + lm /\ \A k \in 1 .. left : d[k] = dst[k]
      /\ \A k \in left + 1 .. left + lm : d[k] = m[k - left]
  <2>1. /\ dst \o m \in Spans /\ Len(dst \o m) = Len(dst) + Len(m)
        /\ \A k \in 1 .. Len(dst) : (dst \o m)[k] = dst[k]
        /\ \A k \in Len(dst) + 1 .. Len(dst) + Len(m) : (dst \o m)[k] = m[k - Len(dst)]
    BY Joined
  <2> QED
    BY <1>1, <1>2, <2>1
<1>4. ASSUME NEW k \in Nat, NEW i \in 1 .. left, Block(v, k, i) PROVE v * k + v <= left
  <2>1. v * k < v * n
    BY <1>4 DEF Block
  <2>2. k < n
    BY <2>1
  <2>3. PICK z \in Nat : n = k + 1 + z
    <3>1. n - k - 1 \in Nat /\ n = k + 1 + (n - k - 1)
      BY <2>2
    <3> QED
      BY <3>1
  <2>4. v * n = v * k + v + v * z /\ v * z \in Nat
    BY <2>3
  <2> QED
    BY <2>4
<1>5. ASSUME NEW k \in Nat, NEW i \in left + 1 .. left + lm, Block(v, k, i) PROVE k = n
  <2>1. v * n < i /\ i <= v * n + v
    BY <1>1
  <2>2. v * k < v * n + v /\ v * n < v * k + v
    <3>1. v * k < i /\ i <= v * k + v
      BY <1>5 DEF Block
    <3>2. v * k \in Nat /\ v * n \in Nat /\ i \in Nat
      BY <1>1
    <3> QED
      BY <2>1, <3>1, <3>2
  <2>3. v * (n + 1) = v * n + v /\ v * (k + 1) = v * k + v
    OBVIOUS
  <2>4. v * k < v * (n + 1) /\ v * n < v * (k + 1)
    BY <2>2, <2>3
  <2>5. k < n + 1 /\ n < k + 1
    BY <2>4
  <2> QED
    BY <2>5
<1>6. RunsSorted(d, v)
  <2>1. SUFFICES ASSUME NEW k \in Nat, NEW i \in 1 .. left + lm, NEW j \in 1 .. left + lm,
                        Block(v, k, i), Block(v, k, j), i < j
                 PROVE  Lex(d[i], d[j])
    BY <1>3 DEF RunsSorted
  <2>2. CASE j <= left
    <3>1. i \in 1 .. left /\ j \in 1 .. left
      BY <2>1, <2>2
    <3> QED
      BY <1>3, <2>1, <3>1 DEF RunsSorted
  <2>3. CASE i > left
    <3>1. /\ i \in left + 1 .. left + lm /\ j \in left + 1 .. left + lm
          /\ i - left \in 1 .. lm /\ j - left \in 1 .. lm /\ i - left < j - left
      BY <1>1, <2>1, <2>3
    <3> QED
      BY <1>1, <1>3, <3>1 DEF Sorted
  <2>4. CASE i <= left /\ j > left
    <3>1. v * k + v <= left /\ v * k \in Nat
      BY <1>4, <2>1, <2>4
    <3> QED
      BY <2>1, <2>4, <3>1 DEF Block
  <2> QED
    BY <2>2, <2>3, <2>4
<1>7. Home(d, v)
  <2>1. SUFFICES ASSUME NEW k \in Nat, NEW i \in 1 .. left + lm, Block(v, k, i) PROVE Block(v, k, d[i].tag)
    BY <1>3 DEF Home
  <2>2. CASE i <= left
    <3>1. i \in 1 .. left
      BY <2>2
    <3> QED
      BY <1>3, <2>1, <3>1 DEF Home
  <2>3. CASE i > left
    <3>1. i \in left + 1 .. left + lm /\ i - left \in 1 .. lm
      BY <1>1, <2>3
    <3>2. k = n
      BY <1>5, <2>1, <3>1
    <3> QED
      BY <1>1, <1>3, <3>1, <3>2
  <2> QED
    BY <2>2, <2>3
<1> QED
  BY <1>2, <1>6, <1>7

\* A pass: of width w before, of twice the width afterwards.
LEMMA MergesRuns ==
  ASSUME NEW u \in Spans, NEW w \in Nat \ {0}
  PROVE  /\ Perm(merge_runs(u, w), u)
         /\ RunsSorted(u, w) /\ Home(u, w) =>
              RunsSorted(merge_runs(u, w), 2 * w) /\ Home(merge_runs(u, w), 2 * w)
<1>a. PICK L \in Nat : L = Len(u)
  BY Positions
<1>b. PICK v \in Nat \ {0} : v = 2 * w
  OBVIOUS
<1>c. PICK len : len = (L + v - 1) \div v
  OBVIOUS
<1>d. len \in Nat /\ v * len >= L /\ \A n \in 0 .. len - 1 : v * n < L
  <2>1. PICK x \in Nat : x = L + v - 1
    <3>1. L + v - 1 \in Nat
      OBVIOUS
    <3> QED
      BY <3>1
  <2>2. PICK r : r = x % v
    OBVIOUS
  <2>3. r \in 0 .. v - 1 /\ len \in Int /\ x = v * len + r
    BY <1>c, <2>1, <2>2, DivMod
  <2>4. PICK y \in Int : y = v * len
    BY <2>3
  <2>5. y >= L /\ y <= L + v - 1
    BY <2>1, <2>3, <2>4
  <2>6. len \in Nat
    <3>1. SUFFICES ASSUME len <= -1 PROVE FALSE
      BY <2>3
    <3>2. v * len <= -1
      BY <2>3, <3>1
    <3> QED
      BY <2>4, <2>5, <3>2
  <2>7. ASSUME NEW n \in 0 .. len - 1 PROVE v * n < L
    <3>1. PICK z \in Nat : len = n + 1 + z
      <4>1. len - n - 1 \in Nat /\ len = n + 1 + (len - n - 1)
        BY <2>6
      <4> QED
        BY <4>1
    <3>2. v * len = v * n + v + v * z /\ v * z \in Nat /\ v * n \in Nat
      BY <3>1
    <3> QED
      BY <2>4, <2>5, <3>2
  <2> QED
    BY <2>4, <2>5, <2>6, <2>7
<1> DEFINE C(i) == IF i < Len(u) THEN i ELSE Len(u)
           step(dst, n) == LET left      == 2 * w * n
                               left_end  == C(left + w)
                               right_end == C(left + 2 * w)
                           IN dst \o merge(sub(u, left, left_end - left), sub(u, left_end, right_end - left_end))
           start == <<>>
           Good == RunsSorted(u, w) /\ Home(u, w)
           Done(n, dst) == \A x : x \in ToSet(dst) <=> \E k \in 1 .. Cut(u, v * n) : x = u[k]
           In(n, dst) == /\ Len(dst) = Cut(u, v * n) /\ Done(n, dst)
                         /\ Good => RunsSorted(dst, v) /\ Home(dst, v)
           A == [n \in 0 .. len |-> { dst \in Spans : In(n, dst) }]
           F == [n \in 0 .. len - 1 |-> [a \in A[n] |-> step(a, n)]]
<1>1. start \in A[0]
  <2>1. <<>> \in Spans /\ Len(<<>>) = 0 /\ v * 0 = 0 /\ Cut(u, v * 0) = 0
    BY <1>a DEF Spans, Cut
  <2>2. Done(0, <<>>)
    BY <2>1, Members
  <2>3. RunsSorted(<<>>, v) /\ Home(<<>>, v)
    BY <2>1 DEF RunsSorted, Home
  <2> QED
    BY <1>d, <2>1, <2>2, <2>3
<1>f. len \in Nat
  BY <1>d
<1>2. ASSUME NEW n \in 0 .. len - 1, NEW dst \in A[n] PROVE step(dst, n) \in A[n + 1]
  <2>1. n \in 0 .. len /\ n + 1 \in 0 .. len /\ n \in Nat
    BY <1>d
  <2>2. dst \in Spans /\ In(n, dst)
    BY <2>1
  <2> HIDE DEF A
  <2>a. PICK x : x = v * n
    OBVIOUS
  <2>b. x < L /\ x \in Nat /\ x = 2 * w * n
    BY <1>b, <1>d, <2>1, <2>a
  <2>3. PICK left \in Nat : left = 2 * w * n /\ left = v * n /\ left < L
    BY <2>a, <2>b
  <2>4. PICK le : le = C(left + w)
    OBVIOUS
  <2>5. PICK re : re = C(left + 2 * w)
    OBVIOUS
  <2>6. PICK m : m = merge(sub(u, left, le - left), sub(u, le, re - le))
    OBVIOUS
  <2>7. step(dst, n) = dst \o m
    BY <2>3, <2>4, <2>5, <2>6
  <2>c. le = IF left + w < L THEN left + w ELSE L
    BY <1>a, <2>4
  <2>d. re = IF left + v < L THEN left + v ELSE L
    BY <1>a, <1>b, <2>5
  <2> HIDE DEF step, C
  <2>e. /\ le \in Nat /\ re \in Nat /\ left <= le /\ le <= re /\ re <= L
        /\ le <= left + w /\ re <= left + v /\ left < re /\ (le < re => le = left + w)
    BY <1>b, <2>3, <2>c, <2>d
  <2>f. re <= Len(u) /\ re <= left + 2 * w
    BY <1>a, <1>b, <2>e
  <2>8. /\ m \in Spans /\ Len(m) = re - left
        /\ \A x1 : x1 \in ToSet(m) <=> \E k \in left + 1 .. re : x1 = u[k]
    <3>1. Part(u, left, re, m)
      BY <2>6, <2>e, <2>f, MergesParts
    <3> QED
      BY <3>1 DEF Part
  <2>g. Good => Sorted(m) /\ \A k \in 1 .. Len(m) : Block(2 * w, n, m[k].tag)
    BY <2>1, <2>3, <2>6, <2>e, <2>f, MergesTwo
  <2>9. re = Cut(u, v * (n + 1))
    <3>1. v * (n + 1) = left + v
      BY <2>1, <2>3
    <3> QED
      BY <1>a, <2>d, <3>1 DEF Cut
  <2>h. Cut(u, v * n) = left
    BY <1>a, <2>3 DEF Cut
  <2>10. Len(dst) = left
    BY <2>2, <2>h
  <2>11. PICK d : d = dst \o m
    OBVIOUS
  <2>12. d \in Spans /\ Len(d) = re /\ ToSet(d) = ToSet(dst) \union ToSet(m)
    <3>1. d \in Spans /\ Len(d) = Len(dst) + Len(m) /\ ToSet(d) = ToSet(dst) \union ToSet(m)
      BY <2>2, <2>8, <2>11, Joined
    <3> QED
      BY <2>8, <2>e, <2>10, <3>1
  <2>13. Done(n + 1, d)
    <3>1. \A k : k \in 1 .. re <=> k \in 1 .. left \/ k \in left + 1 .. re
      BY <2>e
    <3>2. Done(n, dst)
      BY <2>2
    <3>3. ASSUME NEW x1 PROVE x1 \in ToSet(d) <=> \E k \in 1 .. re : x1 = u[k]
      <4>1. x1 \in ToSet(d) <=> x1 \in ToSet(dst) \/ x1 \in ToSet(m)
        BY <2>12
      <4>2. x1 \in ToSet(dst) <=> \E k \in 1 .. left : x1 = u[k]
        BY <2>h, <3>2
      <4>3. x1 \in ToSet(m) <=> \E k \in left + 1 .. re : x1 = u[k]
        BY <2>8
      <4> QED
        BY <3>1, <4>1, <4>2, <4>3
    <3> QED
      BY <2>9, <3>3
  <2>14. Good => RunsSorted(d, v) /\ Home(d, v)
    <3>1. SUFFICES ASSUME Good PROVE RunsSorted(d, v) /\ Home(d, v)
      OBVIOUS
    <3>2. Sorted(m) /\ \A k \in 1 .. Len(m) : Block(v, n, m[k].tag)
      BY <1>b, <2>g, <3>1
    <3>3. RunsSorted(dst, v) /\ Home(dst, v)
      BY <2>2, <3>1
    <3>4. Len(m) <= v
      BY <2>8, <2>e
    <3> HIDE DEF Good
    <3> QED
      BY <2>1, <2>2, <2>3, <2>8, <2>10, <2>11, <3>2, <3>3, <3>4, JoinsRun
  <2>15. In(n + 1, d)
    BY <2>9, <2>12, <2>13, <2>14
  <2> HIDE DEF In
  <2> QED
    BY <2>1, <2>7, <2>11, <2>12, <2>15 DEF A
<1> HIDE DEF In, Good
<1> HIDE DEF A
<1>3. Leads(F, len, A)
  BY <1>2 DEF Leads
<1> HIDE DEF F, step, start
<1>4. PICK f : Runs(f, len, start, F) /\ \A n \in 0 .. len : f[n] \in A[n]
  BY <1>f, <1>1, <1>3, LoopExists
<1>5. f = [n \in 0 .. len |-> IF n = 0 THEN start ELSE step(f[n - 1], n - 1)]
  <2>1. ASSUME NEW n \in 0 .. len PROVE f[n] = IF n = 0 THEN start ELSE step(f[n - 1], n - 1)
    <3>1. CASE n = 0
      BY <1>f, <1>4, <3>1 DEF Runs
    <3>2. CASE n # 0
      <4>1. n - 1 \in 0 .. len - 1 /\ n - 1 \in 0 .. len
        BY <1>f, <3>2
      <4>2. f[n] = F[n - 1][f[n - 1]] /\ f[n - 1] \in A[n - 1]
        BY <1>4, <3>2, <4>1 DEF Runs
      <4> QED
        BY <3>2, <4>1, <4>2 DEF F
    <3> QED
      BY <3>1, <3>2
  <2> QED
    BY <1>f, <1>4, <2>1 DEF Runs
<1>e. len = (Len(u) + 2 * w - 1) \div (2 * w)
  BY <1>a, <1>b, <1>c
<1>6. PICK g : /\ g = [n \in 0 .. len |-> IF n = 0 THEN start ELSE step(g[n - 1], n - 1)]
               /\ merge_runs(u, w) = g[len]
  BY <1>e, <1>5 DEF merge_runs, Loop, step, start
<1>7. g[len] \in A[len]
  <2>1. g[0] \in A[0]
    BY <1>f, <1>1, <1>6
  <2>2. ASSUME NEW n \in 0 .. len - 1, g[n] \in A[n] PROVE g[n + 1] \in A[n + 1]
    <3>1. g[n + 1] = step(g[n], n)
      BY <1>f, <1>6
    <3> QED
      BY <1>2, <2>2, <3>1
  <2> QED
    BY <1>f, <2>1, <2>2, LoopKeeps
<1>8. PICK d \in Spans : d = merge_runs(u, w) /\ In(len, d)
  <2>1. A[len] = { dst \in Spans : In(len, dst) }
    BY <1>d DEF A
  <2> QED
    BY <1>6, <1>7, <2>1
<1>9. Cut(u, v * len) = L
  BY <1>a, <1>d DEF Cut
<1>10. Perm(d, u)
  <2>1. Len(d) = L /\ \A x : x \in ToSet(d) <=> \E k \in 1 .. L : x = u[k]
    BY <1>8, <1>9 DEF In
  <2>2. \A x : x \in ToSet(u) <=> \E k \in 1 .. L : x = u[k]
    BY <1>a, Members
  <2>3. ToSet(d) = ToSet(u)
    BY <2>1, <2>2
  <2> QED
    BY <1>a, <1>8, <2>1, <2>3 DEF Perm
<1>11. Good => RunsSorted(d, v) /\ Home(d, v)
  BY <1>8 DEF In
<1> QED
  BY <1>b, <1>8, <1>10, <1>11 DEF Good

\* qsort may return any of these.
LEMMA AnySort ==
  ASSUME NEW u \in Spans, NEW t \in sort(u)
  PROVE  Perm(t, u) /\ is_sorted(t)
<1>1. PICK p \in Bijection(DOMAIN u, DOMAIN u) : t = [i \in DOMAIN u |-> u[p[i]]]
  BY DEF sort
<1>2. is_sorted(t)
  BY DEF sort
<1>3. PICK L \in Nat : L = Len(u) /\ DOMAIN u = 1 .. L /\ \A k \in 1 .. L : u[k] \in Element
  BY Positions
<1>4. p \in [1 .. L -> 1 .. L] /\ \A w \in 1 .. L : \E v \in 1 .. L : p[v] = w
  BY <1>3 DEF Bijection, Surjection, Injection
<1>5. t = [k \in 1 .. L |-> u[p[k]]]
  BY <1>1, <1>3
<1>6. \A k \in 1 .. L : p[k] \in 1 .. L /\ t[k] = u[p[k]]
  BY <1>4, <1>5
<1>7. t = [k \in 1 .. L |-> t[k]] /\ \A k \in 1 .. L : t[k] \in Element
  BY <1>3, <1>5, <1>6
<1>8. t \in Spans /\ Len(t) = L
  BY <1>7, MakeSpan
<1>9. Within(t, u)
  BY <1>3, <1>6, <1>8 DEF Within
<1>10. Within(u, t)
  <2>1. ASSUME NEW k \in 1 .. L PROVE \E m \in 1 .. L : u[k] = t[m]
    <3>1. PICK m \in 1 .. L : p[m] = k
      BY <1>4
    <3> QED
      BY <1>6, <3>1
  <2> QED
    BY <1>3, <1>8, <2>1 DEF Within
<1> QED
  BY <1>2, <1>3, <1>8, <1>9, <1>10, SameMembers DEF Perm

\* A span that is in order, with tags that rise.
LEMMA SortedByTags ==
  ASSUME NEW a \in Spans, is_sorted(a), \A i, j \in 1 .. Len(a) : i < j => a[i].tag < a[j].tag
  PROVE  Sorted(a)
<1>1. DOMAIN a = 1 .. Len(a) /\ Len(a) \in Nat /\ \A k \in 1 .. Len(a) : a[k] \in Element
  BY Positions
<1>2. Ordered(a)
  BY SortedIsOrdered DEF Spans
<1>3. SUFFICES ASSUME NEW i \in 1 .. Len(a), NEW j \in 1 .. Len(a), i < j PROVE Lex(a[i], a[j])
  BY DEF Sorted
<1>4. rank(a[i].key) <= rank(a[j].key)
  BY <1>1, <1>2, <1>3 DEF Ordered
<1>5. a[i].tag < a[j].tag
  BY <1>3
<1>6. rank(a[i].key) \in Int /\ rank(a[j].key) \in Int
  BY <1>1, ComparesElements
<1> QED
  BY <1>4, <1>5, <1>6 DEF Lex

\* What the two halves of a merge are.
LEMMA HalfSorted ==
  ASSUME NEW u, Numbered(u), NEW lo \in Nat, NEW hi \in Nat, lo <= hi, hi <= Len(u),
         is_sorted(sub(u, lo, hi - lo))
  PROVE  Ascends(u, lo, hi)
<1>1. u \in Spans /\ DOMAIN u = 1 .. Len(u) /\ Len(u) \in Nat
  BY Positions DEF Numbered
<1>2. PICK a : a = sub(u, lo, hi - lo)
  OBVIOUS
<1>3. Part(u, lo, hi, a) /\ \A k \in 1 .. hi - lo : a[k] = u[lo + k]
  BY <1>1, <1>2, PartSpan
<1>4. a \in Spans /\ Len(a) = hi - lo
  BY <1>3 DEF Part
<1>5. ASSUME NEW k \in 1 .. hi - lo PROVE a[k].tag = lo + k
  <2>1. lo + k \in 1 .. Len(u)
    BY <1>1
  <2> QED
    BY <1>1, <1>3, <2>1 DEF Numbered
<1>6. Sorted(a)
  <2>1. \A i, j \in 1 .. Len(a) : i < j => a[i].tag < a[j].tag
    BY <1>4, <1>5
  <2> QED
    BY <1>2, <1>4, <2>1, SortedByTags
<1>7. SUFFICES ASSUME NEW i \in lo + 1 .. hi, NEW j \in lo + 1 .. hi, i < j PROVE Lex(u[i], u[j])
  BY DEF Ascends
<1>8. i - lo \in 1 .. hi - lo /\ j - lo \in 1 .. hi - lo /\ i - lo < j - lo
  BY <1>7
<1>9. lo + (i - lo) = i /\ lo + (j - lo) = j
  OBVIOUS
<1>10. a[i - lo] = u[i] /\ a[j - lo] = u[j]
  BY <1>3, <1>8, <1>9
<1> QED
  BY <1>4, <1>6, <1>8, <1>10 DEF Sorted

LEMMA MergesInPlace ==
  ASSUME NEW u, Numbered(u), NEW mid \in 0 .. Len(u),
         is_sorted(sub(u, 0, mid)), is_sorted(sub(u, mid, Len(u) - mid))
  PROVE  Perm(inplace_merge(u, mid), u) /\ Sorted(inplace_merge(u, mid))
<1>1. PICK L \in Nat : L = Len(u) /\ u \in Spans /\ DOMAIN u = 1 .. L /\ \A i \in 1 .. L : u[i].tag = i
  BY Positions DEF Numbered
<1>2. PICK m : m = inplace_merge(u, mid)
  OBVIOUS
<1>3. mid - 0 = mid /\ mid \in Nat /\ 0 <= mid /\ mid <= Len(u) /\ Len(u) \in Nat
  BY <1>1
<1>4. m = merge(sub(u, 0, mid - 0), sub(u, mid, Len(u) - mid))
  BY <1>2, <1>3 DEF inplace_merge
<1>5. Part(u, 0, Len(u), m) /\ (Ascends(u, 0, mid) /\ Ascends(u, mid, Len(u)) /\ Precedes(u, 0, mid, Len(u)) => Sorted(m))
  <2>1. 0 \in Nat /\ Len(u) <= Len(u)
    BY <1>3
  <2> QED
    BY <1>1, <1>3, <1>4, <2>1, MergesParts
<1>6. Ascends(u, 0, mid) /\ Ascends(u, mid, Len(u))
  <2>1. Ascends(u, 0, mid)
    BY <1>3, HalfSorted
  <2>2. Ascends(u, mid, Len(u))
    <3>1. Len(u) <= Len(u)
      BY <1>3
    <3> QED
      BY <1>3, <3>1, HalfSorted
  <2> QED
    BY <2>1, <2>2
<1>7. Precedes(u, 0, mid, Len(u))
  <2>1. SUFFICES ASSUME NEW i \in 0 + 1 .. mid, NEW j \in mid + 1 .. L PROVE u[i].tag < u[j].tag
    BY <1>1 DEF Precedes
  <2>2. i \in 1 .. L /\ j \in 1 .. L /\ i < j
    BY <1>1, <1>3
  <2> QED
    BY <1>1, <2>2
<1>8. Perm(m, u)
  <2>1. m \in Spans /\ Len(m) = L /\ \A x : x \in ToSet(m) <=> \E k \in 1 .. L : x = u[k]
    BY <1>1, <1>5 DEF Part
  <2>2. \A x : x \in ToSet(u) <=> \E k \in 1 .. L : x = u[k]
    BY <1>1, Members
  <2>3. ToSet(m) = ToSet(u)
    BY <2>1, <2>2
  <2> QED
    BY <1>1, <2>1, <2>3 DEF Perm
<1> QED
  BY <1>2, <1>5, <1>6, <1>7, <1>8

\* Runs of one element are sorted, and at home.
LEMMA RunsOfOne ==
  ASSUME NEW u, Numbered(u)
  PROVE  RunsSorted(u, 1) /\ Home(u, 1)
<1>1. PICK L \in Nat : L = Len(u) /\ \A i \in 1 .. L : u[i].tag = i
  BY Positions DEF Numbered
<1>2. \A k \in Nat : \A i, j \in 1 .. L : Block(1, k, i) /\ Block(1, k, j) => i = j
  BY DEF Block
<1> QED
  BY <1>1, <1>2 DEF RunsSorted, Home

\* A run as wide as the span is the span.
LEMMA OneRun ==
  ASSUME NEW u \in Spans, NEW w \in Nat, Len(u) <= w, RunsSorted(u, w)
  PROVE  Sorted(u)
<1>1. PICK L \in Nat : L = Len(u)
  BY Positions
<1>2. w * 0 = 0
  OBVIOUS
<1>3. \A i \in 1 .. L : Block(w, 0, i)
  BY <1>1, <1>2 DEF Block
<1> QED
  BY <1>1, <1>3 DEF RunsSorted, Sorted

LEMMA SortsStable ==
  ASSUME NEW u, Numbered(u)
  PROVE  Perm(sort_stable(u), u) /\ Sorted(sort_stable(u))
<1>a. PICK len \in Nat : len = Len(u) /\ u \in Spans
  BY Positions DEF Numbered
<1> DEFINE step(a, n) == IF a.width >= Len(u) THEN a
                         ELSE [s |-> merge_runs(a.s, a.width), width |-> 2 * a.width]
           start == [s |-> u, width |-> 1]
           In(n, a) == /\ Perm(a.s, u) /\ (a.width >= len \/ a.width > n)
                       /\ RunsSorted(a.s, a.width) /\ Home(a.s, a.width)
           A == [n \in 0 .. len |-> { a \in [s : Spans, width : Nat \ {0}] : In(n, a) }]
           F == [n \in 0 .. len - 1 |-> [a \in A[n] |-> step(a, n)]]
<1>1. start \in A[0]
  <2>1. start \in [s : Spans, width : Nat \ {0}] /\ start.s = u /\ start.width = 1
    BY <1>a
  <2>2. Perm(u, u)
    BY <1>a DEF Perm
  <2>3. RunsSorted(u, 1) /\ Home(u, 1)
    BY RunsOfOne
  <2> HIDE DEF start
  <2>4. In(0, start)
    BY <2>1, <2>2, <2>3
  <2> QED
    BY <2>1, <2>4
<1>2. ASSUME NEW n \in 0 .. len - 1, NEW a \in A[n] PROVE step(a, n) \in A[n + 1]
  <2>1. n \in 0 .. len /\ n + 1 \in 0 .. len /\ n \in Nat
    OBVIOUS
  <2>2. a \in [s : Spans, width : Nat \ {0}] /\ In(n, a)
    BY <2>1
  <2>3. PICK t \in Spans, w \in Nat \ {0} : a.s = t /\ a.width = w
    BY <2>2
  <2>4. Perm(t, u) /\ (w >= len \/ w > n) /\ RunsSorted(t, w) /\ Home(t, w)
    BY <2>2, <2>3
  <2> HIDE DEF In, A
  <2>5. CASE w >= len
    <3>1. step(a, n) = a
      BY <1>a, <2>3, <2>5
    <3>2. In(n + 1, a)
      BY <2>3, <2>4, <2>5 DEF In
    <3> QED
      BY <2>1, <2>2, <3>1, <3>2 DEF A
  <2>6. CASE w < len
    <3>1. step(a, n) = [s |-> merge_runs(t, w), width |-> 2 * w]
      BY <1>a, <2>3, <2>6
    <3>2. PICK x : x = merge_runs(t, w)
      OBVIOUS
    <3>3. Perm(x, t) /\ RunsSorted(x, 2 * w) /\ Home(x, 2 * w)
      BY <2>4, <3>2, MergesRuns
    <3>4. PICK b : b = [s |-> x, width |-> 2 * w]
      OBVIOUS
    <3>5. x \in Spans /\ Perm(x, u)
      BY <2>4, <3>3, PermTrans DEF Perm
    <3>6. 2 * w \in Nat \ {0} /\ 2 * w > n + 1
      BY <2>1, <2>4, <2>6
    <3>7. b \in [s : Spans, width : Nat \ {0}] /\ b.s = x /\ b.width = 2 * w
      BY <3>4, <3>5, <3>6
    <3>8. In(n + 1, b)
      BY <3>3, <3>5, <3>6, <3>7 DEF In
    <3> QED
      BY <2>1, <3>1, <3>2, <3>4, <3>7, <3>8 DEF A
  <2> QED
    BY <2>3, <2>5, <2>6
<1> HIDE DEF In
<1> HIDE DEF A
<1>3. Leads(F, len, A)
  BY <1>2 DEF Leads
<1> HIDE DEF F, step, start
<1>4. PICK f : Runs(f, len, start, F) /\ \A n \in 0 .. len : f[n] \in A[n]
  BY <1>1, <1>3, LoopExists
<1>5. f = [n \in 0 .. len |-> IF n = 0 THEN start ELSE step(f[n - 1], n - 1)]
  <2>1. ASSUME NEW n \in 0 .. len PROVE f[n] = IF n = 0 THEN start ELSE step(f[n - 1], n - 1)
    <3>1. CASE n = 0
      BY <1>4, <3>1 DEF Runs
    <3>2. CASE n # 0
      <4>1. n - 1 \in 0 .. len - 1 /\ n - 1 \in 0 .. len
        BY <3>2
      <4>2. f[n] = F[n - 1][f[n - 1]] /\ f[n - 1] \in A[n - 1]
        BY <1>4, <3>2, <4>1 DEF Runs
      <4> QED
        BY <3>2, <4>1, <4>2 DEF F
    <3> QED
      BY <3>1, <3>2
  <2> QED
    BY <1>4, <2>1 DEF Runs
<1>6. PICK g : /\ g = [n \in 0 .. len |-> IF n = 0 THEN start ELSE step(g[n - 1], n - 1)]
               /\ sort_stable(u) = g[len].s
  BY <1>a, <1>5 DEF sort_stable, Loop, step, start
<1>7. g[len] \in A[len]
  <2>1. g[0] \in A[0]
    BY <1>1, <1>6
  <2>2. ASSUME NEW n \in 0 .. len - 1, g[n] \in A[n] PROVE g[n + 1] \in A[n + 1]
    <3>1. g[n + 1] = step(g[n], n)
      BY <1>6
    <3> QED
      BY <1>2, <2>2, <3>1
  <2> QED
    BY <2>1, <2>2, LoopKeeps
<1>8. PICK t \in Spans, w \in Nat : /\ t = sort_stable(u) /\ Perm(t, u) /\ (w >= len \/ w > len)
                                     /\ RunsSorted(t, w)
  <2>1. A[len] = { a \in [s : Spans, width : Nat \ {0}] : In(len, a) }
    BY DEF A
  <2>2. g[len] \in [s : Spans, width : Nat \ {0}] /\ In(len, g[len])
    BY <1>7, <2>1
  <2> QED
    BY <1>6, <2>2 DEF In
<1>9. Len(t) <= w
  BY <1>a, <1>8 DEF Perm
<1> QED
  BY <1>8, <1>9, OneRun

-----------------------------------------------------------------------------
(* nth_element.                                                            *)

\* No element behind the first c is less than one of these.
Split(t, c) == \A i \in 1 .. c, j \in c + 1 .. Len(t) : rank(t[i].key) <= rank(t[j].key)

\* The elements of u at lo + 1 .. hi have been moved among these positions.
Segment(t, u, lo, hi) ==
  /\ Perm(t, u)
  /\ \A k \in 1 .. Len(u) :
       IF k \in lo + 1 .. hi THEN \E m \in lo + 1 .. hi : t[k] = u[m] ELSE t[k] = u[k]

LEMMA SegmentKeepsSplit ==
  ASSUME NEW u \in Spans, NEW t, NEW lo \in Nat, NEW hi \in Nat, hi <= Len(u), Segment(t, u, lo, hi),
         NEW c \in 0 .. Len(u), c <= lo \/ c >= hi, Split(u, c)
  PROVE  Split(t, c)
<1>1. PICK L \in Nat : L = Len(u) /\ L = Len(t)
  BY Positions DEF Segment, Perm
<1>2. ASSUME NEW k \in 1 .. L
      PROVE  \E m \in 1 .. L : t[k] = u[m] /\ (k <= c => m <= c) /\ (k > c => m > c)
  <2>1. CASE k \in lo + 1 .. hi
    <3>1. PICK m \in lo + 1 .. hi : t[k] = u[m]
      BY <1>1, <2>1 DEF Segment
    <3>2. m \in 1 .. L
      BY <1>1
    <3>3. (k <= c => m <= c) /\ (k > c => m > c)
      BY <1>1, <2>1
    <3> QED
      BY <3>1, <3>2, <3>3
  <2>2. CASE k \notin lo + 1 .. hi
    <3>1. t[k] = u[k]
      BY <1>1, <2>2 DEF Segment
    <3> QED
      BY <3>1
  <2> QED
    BY <2>1, <2>2
<1>3. SUFFICES ASSUME NEW i \in 1 .. c, NEW j \in c + 1 .. L PROVE rank(t[i].key) <= rank(t[j].key)
  BY <1>1 DEF Split
<1>4. i \in 1 .. L /\ j \in 1 .. L /\ i <= c /\ j > c
  BY <1>1
<1>5. PICK m \in 1 .. L : t[i] = u[m] /\ m <= c
  BY <1>2, <1>4
<1>6. PICK n \in 1 .. L : t[j] = u[n] /\ n > c
  BY <1>2, <1>4
<1>7. m \in 1 .. c /\ n \in c + 1 .. L
  BY <1>1, <1>5, <1>6
<1> QED
  BY <1>1, <1>5, <1>6, <1>7 DEF Split

LEMMA SegmentTrans ==
  ASSUME NEW t, NEW u, NEW v \in Spans, NEW lo \in Nat, NEW hi \in Nat, hi <= Len(v),
         Segment(t, u, lo, hi), Segment(u, v, lo, hi)
  PROVE  Segment(t, v, lo, hi)
<1>1. PICK L \in Nat : L = Len(v) /\ L = Len(u) /\ hi <= L
  BY Positions DEF Segment, Perm
<1>2. ASSUME NEW k \in 1 .. L
      PROVE  IF k \in lo + 1 .. hi THEN \E m \in lo + 1 .. hi : t[k] = v[m] ELSE t[k] = v[k]
  <2>1. CASE k \in lo + 1 .. hi
    <3>1. PICK m \in lo + 1 .. hi : t[k] = u[m]
      BY <1>1, <2>1 DEF Segment
    <3>2. m \in 1 .. L
      BY <1>1
    <3>3. PICK n \in lo + 1 .. hi : u[m] = v[n]
      BY <1>1, <3>2 DEF Segment
    <3> QED
      BY <2>1, <3>1, <3>3
  <2>2. CASE k \notin lo + 1 .. hi
    BY <1>1, <2>2 DEF Segment
  <2> QED
    BY <2>1, <2>2
<1>3. Perm(t, v)
  BY PermTrans DEF Segment
<1> QED
  BY <1>1, <1>2, <1>3 DEF Segment

LEMMA SwapSegment ==
  ASSUME NEW u \in Spans, NEW lo \in Nat, NEW hi \in Nat, hi <= Len(u),
         NEW i \in lo .. hi - 1, NEW j \in lo .. hi - 1
  PROVE  Segment(swap(u, i, j), u, lo, hi)
<1>1. PICK L \in Nat : L = Len(u)
  BY Positions
<1>2. i \in 0 .. Len(u) - 1 /\ j \in 0 .. Len(u) - 1 /\ i + 1 \in lo + 1 .. hi /\ j + 1 \in lo + 1 .. hi
  BY <1>1
<1>3. PICK t : t = swap(u, i, j)
  OBVIOUS
<1>4. /\ Perm(t, u)
      /\ \A k \in 1 .. Len(u) : t[k] = IF k = j + 1 THEN u[i + 1] ELSE IF k = i + 1 THEN u[j + 1] ELSE u[k]
  BY <1>2, <1>3, SwapSpan
<1>5. ASSUME NEW k \in 1 .. Len(u)
      PROVE  IF k \in lo + 1 .. hi THEN \E m \in lo + 1 .. hi : t[k] = u[m] ELSE t[k] = u[k]
  <2>1. CASE k = j + 1
    BY <1>2, <1>4, <2>1
  <2>2. CASE k # j + 1 /\ k = i + 1
    BY <1>2, <1>4, <2>2
  <2>3. CASE k # j + 1 /\ k # i + 1
    BY <1>4, <2>3
  <2> QED
    BY <2>1, <2>2, <2>3
<1> QED
  BY <1>3, <1>4, <1>5 DEF Segment

LEMMA MedianOfThree ==
  ASSUME NEW u, NEW a, NEW b, NEW c
  PROVE  median3(u, a, b, c) \in {a, b, c}
BY DEF median3

\* The loop of partition_lomuto: the smaller ones first, then the others.
Smaller(t, lo, hi, e) == \A k \in lo + 1 .. hi : rank(t[k].key) < rank(e.key)
NotLess(t, lo, hi, e)  == \A k \in lo + 1 .. hi : rank(e.key) <= rank(t[k].key)

LEMMA Partitions ==
  ASSUME NEW u \in Spans, NEW left \in Nat, NEW right \in Nat, left <= right, right < Len(u),
         NEW pivot \in left .. right
  PROVE  LET p == partition_lomuto(u, left, right, pivot) IN
         /\ Segment(p.s, u, left, right + 1) /\ p.out \in left .. right
         /\ Smaller(p.s, left, p.out, p.s[p.out + 1]) /\ NotLess(p.s, p.out, right + 1, p.s[p.out + 1])
<1>a. PICK L \in Nat : L = Len(u)
  BY Positions
<1>b. PICK len : len = right - left
  OBVIOUS
<1>c. len \in Nat /\ left + len = right
  BY <1>b
<1>d. PICK hi \in Nat : hi = right + 1 /\ hi <= Len(u) /\ right \in left .. hi - 1 /\ pivot \in left .. hi - 1
  BY <1>a
<1>e. PICK t0 : t0 = swap(u, pivot, right)
  OBVIOUS
<1>f. Segment(t0, u, left, hi)
  BY <1>d, <1>e, SwapSegment
<1>g. t0 \in Spans /\ Len(t0) = L
  BY <1>a, <1>f DEF Segment, Perm
<1>h. PICK e \in Element : e = t0[hi]
  <2>1. hi \in 1 .. Len(t0)
    BY <1>a, <1>d, <1>g
  <2> QED
    BY <1>g, <2>1, Positions
<1> DEFINE step(acc, n) ==
             IF Less(get(acc.s, left + n), get(acc.s, right))
             THEN [s |-> swap(acc.s, acc.out, left + n), out |-> acc.out + 1] ELSE acc
           start == [s |-> t0, out |-> left]
           In(n, acc) == /\ Segment(acc.s, u, left, hi) /\ acc.out <= left + n /\ acc.s[hi] = e
                         /\ Smaller(acc.s, left, acc.out, e) /\ NotLess(acc.s, acc.out, left + n, e)
           A == [n \in 0 .. len |-> { acc \in [s : Spans, out : left .. right] : In(n, acc) }]
           F == [n \in 0 .. len - 1 |-> [a \in A[n] |-> step(a, n)]]
<1>1. start \in A[0]
  <2>1. start \in [s : Spans, out : left .. right] /\ start.s = t0 /\ start.out = left /\ left + 0 = left
    BY <1>g
  <2>2. Smaller(t0, left, left, e) /\ NotLess(t0, left, left, e)
    BY DEF Smaller, NotLess
  <2> HIDE DEF start
  <2>3. In(0, start)
    BY <1>f, <1>h, <2>1, <2>2
  <2> QED
    BY <1>c, <2>1, <2>3
<1>2. ASSUME NEW n \in 0 .. len - 1, NEW acc \in A[n] PROVE step(acc, n) \in A[n + 1]
  <2>1. n \in 0 .. len /\ n + 1 \in 0 .. len /\ n \in Nat
    BY <1>c
  <2>2. acc \in [s : Spans, out : left .. right] /\ In(n, acc)
    BY <2>1
  <2>3. PICK t \in Spans, out \in left .. right : acc = [s |-> t, out |-> out]
    BY <2>2
  <2>4. acc.s = t /\ acc.out = out
    BY <2>3
  <2>5. /\ Segment(t, u, left, hi) /\ out <= left + n /\ t[hi] = e
        /\ Smaller(t, left, out, e) /\ NotLess(t, out, left + n, e)
    BY <2>2, <2>4
  <2> HIDE DEF A
  <2>6. PICK at : at = left + n
    OBVIOUS
  <2>7. at \in Nat /\ at < right /\ at \in left .. hi - 1 /\ out \in left .. hi - 1 /\ at + 1 < hi
    BY <1>c, <1>d, <2>1, <2>6
  <2>8. Len(t) = L
    BY <1>a, <2>5 DEF Segment, Perm
  <2>9. PICK x \in Element : x = t[at + 1] /\ x = get(t, at)
    <3>1. at \in 0 .. Len(t) - 1
      BY <1>a, <1>d, <2>7, <2>8
    <3> QED
      BY <3>1, Positions
  <2>10. get(t, right) = e
    BY <1>d, <2>5 DEF get
  <2>11. /\ rank(x.key) \in Int /\ rank(e.key) \in Int /\ (Less(x, e) <=> rank(x.key) < rank(e.key))
    BY ComparesElements DEF Less
  <2>12. CASE ~Less(x, e)
    <3>1. step(acc, n) = acc
      BY <2>4, <2>6, <2>9, <2>10, <2>12
    <3>2. \A k \in out + 1 .. left + (n + 1) : k \in out + 1 .. left + n \/ k = at + 1
      BY <2>1, <2>6
    <3>3. NotLess(t, out, left + (n + 1), e)
      <4>1. SUFFICES ASSUME NEW k \in out + 1 .. left + (n + 1) PROVE rank(e.key) <= rank(t[k].key)
        BY DEF NotLess
      <4>2. CASE k \in out + 1 .. left + n
        BY <2>5, <4>2 DEF NotLess
      <4>3. CASE k = at + 1
        <5>1. rank(e.key) <= rank(x.key)
          BY <2>11, <2>12
        <5>2. t[k] = x
          BY <2>9, <4>3
        <5> QED
          BY <5>1, <5>2
      <4> QED
        BY <3>2, <4>2, <4>3
    <3>4. out <= left + (n + 1)
      BY <2>1, <2>5
    <3>5. In(n + 1, acc)
      BY <2>4, <2>5, <3>3, <3>4
    <3> QED
      BY <2>1, <2>2, <3>1, <3>5 DEF A
  <2>13. CASE Less(x, e)
    <3>1. step(acc, n) = [s |-> swap(t, out, at), out |-> out + 1]
      BY <2>4, <2>6, <2>9, <2>10, <2>13
    <3>2. PICK v : v = swap(t, out, at)
      OBVIOUS
    <3>3. hi <= Len(t)
      BY <1>d, <1>a, <2>8
    <3>4. Segment(v, t, left, hi)
      BY <1>d, <2>7, <3>2, <3>3, SwapSegment
    <3>5. Segment(v, u, left, hi)
      BY <1>d, <2>5, <3>4, SegmentTrans
    <3>6. \A k \in 1 .. L : v[k] = IF k = at + 1 THEN t[out + 1] ELSE IF k = out + 1 THEN t[at + 1] ELSE t[k]
      <4>1. out \in 0 .. Len(t) - 1 /\ at \in 0 .. Len(t) - 1
        BY <1>a, <1>d, <2>7, <2>8
      <4> QED
        BY <2>8, <3>2, <4>1, SwapSpan
    <3>7. v[hi] = e
      <4>1. hi \in 1 .. L /\ hi # at + 1 /\ hi # out + 1
        BY <1>a, <1>d, <2>5, <2>6, <2>7
      <4> QED
        BY <2>5, <3>6, <4>1
    <3>8. Smaller(v, left, out + 1, e)
      <4>1. SUFFICES ASSUME NEW k \in left + 1 .. out + 1 PROVE rank(v[k].key) < rank(e.key)
        BY DEF Smaller
      <4>2. k \in 1 .. L
        BY <1>a, <1>d, <2>7
      <4>3. CASE k = out + 1
        <5>1. v[k] = t[at + 1]
          BY <3>6, <4>2, <4>3
        <5> QED
          BY <2>9, <2>11, <2>13, <5>1
      <4>4. CASE k # out + 1
        <5>1. k \in left + 1 .. out /\ k # at + 1
          BY <2>5, <2>6, <4>4
        <5>2. v[k] = t[k]
          BY <3>6, <4>2, <4>4, <5>1
        <5> QED
          BY <2>5, <5>1, <5>2 DEF Smaller
      <4> QED
        BY <4>3, <4>4
    <3>9. NotLess(v, out + 1, left + (n + 1), e)
      <4>1. SUFFICES ASSUME NEW k \in out + 1 + 1 .. left + (n + 1) PROVE rank(e.key) <= rank(v[k].key)
        BY DEF NotLess
      <4>2. k \in 1 .. L /\ k # out + 1
        BY <1>a, <1>d, <2>1, <2>6, <2>7
      <4>3. CASE k = at + 1
        <5>1. v[k] = t[out + 1] /\ out + 1 \in out + 1 .. left + n
          BY <2>6, <3>6, <4>1, <4>2, <4>3
        <5> QED
          BY <2>5, <5>1 DEF NotLess
      <4>4. CASE k # at + 1
        <5>1. k \in out + 1 .. left + n
          BY <2>6, <4>1, <4>4
        <5>2. v[k] = t[k]
          BY <3>6, <4>2, <4>4
        <5> QED
          BY <2>5, <5>1, <5>2 DEF NotLess
      <4> QED
        BY <4>3, <4>4
    <3>10. v \in Spans
      BY <3>5 DEF Segment, Perm
    <3>11. out + 1 \in left .. right /\ out + 1 <= left + (n + 1)
      BY <2>1, <2>5, <2>6, <2>7
    <3>12. PICK b : b = [s |-> v, out |-> out + 1]
      OBVIOUS
    <3>13. b \in [s : Spans, out : left .. right] /\ b.s = v /\ b.out = out + 1
      BY <3>10, <3>11, <3>12
    <3>14. In(n + 1, b)
      BY <3>5, <3>7, <3>8, <3>9, <3>11, <3>13
    <3> HIDE DEF In
    <3> QED
      BY <2>1, <3>1, <3>2, <3>12, <3>13, <3>14 DEF A
  <2> QED
    BY <2>12, <2>13
<1> HIDE DEF In
<1> HIDE DEF A
<1>3. Leads(F, len, A)
  BY <1>2 DEF Leads
<1> HIDE DEF F, step, start
<1>4. PICK f : Runs(f, len, start, F) /\ \A n \in 0 .. len : f[n] \in A[n]
  BY <1>c, <1>1, <1>3, LoopExists
<1>5. f = [n \in 0 .. len |-> IF n = 0 THEN start ELSE step(f[n - 1], n - 1)]
  <2>1. ASSUME NEW n \in 0 .. len PROVE f[n] = IF n = 0 THEN start ELSE step(f[n - 1], n - 1)
    <3>1. CASE n = 0
      BY <1>c, <1>4, <3>1 DEF Runs
    <3>2. CASE n # 0
      <4>1. n - 1 \in 0 .. len - 1 /\ n - 1 \in 0 .. len
        BY <1>c, <3>2
      <4>2. f[n] = F[n - 1][f[n - 1]] /\ f[n - 1] \in A[n - 1]
        BY <1>4, <3>2, <4>1 DEF Runs
      <4> QED
        BY <3>2, <4>1, <4>2 DEF F
    <3> QED
      BY <3>1, <3>2
  <2> QED
    BY <1>c, <1>4, <2>1 DEF Runs
<1>6. PICK g : /\ g = [n \in 0 .. len |-> IF n = 0 THEN start ELSE step(g[n - 1], n - 1)]
               /\ partition_lomuto(u, left, right, pivot) = [s |-> swap(g[len].s, g[len].out, right), out |-> g[len].out]
  BY <1>b, <1>e, <1>5 DEF partition_lomuto, Loop, step, start
<1>7. g[len] \in A[len]
  <2>1. g[0] \in A[0]
    BY <1>c, <1>1, <1>6
  <2>2. ASSUME NEW n \in 0 .. len - 1, g[n] \in A[n] PROVE g[n + 1] \in A[n + 1]
    <3>1. g[n + 1] = step(g[n], n)
      BY <1>c, <1>6
    <3> QED
      BY <1>2, <2>2, <3>1
  <2> QED
    BY <1>c, <2>1, <2>2, LoopKeeps
<1>8. PICK t \in Spans, out \in left .. right : /\ t = g[len].s /\ out = g[len].out
                     /\ Segment(t, u, left, hi) /\ t[hi] = e
                     /\ Smaller(t, left, out, e) /\ NotLess(t, out, left + len, e)
  <2>1. A[len] = { acc \in [s : Spans, out : left .. right] : In(len, acc) }
    BY <1>c DEF A
  <2>2. g[len] \in [s : Spans, out : left .. right] /\ In(len, g[len])
    BY <1>7, <2>1
  <2> QED
    BY <2>2 DEF In
<1>9. PICK v : v = swap(t, out, right)
  OBVIOUS
<1>10. Len(t) = L
  BY <1>a, <1>8 DEF Segment, Perm
<1>11. Segment(v, u, left, hi)
  <2>1. hi <= Len(t) /\ out \in left .. hi - 1
    BY <1>a, <1>d, <1>10
  <2>2. Segment(v, t, left, hi)
    BY <1>d, <1>9, <2>1, SwapSegment
  <2> QED
    BY <1>d, <1>8, <2>2, SegmentTrans
<1>12. \A k \in 1 .. L : v[k] = IF k = hi THEN t[out + 1] ELSE IF k = out + 1 THEN t[hi] ELSE t[k]
  <2>1. out \in 0 .. Len(t) - 1 /\ right \in 0 .. Len(t) - 1
    BY <1>a, <1>10
  <2> QED
    BY <1>9, <1>10, <1>d, <2>1, SwapSpan
<1>13. hi \in 1 .. L /\ out + 1 \in 1 .. L /\ out + 1 <= hi
  BY <1>a, <1>d
<1>14. v[out + 1] = e
  BY <1>8, <1>12, <1>13
<1>15. Smaller(v, left, out, e)
  <2>1. SUFFICES ASSUME NEW k \in left + 1 .. out PROVE rank(v[k].key) < rank(e.key)
    BY DEF Smaller
  <2>2. k \in 1 .. L /\ k # hi /\ k # out + 1
    BY <1>13
  <2> QED
    BY <1>8, <1>12, <2>2 DEF Smaller
<1>16. NotLess(v, out, hi, e)
  <2>1. SUFFICES ASSUME NEW k \in out + 1 .. hi PROVE rank(e.key) <= rank(v[k].key)
    BY DEF NotLess
  <2>2. k \in 1 .. L
    BY <1>13
  <2>3. rank(e.key) \in Int
    BY ComparesElements
  <2>4. CASE k = out + 1
    BY <1>14, <2>3, <2>4
  <2>5. CASE k # out + 1 /\ k = hi
    <3>1. out + 1 \in out + 1 .. left + len /\ v[k] = t[out + 1]
      BY <1>c, <1>d, <1>12, <1>13, <2>5
    <3> QED
      BY <1>8, <3>1 DEF NotLess
  <2>6. CASE k # out + 1 /\ k # hi
    <3>1. k \in out + 1 .. left + len /\ v[k] = t[k]
      BY <1>c, <1>d, <1>12, <2>2, <2>6
    <3> QED
      BY <1>8, <3>1 DEF NotLess
  <2> QED
    BY <2>4, <2>5, <2>6
<1>17. partition_lomuto(u, left, right, pivot) = [s |-> v, out |-> out]
  BY <1>6, <1>8, <1>9
<1>18. PICK p : p = partition_lomuto(u, left, right, pivot)
  OBVIOUS
<1>19. p.s = v /\ p.out = out
  BY <1>17, <1>18
<1>20. /\ Segment(p.s, u, left, right + 1) /\ p.out \in left .. right
       /\ Smaller(p.s, left, p.out, p.s[p.out + 1]) /\ NotLess(p.s, p.out, right + 1, p.s[p.out + 1])
  BY <1>d, <1>11, <1>14, <1>15, <1>16, <1>19
<1> QED
  BY <1>18, <1>20

\* What the rounds of nth_element keep: nth is in the part that is left, and
\* what is outside of it is on the side where it belongs.
Cornering(a, u, nth) ==
  /\ Perm(a.s, u) /\ a.left \in 0 .. nth /\ a.right \in nth .. Len(u) - 1
  /\ Split(a.s, a.left) /\ Split(a.s, a.right + 1)

\* The pivot has the smaller ones in front of it, and the others behind.
LEMMA PartitionSplits ==
  ASSUME NEW t \in Spans, NEW lo \in Nat, NEW hi \in Nat, hi <= Len(t), NEW out \in lo .. hi - 1,
         Split(t, lo), Split(t, hi), Smaller(t, lo, out, t[out + 1]), NotLess(t, out, hi, t[out + 1])
  PROVE  Split(t, out) /\ Split(t, out + 1)
<1>1. PICK L \in Nat : L = Len(t) /\ \A k \in 1 .. L : t[k] \in Element
  BY Positions
<1>2. \A k \in 1 .. L : rank(t[k].key) \in Int
  BY <1>1, ComparesElements
<1>3. out + 1 \in 1 .. L
  BY <1>1
<1>4. ASSUME NEW i \in 1 .. out + 1, NEW j \in out + 1 .. L PROVE rank(t[i].key) <= rank(t[j].key)
  <2>1. i \in 1 .. L /\ j \in 1 .. L
    BY <1>1
  <2>2. rank(t[i].key) \in Int /\ rank(t[j].key) \in Int /\ rank(t[out + 1].key) \in Int
    BY <1>2, <1>3, <2>1
  <2>3. CASE i <= lo
    <3>1. i \in 1 .. lo /\ j \in lo + 1 .. L
      BY <1>1, <2>3
    <3> QED
      BY <1>1, <3>1 DEF Split
  <2>4. CASE j > hi
    <3>1. i \in 1 .. hi /\ j \in hi + 1 .. L
      BY <1>1, <2>4
    <3> QED
      BY <1>1, <3>1 DEF Split
  <2>5. CASE i > lo /\ j <= hi
    <3>1. rank(t[i].key) <= rank(t[out + 1].key)
      <4>1. CASE i = out + 1
        BY <2>2, <4>1
      <4>2. CASE i # out + 1
        <5>1. i \in lo + 1 .. out
          BY <2>5, <4>2
        <5>2. rank(t[i].key) < rank(t[out + 1].key)
          BY <5>1 DEF Smaller
        <5> QED
          BY <2>2, <5>2
      <4> QED
        BY <4>1, <4>2
    <3>2. rank(t[out + 1].key) <= rank(t[j].key)
      <4>1. j \in out + 1 .. hi
        BY <2>5
      <4> QED
        BY <4>1 DEF NotLess
    <3> QED
      BY <2>2, <3>1, <3>2
  <2>6. i <= lo \/ j > hi \/ (i > lo /\ j <= hi)
    BY <1>1, <2>1
  <2> QED
    BY <2>3, <2>4, <2>5, <2>6
<1>5. Split(t, out)
  <2>1. \A i \in 1 .. out : i \in 1 .. out + 1
    OBVIOUS
  <2> QED
    BY <1>1, <1>4, <2>1 DEF Split
<1>6. Split(t, out + 1)
  <2>1. \A j \in out + 1 + 1 .. L : j \in out + 1 .. L
    BY <1>1
  <2> QED
    BY <1>1, <1>4, <2>1 DEF Split
<1> QED
  BY <1>5, <1>6

LEMMA Narrows ==
  ASSUME NEW u \in Spans, NEW nth \in Nat,
         NEW a \in [s : Spans, left : Nat, right : Nat], Cornering(a, u, nth)
  PROVE  LET b == Narrowed(a, nth) IN
         /\ b \in [s : Spans, left : Nat, right : Nat] /\ Cornering(b, u, nth)
         /\ b.left = b.right \/ b.right - b.left < a.right - a.left
<1>1. PICK t \in Spans, left \in Nat, right \in Nat : a = [s |-> t, left |-> left, right |-> right]
  OBVIOUS
<1>2. PICK L \in Nat : L = Len(u)
  BY Positions
<1>3. a.s = t /\ a.left = left /\ a.right = right
  BY <1>1
<1>4. Perm(t, u) /\ Len(t) = L /\ left <= nth /\ nth <= right /\ right < L /\ Split(t, left) /\ Split(t, right + 1)
  BY <1>2, <1>3 DEF Cornering, Perm
<1>5. CASE left >= right
  <2>1. Narrowed(a, nth) = a
    BY <1>3, <1>5 DEF Narrowed
  <2>2. a.left = a.right
    BY <1>3, <1>4, <1>5
  <2> QED
    BY <2>1, <2>2
<1>6. CASE left < right
  <2>1. PICK mid : mid = left + (right - left) \div 2
    OBVIOUS
  <2>2. mid \in left .. right
    <3>1. PICK d \in Nat : d = right - left
      <4>1. right - left \in Nat
        BY <1>6
      <4> QED
        BY <4>1
    <3>2. d \div 2 \in 0 .. d
      OBVIOUS
    <3> QED
      BY <2>1, <3>1, <3>2
  <2>3. PICK pivot : pivot = median3(t, left, mid, right)
    OBVIOUS
  <2>4. pivot \in left .. right
    <3>1. pivot \in {left, mid, right}
      BY <2>3, MedianOfThree
    <3> QED
      BY <1>6, <2>2, <3>1
  <2>5. PICK p : p = partition_lomuto(t, left, right, pivot)
    OBVIOUS
  <2>6. /\ Segment(p.s, t, left, right + 1) /\ p.out \in left .. right
        /\ Smaller(p.s, left, p.out, p.s[p.out + 1]) /\ NotLess(p.s, p.out, right + 1, p.s[p.out + 1])
    <3>1. left <= right /\ right < Len(t)
      BY <1>4, <1>6
    <3> QED
      BY <2>4, <2>5, <3>1, Partitions
  <2>7. PICK v \in Spans, out \in left .. right : p.s = v /\ p.out = out
    BY <2>6 DEF Segment, Perm
  <2>8. Segment(v, t, left, right + 1) /\ Smaller(v, left, out, v[out + 1]) /\ NotLess(v, out, right + 1, v[out + 1])
    BY <2>6, <2>7
  <2>9. PICK hi \in Nat : hi = right + 1
    OBVIOUS
  <2>10. Perm(v, t) /\ Len(v) = L /\ hi <= Len(t) /\ hi <= Len(v) /\ left \in 0 .. Len(t) /\ hi \in 0 .. Len(t)
    BY <1>4, <1>6, <2>8, <2>9 DEF Segment, Perm
  <2>11. Split(v, left) /\ Split(v, hi)
    <3>1. left <= left /\ hi >= hi /\ Split(t, hi)
      BY <1>4, <2>9
    <3>2. Split(v, left)
      BY <1>4, <2>8, <2>9, <2>10, <3>1, SegmentKeepsSplit
    <3>3. Split(v, hi)
      BY <2>8, <2>9, <2>10, <3>1, SegmentKeepsSplit
    <3> QED
      BY <3>2, <3>3
  <2>12. Split(v, out) /\ Split(v, out + 1)
    <3>1. out \in left .. hi - 1
      BY <2>9
    <3> QED
      BY <2>8, <2>9, <2>10, <2>11, <3>1, PartitionSplits
  <2>13. Perm(v, u)
    BY <1>4, <2>10, PermTrans
  <2>14. Narrowed(a, nth) = IF nth = out THEN [s |-> v, left |-> nth, right |-> nth]
                            ELSE IF nth < out THEN [s |-> v, left |-> left, right |-> out - 1]
                            ELSE [s |-> v, left |-> out + 1, right |-> right]
    <3>1. ~(left >= right)
      BY <1>6
    <3>2. Narrowed(a, nth) = IF nth = p.out THEN [s |-> p.s, left |-> nth, right |-> nth]
                             ELSE IF nth < p.out THEN [a EXCEPT !.s = p.s, !.right = p.out - 1]
                             ELSE [a EXCEPT !.s = p.s, !.left = p.out + 1]
      BY <1>3, <2>1, <2>3, <2>5, <3>1 DEF Narrowed
    <3> QED
      BY <1>1, <2>7, <3>2
  <2>15. PICK l \in Nat, r \in Nat :
           /\ Narrowed(a, nth) = [s |-> v, left |-> l, right |-> r]
           /\ l \in 0 .. nth /\ r \in nth .. L - 1 /\ Split(v, l) /\ Split(v, r + 1)
           /\ l = r \/ r - l < right - left
    <3>1. CASE nth = out
      <4>1. nth \in 0 .. nth /\ nth \in nth .. L - 1
        BY <1>4
      <4> QED
        BY <2>12, <2>14, <3>1, <4>1
    <3>2. CASE nth < out
      <4>1. PICK r \in Nat : r = out - 1 /\ r + 1 = out
        <5>1. out - 1 \in Nat /\ (out - 1) + 1 = out
          BY <3>2
        <5> QED
          BY <5>1
      <4>2. left \in 0 .. nth /\ r \in nth .. L - 1 /\ r - left < right - left
        BY <1>4, <3>2, <4>1
      <4>3. Narrowed(a, nth) = [s |-> v, left |-> left, right |-> r]
        BY <2>14, <3>2, <4>1
      <4> QED
        BY <2>11, <2>12, <4>1, <4>2, <4>3
    <3>3. CASE nth > out
      <4>1. PICK l \in Nat : l = out + 1
        OBVIOUS
      <4>2. l \in 0 .. nth /\ right \in nth .. L - 1 /\ right - l < right - left
        BY <1>4, <3>3, <4>1
      <4>3. Narrowed(a, nth) = [s |-> v, left |-> l, right |-> right]
        BY <2>14, <3>3, <4>1
      <4> QED
        BY <2>9, <2>11, <2>12, <4>1, <4>2, <4>3
    <3> QED
      BY <3>1, <3>2, <3>3
  <2>16. PICK b : b = Narrowed(a, nth)
    OBVIOUS
  <2>17. /\ b \in [s : Spans, left : Nat, right : Nat] /\ b.s = v /\ b.left = l /\ b.right = r
    BY <2>15, <2>16
  <2>18. Cornering(b, u, nth)
    BY <1>2, <2>13, <2>15, <2>17 DEF Cornering
  <2> QED
    BY <1>3, <2>15, <2>16, <2>17, <2>18
<1> QED
  BY <1>5, <1>6

LEMMA SelectsNth ==
  ASSUME NEW u \in Spans, NEW nth \in 0 .. Len(u) - 1
  PROVE  /\ Perm(nth_element(u, nth), u)
         /\ Split(nth_element(u, nth), nth) /\ Split(nth_element(u, nth), nth + 1)
<1>a. PICK len \in Nat : len = Len(u) /\ nth \in Nat /\ nth < len /\ len - 1 \in Nat
  <2>1. Len(u) \in Nat
    BY Positions
  <2>2. Len(u) - 1 \in Nat /\ nth \in Nat /\ nth < Len(u)
    BY <2>1
  <2> QED
    BY <2>1, <2>2
<1> DEFINE step(a, n) == Narrowed(a, nth)
           start == [s |-> u, left |-> 0, right |-> Len(u) - 1]
           In(n, a) == /\ Cornering(a, u, nth)
                       /\ a.left = a.right \/ a.right - a.left <= len - 1 - n
           A == [n \in 0 .. len |-> { a \in [s : Spans, left : Nat, right : Nat] : In(n, a) }]
           F == [n \in 0 .. len - 1 |-> [a \in A[n] |-> step(a, n)]]
<1>1. start \in A[0]
  <2>1. start \in [s : Spans, left : Nat, right : Nat] /\ start.s = u /\ start.left = 0 /\ start.right = len - 1
    BY <1>a
  <2>2. Perm(u, u)
    BY DEF Perm
  <2>3. Split(u, 0) /\ Split(u, len)
    BY <1>a DEF Split
  <2>4. (len - 1) + 1 = len /\ 0 \in 0 .. nth /\ len - 1 \in nth .. Len(u) - 1
    BY <1>a
  <2> HIDE DEF start
  <2>5. Cornering(start, u, nth)
    BY <2>1, <2>2, <2>3, <2>4 DEF Cornering
  <2>6. In(0, start)
    BY <1>a, <2>1, <2>5
  <2> QED
    BY <2>1, <2>6
<1>2. ASSUME NEW n \in 0 .. len - 1, NEW a \in A[n] PROVE step(a, n) \in A[n + 1]
  <2>1. n \in 0 .. len /\ n + 1 \in 0 .. len /\ n \in Nat
    OBVIOUS
  <2>2. a \in [s : Spans, left : Nat, right : Nat] /\ In(n, a)
    BY <2>1
  <2> HIDE DEF A
  <2>3. PICK b : b = Narrowed(a, nth)
    OBVIOUS
  <2>4. /\ b \in [s : Spans, left : Nat, right : Nat] /\ Cornering(b, u, nth)
        /\ b.left = b.right \/ b.right - b.left < a.right - a.left
    BY <1>a, <2>2, <2>3, Narrows
  <2>5. PICK l \in Nat, r \in Nat : l = b.left /\ r = b.right
    BY <2>4
  <2>6. PICK x \in Nat, y \in Nat : x = a.left /\ y = a.right
    BY <2>2
  <2>7. l <= r
    BY <2>4, <2>5, <1>a DEF Cornering
  <2>8. l = r \/ r - l <= len - 1 - (n + 1)
    <3>1. x = y \/ y - x <= len - 1 - n
      BY <2>2, <2>6
    <3>2. l = r \/ r - l < y - x
      BY <2>4, <2>5, <2>6
    <3> QED
      BY <2>1, <2>7, <3>1, <3>2
  <2>9. In(n + 1, b)
    BY <2>4, <2>5, <2>8
  <2> HIDE DEF In
  <2> QED
    BY <2>1, <2>3, <2>4, <2>9 DEF A
<1> HIDE DEF In
<1> HIDE DEF A
<1>3. Leads(F, len, A)
  BY <1>2 DEF Leads
<1> HIDE DEF F, step, start
<1>4. PICK f : Runs(f, len, start, F) /\ \A n \in 0 .. len : f[n] \in A[n]
  BY <1>1, <1>3, LoopExists
<1>5. f = [n \in 0 .. len |-> IF n = 0 THEN start ELSE step(f[n - 1], n - 1)]
  <2>1. ASSUME NEW n \in 0 .. len PROVE f[n] = IF n = 0 THEN start ELSE step(f[n - 1], n - 1)
    <3>1. CASE n = 0
      BY <1>4, <3>1 DEF Runs
    <3>2. CASE n # 0
      <4>1. n - 1 \in 0 .. len - 1 /\ n - 1 \in 0 .. len
        BY <3>2
      <4>2. f[n] = F[n - 1][f[n - 1]] /\ f[n - 1] \in A[n - 1]
        BY <1>4, <3>2, <4>1 DEF Runs
      <4> QED
        BY <3>2, <4>1, <4>2 DEF F
    <3> QED
      BY <3>1, <3>2
  <2> QED
    BY <1>4, <2>1 DEF Runs
<1>6. PICK g : /\ g = [n \in 0 .. len |-> IF n = 0 THEN start ELSE step(g[n - 1], n - 1)]
               /\ nth_element(u, nth) = g[len].s
  BY <1>a, <1>5 DEF nth_element, Loop, step, start
<1>7. g[len] \in A[len]
  <2>1. g[0] \in A[0]
    BY <1>1, <1>6
  <2>2. ASSUME NEW n \in 0 .. len - 1, g[n] \in A[n] PROVE g[n + 1] \in A[n + 1]
    <3>1. g[n + 1] = step(g[n], n)
      BY <1>6
    <3> QED
      BY <1>2, <2>2, <3>1
  <2> QED
    BY <2>1, <2>2, LoopKeeps
<1>8. PICK a \in [s : Spans, left : Nat, right : Nat] : In(len, a) /\ nth_element(u, nth) = a.s
  <2>1. A[len] = { a \in [s : Spans, left : Nat, right : Nat] : In(len, a) }
    BY DEF A
  <2> QED
    BY <1>6, <1>7, <2>1
<1>9. Cornering(a, u, nth) /\ (a.left = a.right \/ a.right - a.left <= len - 1 - len)
  BY <1>8 DEF In
<1>10. PICK l \in Nat, r \in Nat : l = a.left /\ r = a.right
  OBVIOUS
<1>11. l \in 0 .. nth /\ r \in nth .. len - 1 /\ (l = r \/ r - l <= len - 1 - len)
  BY <1>a, <1>9, <1>10 DEF Cornering
<1>12. l = nth /\ r = nth
  BY <1>a, <1>11
<1> QED
  BY <1>8, <1>9, <1>10, <1>12 DEF Cornering

LEMMA OrderedByRank ==
  ASSUME NEW t \in Spans, is_sorted(t), NEW i \in 1 .. Len(t), NEW j \in 1 .. Len(t), i <= j
  PROVE  rank(t[i].key) <= rank(t[j].key)
<1>1. DOMAIN t = 1 .. Len(t)
  BY Positions
<1>2. Ordered(t)
  BY SortedIsOrdered DEF Spans
<1> QED
  BY <1>1, <1>2 DEF Ordered

\* partial_sort: what nth_element has put in front is sorted.
LEMMA SortsFront ==
  ASSUME NEW t \in Spans, NEW k \in Nat, k <= Len(t), Split(t, k), NEW u \in sort(sub(t, 0, k)),
         NEW v, v = u \o sub(t, k, Len(t) - k)
  PROVE  Perm(v, t) /\ \A i \in 1 .. k, j \in 1 .. Len(t) : i < j => rank(v[i].key) <= rank(v[j].key)
<1>1. PICK L \in Nat : L = Len(t)
  BY Positions
<1>2. PICK n \in Nat : n = Len(t) - k /\ k + n = L
  <2>1. L - k \in Nat /\ k + (L - k) = L
    BY <1>1
  <2> QED
    BY <1>1, <2>1
<1>3. PICK a : a = sub(t, 0, k)
  OBVIOUS
<1>4. PICK b : b = sub(t, k, n)
  OBVIOUS
<1>5. a \in Spans /\ Len(a) = k /\ \A i \in 1 .. k : a[i] = t[i]
  <2>1. /\ sub(t, 0, k) \in Spans /\ Len(sub(t, 0, k)) = k
        /\ \A i \in 1 .. k : sub(t, 0, k)[i] = t[0 + i]
    <3>1. 0 \in Nat /\ 0 + k <= Len(t)
      OBVIOUS
    <3> QED
      BY <3>1, SubSpan
  <2>2. \A i \in 1 .. k : 0 + i = i
    OBVIOUS
  <2> QED
    BY <1>3, <2>1, <2>2
<1>6. b \in Spans /\ Len(b) = n /\ \A i \in 1 .. n : b[i] = t[k + i]
  <2>1. k + n <= Len(t)
    BY <1>1, <1>2
  <2> QED
    BY <1>4, <2>1, SubSpan
<1>7. Perm(u, a) /\ is_sorted(u)
  BY <1>3, <1>5, AnySort
<1>8. u \in Spans /\ Len(u) = k
  BY <1>5, <1>7 DEF Perm
<1>9. v = u \o b
  BY <1>2, <1>4
<1>10. /\ v \in Spans /\ Len(v) = L /\ ToSet(v) = ToSet(u) \union ToSet(b)
       /\ \A i \in 1 .. k : v[i] = u[i]
       /\ \A i \in k + 1 .. L : v[i] = b[i - k]
  <2>1. /\ u \o b \in Spans /\ Len(u \o b) = Len(u) + Len(b)
        /\ \A i \in 1 .. Len(u) : (u \o b)[i] = u[i]
        /\ \A i \in Len(u) + 1 .. Len(u) + Len(b) : (u \o b)[i] = b[i - Len(u)]
        /\ ToSet(u \o b) = ToSet(u) \union ToSet(b)
    BY <1>6, <1>8, Joined
  <2> QED
    BY <1>2, <1>6, <1>8, <1>9, <2>1
<1>11. \A i \in k + 1 .. L : v[i] = t[i]
  <2>1. SUFFICES ASSUME NEW i \in k + 1 .. L PROVE v[i] = t[i]
    OBVIOUS
  <2>2. i - k \in 1 .. n /\ k + (i - k) = i
    BY <1>2
  <2> QED
    BY <1>6, <1>10, <2>2
<1>12. ASSUME NEW i \in 1 .. k PROVE \E m \in 1 .. k : v[i] = t[m]
  <2>1. u[i] \in ToSet(a)
    <3>1. u[i] \in ToSet(u)
      BY <1>8, Members
    <3> QED
      BY <1>7, <3>1 DEF Perm
  <2>2. PICK m \in 1 .. k : u[i] = a[m]
    BY <1>5, <2>1, Members
  <2> QED
    BY <1>5, <1>10, <2>2
<1>13. ToSet(v) = ToSet(t)
  <2>1. \A x : x \in ToSet(v) <=> x \in ToSet(a) \/ x \in ToSet(b)
    BY <1>7, <1>10 DEF Perm
  <2>2. \A x : x \in ToSet(a) <=> \E i \in 1 .. k : x = t[i]
    <3>1. \A x : x \in ToSet(a) <=> \E i \in 1 .. k : x = a[i]
      BY <1>5, Members
    <3> QED
      BY <1>5, <3>1
  <2>3. ASSUME NEW x PROVE x \in ToSet(b) <=> \E i \in k + 1 .. L : x = t[i]
    <3>1. ASSUME x \in ToSet(b) PROVE \E i \in k + 1 .. L : x = t[i]
      <4>1. PICK m \in 1 .. n : x = b[m]
        BY <1>6, <3>1, Members
      <4>2. k + m \in k + 1 .. L
        BY <1>2
      <4> QED
        BY <1>6, <4>1, <4>2
    <3>2. ASSUME NEW i \in k + 1 .. L, x = t[i] PROVE x \in ToSet(b)
      <4>1. i - k \in 1 .. n /\ k + (i - k) = i
        BY <1>2
      <4>2. x = b[i - k]
        BY <1>6, <3>2, <4>1
      <4> QED
        BY <1>6, <4>1, <4>2, Members
    <3> QED
      BY <3>1, <3>2
  <2>4. \A x : x \in ToSet(t) <=> \E i \in 1 .. L : x = t[i]
    BY <1>1, Members
  <2>5. \A i : i \in 1 .. L <=> i \in 1 .. k \/ i \in k + 1 .. L
    BY <1>2
  <2> QED
    BY <2>1, <2>2, <2>3, <2>4, <2>5
<1>14. Perm(v, t)
  BY <1>1, <1>10, <1>13 DEF Perm
<1>15. ASSUME NEW i \in 1 .. k, NEW j \in 1 .. L, i < j PROVE rank(v[i].key) <= rank(v[j].key)
  <2>1. CASE j <= k
    <3>1. j \in 1 .. k /\ i \in 1 .. Len(u) /\ j \in 1 .. Len(u) /\ i <= j
      BY <1>8, <1>15, <2>1
    <3>2. rank(u[i].key) <= rank(u[j].key)
      BY <1>7, <1>8, <3>1, OrderedByRank
    <3> QED
      BY <1>10, <3>1, <3>2
  <2>2. CASE j > k
    <3>1. j \in k + 1 .. L
      BY <1>1, <2>2
    <3>3. v[j] = t[j]
      BY <1>11, <3>1
    <3>2. PICK m \in 1 .. k : v[i] = t[m]
      BY <1>12
    <3> QED
      BY <1>1, <3>1, <3>2, <3>3 DEF Split
  <2>3. j <= k \/ j > k
    BY <1>1
  <2> QED
    BY <2>1, <2>2, <2>3
<1> QED
  BY <1>1, <1>14, <1>15

LEMMA SortsPartially ==
  ASSUME NEW u \in Spans, NEW k \in 0 .. Len(u), NEW v \in partial_sort(u, k)
  PROVE  Perm(v, u) /\ \A i \in 1 .. k, j \in 1 .. Len(u) : i < j => rank(v[i].key) <= rank(v[j].key)
<1>1. PICK L \in Nat : L = Len(u) /\ k \in Nat /\ k <= L
  <2>1. Len(u) \in Nat
    BY Positions
  <2> QED
    BY <2>1
<1>2. CASE k = 0
  <2>1. v = u
    BY <1>2 DEF partial_sort
  <2> QED
    BY <1>2, <2>1 DEF Perm
<1>3. CASE k # 0 /\ k >= Len(u)
  <2>1. v \in sort(u)
    BY <1>3 DEF partial_sort
  <2>2. Perm(v, u) /\ is_sorted(v)
    BY <2>1, AnySort
  <2>3. v \in Spans /\ Len(v) = L /\ k = L
    BY <1>1, <1>3, <2>2 DEF Perm
  <2>4. ASSUME NEW i \in 1 .. k, NEW j \in 1 .. L, i < j PROVE rank(v[i].key) <= rank(v[j].key)
    <3>1. i \in 1 .. Len(v) /\ j \in 1 .. Len(v) /\ i <= j
      BY <2>3, <2>4
    <3> QED
      BY <2>2, <2>3, <3>1, OrderedByRank
  <2> QED
    BY <1>1, <2>2, <2>4
<1>4. CASE k # 0 /\ ~(k >= Len(u))
  <2>1. PICK t : t = nth_element(u, k)
    OBVIOUS
  <2>2. Perm(t, u) /\ Split(t, k)
    <3>1. k \in 0 .. Len(u) - 1
      BY <1>1, <1>4
    <3> QED
      BY <2>1, <3>1, SelectsNth
  <2>3. PICK w \in sort(sub(t, 0, k)) : v = w \o sub(t, k, Len(t) - k)
    BY <1>4, <2>1 DEF partial_sort
  <2>4. t \in Spans /\ Len(t) = L /\ k <= Len(t)
    BY <1>1, <2>2 DEF Perm
  <2>5. Perm(v, t) /\ \A i \in 1 .. k, j \in 1 .. Len(t) : i < j => rank(v[i].key) <= rank(v[j].key)
    BY <1>1, <2>2, <2>3, <2>4, SortsFront
  <2> QED
    BY <1>1, <2>2, <2>4, <2>5, PermTrans
<1> QED
  BY <1>2, <1>3, <1>4
=============================================================================
