--------------------------- MODULE CatalogProofs ----------------------------
(***************************************************************************)
(* Theorems about CatalogFile.tla: what a lookup answers is what the file  *)
(* says, the second pass over the system dependent strings stays in the    *)
(* memory that the first has asked for, and a file that cannot be used     *)
(* leaves nothing behind.                                                  *)
(***************************************************************************)
EXTENDS CatalogFile, FiniteSetTheorems, SequenceTheorems, WellFoundedInduction, TLAPS

(* The least of some numbers.                                                *)
LEMMA MinIs ==
  ASSUME NEW S \in SUBSET Nat, S # {}
  PROVE  Min(S) \in S /\ \A x \in S : Min(S) <= x
<1> DEFINE R == OpToRel(<, Nat)
<1>1. IsWellFoundedOn(R, Nat)
  BY NatLessThanWellFounded
<1>2. PICK m \in S : \A k \in S : ~ (<<k, m>> \in R)
  <2> HIDE DEF R
  <2> QED BY <1>1, WFMin
<1>3. \A k \in S : m <= k
  <2>1. ASSUME NEW k \in S PROVE m <= k
    <3>1. k \in Nat /\ m \in Nat /\ ~ (k < m)
      BY <1>2 DEF OpToRel
    <3> QED BY <3>1
  <2> QED BY <2>1
<1> QED BY <1>3 DEF Min

(* What holds for a number, and with each number up to b for the next, holds *)
(* for all of them.                                                          *)
LEMMA IntervalInduction ==
  ASSUME NEW a \in Nat, NEW b \in Nat, NEW S, a \in S,
         \A k \in a..(b - 1) : k \in S => k + 1 \in S
  PROVE  \A k \in a..b : k \in S
<1> DEFINE T == {k \in a..b : k \notin S}
           m == Min(T)
<1> SUFFICES ASSUME T # {} PROVE FALSE
  OBVIOUS
<1>1. m \in T /\ \A k \in T : m <= k
  <2>1. T \in SUBSET Nat
    OBVIOUS
  <2> HIDE DEF T
  <2> QED BY <2>1, MinIs
<1> HIDE DEF m
<1>2. m \in a..b /\ m \notin S /\ m # a
  BY <1>1
<1>3. m - 1 \in a..(b - 1) /\ (m - 1) + 1 = m /\ m - 1 \in a..b /\ m - 1 < m
  BY <1>2
<1>4. m - 1 \in S
  BY <1>1, <1>3
<1>5. (m - 1) + 1 \in S
  BY <1>3, <1>4
<1> QED BY <1>2, <1>3, <1>5

(* A function on an interval by its first value v and the step h from each   *)
(* value to the next.                                                        *)
IsRecursion(f, N, V, v, h) ==
  f \in [0..N -> V] /\ f[0] = v /\ \A k \in 1..N : f[k] = h[k][f[k - 1]]

(* There is one.                                                             *)
LEMMA RecursionExists ==
  ASSUME NEW N \in Nat, NEW V, NEW v \in V, NEW h \in [1..N -> [V -> V]]
  PROVE  \E f : IsRecursion(f, N, V, v, h)
<1> DEFINE S == {m \in 0..N : \E f : IsRecursion(f, m, V, v, h)}
<1>1. 0 \in S
  <2> DEFINE f == [k \in 0..0 |-> v]
  <2>1. f \in [0..0 -> V] /\ f[0] = v
    OBVIOUS
  <2>2. \A k \in 1..0 : f[k] = h[k][f[k - 1]]
    OBVIOUS
  <2> HIDE DEF f
  <2>3. IsRecursion(f, 0, V, v, h)
    BY <2>1, <2>2 DEF IsRecursion
  <2> QED BY <2>3
<1>2. ASSUME NEW m \in 0..(N - 1), m \in S PROVE m + 1 \in S
  <2>1. PICK f : f \in [0..m -> V] /\ f[0] = v /\ \A k \in 1..m : f[k] = h[k][f[k - 1]]
    BY <1>2 DEF IsRecursion
  <2> DEFINE g == [k \in 0..(m + 1) |-> IF k <= m THEN f[k] ELSE h[m + 1][f[m]]]
  <2>2. m + 1 \in 1..N /\ f[m] \in V
    BY <1>2, <2>1
  <2>3. g \in [0..(m + 1) -> V] /\ g[0] = v
    BY <2>1, <2>2
  <2>4. ASSUME NEW k \in 1..(m + 1) PROVE g[k] = h[k][g[k - 1]]
    <3>1. CASE k = m + 1
      BY <1>2, <2>1, <3>1
    <3>2. CASE k # m + 1
      <4>1. k \in 1..m /\ k - 1 \in 0..m /\ k \in 0..(m + 1) /\ k - 1 \in 0..(m + 1)
        BY <1>2, <2>4, <3>2
      <4>2. g[k] = f[k] /\ g[k - 1] = f[k - 1]
        BY <4>1
      <4> QED BY <2>1, <4>1, <4>2
    <3> QED BY <3>1, <3>2
  <2> HIDE DEF g
  <2>5. IsRecursion(g, m + 1, V, v, h)
    BY <2>3, <2>4 DEF IsRecursion
  <2> QED BY <1>2, <2>5
<1>3. N \in S
  <2>1. \A k \in 0..(N - 1) : k \in S => k + 1 \in S
    BY <1>2
  <2> HIDE DEF S
  <2>2. 0 \in Nat
    OBVIOUS
  <2>3. \A k \in 0..N : k \in S
    BY <1>1, <2>1, <2>2, IntervalInduction, Zenon
  <2> QED BY <2>3
<1> QED BY <1>3

-----------------------------------------------------------------------------
(* Division by any number.                                                   *)
LEMMA Division ==
  ASSUME NEW x \in Int, NEW p \in Nat \ {0}
  PROVE  /\ x \div p \in Int /\ x % p \in 0..(p - 1)
         /\ x = p * (x \div p) + (x % p)
OBVIOUS

LEMMA RemainderIs ==
  ASSUME NEW p \in Nat \ {0}, NEW q \in Int, NEW r \in 0..(p - 1)
  PROVE  (p * q + r) % p = r /\ (p * q + r) \div p = q
<1> DEFINE x == p * q + r
           d == q - (x \div p)
<1>1. x \in Int
  OBVIOUS
<1>2. x \div p \in Int /\ x % p \in 0..(p - 1) /\ x = p * (x \div p) + (x % p)
  <2> HIDE DEF x
  <2> QED BY <1>1, Division
<1>3. d \in Int
  BY <1>2
<1>4. p * d = (x % p) - r
  BY <1>2
<1> HIDE DEF d, x
<1>5. p * d < p /\ p * d > - p
  BY <1>2, <1>4
<1>6. d = 0
  <2>1. CASE d >= 1
    <3>1. p * d >= p
      BY <1>3, <2>1
    <3> QED BY <3>1, <1>5, <1>3
  <2>2. CASE d <= -1
    <3>1. p * d <= - p
      BY <1>3, <2>2
    <3> QED BY <3>1, <1>5, <1>3
  <2> QED BY <2>1, <2>2, <1>3
<1> QED BY <1>2, <1>4, <1>6 DEF x, d

LEMMA SameRemainder ==
  ASSUME NEW p \in Nat \ {0}, NEW x \in Int, NEW y \in Int, NEW q \in Int, x = y + p * q
  PROVE  x % p = y % p
<1> DEFINE r == y % p
           e == y \div p
<1>1. e \in Int /\ r \in 0..(p - 1) /\ y = p * e + r
  BY Division
<1> HIDE DEF e, r
<1>2. x = p * (e + q) + r /\ e + q \in Int
  BY <1>1
<1>3. (p * (e + q) + r) % p = r
  BY <1>1, <1>2, RemainderIs
<1> QED BY <1>2, <1>3 DEF r

(* Of two numbers below a prime number, no product is a multiple of it.      *)
LEMMA NoProductOfSmaller ==
  ASSUME NEW p \in Nat, IsPrime(p), NEW a \in 1..(p - 1), NEW b \in 1..(p - 1)
  PROVE  (a * b) % p # 0
<1> DEFINE S == {m \in 1..(p - 1) : (a * m) % p = 0}
<1> SUFFICES ASSUME S # {} PROVE FALSE
  OBVIOUS
<1>0. p > 1 /\ \A d \in 2..(p - 1) : p % d # 0
  BY DEF IsPrime
<1> DEFINE m == Min(S)
<1>1. m \in S /\ \A k \in S : m <= k
  <2>1. S \in SUBSET Nat
    OBVIOUS
  <2> HIDE DEF S
  <2> QED BY <2>1, MinIs
<1> HIDE DEF m
<1>2. m \in 1..(p - 1) /\ (a * m) % p = 0 /\ a \in Nat /\ a * m \in Int
  BY <1>1
<1>3. m # 1
  <2>1. CASE m = 1
    <3>1. a * m = p * 0 + a
      BY <2>1
    <3>2. (p * 0 + a) % p = a
      BY <1>0, RemainderIs
    <3> QED BY <1>2, <3>1, <3>2
  <2> QED BY <2>1
<1> DEFINE q == p \div m
           r == p % m
           e == (a * m) \div p
<1>4. q \in Int /\ r \in 0..(m - 1) /\ p = m * q + r
  BY <1>2, Division
<1>5. r # 0 /\ r \in 1..(p - 1) /\ r < m
  <2>1. m \in 2..(p - 1)
    BY <1>2, <1>3
  <2>2. r # 0
    BY <1>0, <2>1
  <2> HIDE DEF r
  <2> QED BY <1>2, <1>4, <2>2
<1>6. e \in Int /\ a * m = p * e
  <2>1. e \in Int /\ a * m = p * e + ((a * m) % p)
    <3> HIDE DEF S
    <3>1. p \in Nat \ {0}
      BY <1>0
    <3> QED BY <1>2, <3>1, Division
  <2> QED BY <2>1, <1>2
<1> HIDE DEF q, r, e, S
<1>7. a * r = p * (a - (q * e)) + 0
  <2>1. a * p = (a * m) * q + (a * r)
    BY <1>2, <1>4, <1>5
  <2>2. a * p = (p * e) * q + (a * r)
    BY <2>1, <1>6
  <2> QED BY <2>2, <1>2, <1>4, <1>5, <1>6
<1>8. (a * r) % p = 0
  <2>1. a - (q * e) \in Int /\ p \in Nat \ {0} /\ 0 \in 0..(p - 1)
    BY <1>0, <1>2, <1>4, <1>6
  <2>2. (p * (a - (q * e)) + 0) % p = 0
    BY <2>1, RemainderIs
  <2> QED BY <1>7, <2>2
<1>9. r \in S
  BY <1>5, <1>8 DEF S
<1> QED BY <1>1, <1>5, <1>9

-----------------------------------------------------------------------------
(* The places of the open addressing, one after the other.                   *)
ProbeAt(p, h, i, j) == (h + j * i) % p

LEMMA ProbeIs ==
  ASSUME NEW p \in Nat \ {0}, NEW h \in Nat, NEW i \in Nat, NEW j \in Nat
  PROVE  ProbeAt(p, h, i, j) \in 0..(p - 1)
<1>1. h + j * i \in Int
  OBVIOUS
<1> QED BY <1>1, Division DEF ProbeAt

(* They begin with the hash, and NextIdx leads from each to the next.        *)
LEMMA ProbeSteps ==
  ASSUME NEW p \in Nat \ {0}, NEW h \in Nat, NEW i \in 0..(p - 1), NEW j \in Nat
  PROVE  /\ ProbeAt(p, h, i, 0) = h % p
         /\ NextIdx(ProbeAt(p, h, i, j), i, p) = ProbeAt(p, h, i, j + 1)
<1> DEFINE x == h + j * i
           q == x \div p
           r == x % p
<1>1. x \in Int
  OBVIOUS
<1>2. q \in Int /\ r \in 0..(p - 1) /\ x = p * q + r
  <2> HIDE DEF x
  <2> QED BY <1>1, Division
<1>3. h + (j + 1) * i = x + i
  OBVIOUS
<1> HIDE DEF q, r, x
<1>4. r + i < p => NextIdx(ProbeAt(p, h, i, j), i, p) = ProbeAt(p, h, i, j + 1)
  <2> SUFFICES ASSUME r + i < p PROVE NextIdx(r, i, p) = (x + i) % p
    BY <1>3 DEF ProbeAt, r, x
  <2>1. x + i = p * q + (r + i) /\ r + i \in 0..(p - 1)
    BY <1>1, <1>2
  <2>2. (p * q + (r + i)) % p = r + i
    BY <2>1, <1>2, RemainderIs
  <2>3. NextIdx(r, i, p) = r + i
    BY <1>2 DEF NextIdx
  <2> QED BY <2>1, <2>2, <2>3
<1>5. r + i >= p => NextIdx(ProbeAt(p, h, i, j), i, p) = ProbeAt(p, h, i, j + 1)
  <2> SUFFICES ASSUME r + i >= p PROVE NextIdx(r, i, p) = (x + i) % p
    BY <1>3 DEF ProbeAt, r, x
  <2>1. x + i = p * (q + 1) + (r + i - p) /\ r + i - p \in 0..(p - 1) /\ q + 1 \in Int
    BY <1>1, <1>2
  <2>2. (p * (q + 1) + (r + i - p)) % p = r + i - p
    BY <2>1, RemainderIs
  <2>3. NextIdx(r, i, p) = r + i - p
    BY <1>2 DEF NextIdx
  <2> QED BY <2>1, <2>2, <2>3
<1>6. ProbeAt(p, h, i, 0) = h % p
  BY DEF ProbeAt
<1>7. NextIdx(ProbeAt(p, h, i, j), i, p) = ProbeAt(p, h, i, j + 1)
  BY <1>2, <1>4, <1>5
<1> QED BY <1>6, <1>7

(* In a table of a prime size they are all different as often as there are   *)
(* places.                                                                   *)
LEMMA ProbesDiffer ==
  ASSUME NEW p \in Nat, IsPrime(p), NEW h \in Nat, NEW i \in 1..(p - 1),
         NEW j \in 0..(p - 1), NEW k \in 0..(p - 1), j < k
  PROVE  ProbeAt(p, h, i, j) # ProbeAt(p, h, i, k)
<1> SUFFICES ASSUME ProbeAt(p, h, i, j) = ProbeAt(p, h, i, k) PROVE FALSE
  OBVIOUS
<1>0. p \in Nat \ {0}
  BY DEF IsPrime
<1> DEFINE x == h + j * i
           y == h + k * i
<1>1. x \in Int /\ y \in Int /\ x % p = y % p
  BY DEF ProbeAt
<1>2. y - x = i * (k - j) /\ k - j \in 1..(p - 1) /\ i * (k - j) \in Int
  OBVIOUS
<1> DEFINE d == x \div p
           e == y \div p
           r == x % p
<1> HIDE DEF x, y
<1>3. d \in Int /\ e \in Int /\ r \in 0..(p - 1) /\ x = p * d + r /\ y = p * e + r
  BY <1>0, <1>1, Division
<1> HIDE DEF d, e, r
<1>4. i * (k - j) = p * (e - d) + 0 /\ e - d \in Int
  BY <1>1, <1>2, <1>3
<1>5. (p * (e - d) + 0) % p = 0
  BY <1>0, <1>4, RemainderIs
<1>6. (i * (k - j)) % p # 0
  BY <1>2, NoProductOfSmaller
<1> QED BY <1>4, <1>5, <1>6

(* So they come to every place.                                              *)
LEMMA ProbesReachAll ==
  ASSUME NEW p \in Nat, IsPrime(p), NEW h \in Nat, NEW i \in 1..(p - 1),
         NEW idx \in 0..(p - 1)
  PROVE  \E j \in 0..(p - 1) : ProbeAt(p, h, i, j) = idx
<1> SUFFICES ASSUME \A j \in 0..(p - 1) : ProbeAt(p, h, i, j) # idx PROVE FALSE
  OBVIOUS
<1> DEFINE S == 0..(p - 1)
           T == S \ {idx}
           f == [j \in S |-> ProbeAt(p, h, i, j)]
<1>0. p \in Nat \ {0} /\ i \in Nat
  BY DEF IsPrime
<1>1. f \in [S -> T]
  <2>1. ASSUME NEW j \in S PROVE ProbeAt(p, h, i, j) \in T
    <3>1. j \in Nat
      OBVIOUS
    <3>2. ProbeAt(p, h, i, j) \in S
      BY <1>0, <3>1, ProbeIs
    <3> QED BY <3>2
  <2> QED BY <2>1
<1>2. IsFiniteSet(S) /\ Cardinality(S) = p
  <2>1. 0 \in Int /\ p - 1 \in Int
    BY <1>0
  <2>2. IsFiniteSet(S) /\ Cardinality(S) = IF 0 > p - 1 THEN 0 ELSE (p - 1) - 0 + 1
    BY <2>1, FS_Interval
  <2> QED BY <2>2, <1>0
<1>3. IsFiniteSet(T) /\ Cardinality(T) = p - 1
  <2> HIDE DEF S
  <2>1. IsFiniteSet(S \ {idx}) /\ Cardinality(S \ {idx}) = Cardinality(S) - 1
    <3>1. idx \in S
      BY DEF S
    <3> QED BY <1>2, <3>1, FS_RemoveElement
  <2> QED BY <2>1, <1>2
<1>4. PICK j \in S, k \in S : j # k /\ f[j] = f[k]
  <2>1. Cardinality(T) < Cardinality(S)
    BY <1>0, <1>2, <1>3
  <2> HIDE DEF S, T, f
  <2> QED BY <1>1, <1>2, <1>3, <2>1, FS_PigeonHole
<1>5. ProbeAt(p, h, i, j) = ProbeAt(p, h, i, k)
  BY <1>4
<1>6. j < k \/ k < j
  BY <1>4
<1> QED BY <1>5, <1>6, ProbesDiffer

-----------------------------------------------------------------------------
(* The two widths of unsigned long.                                          *)
LEMMA Widths ==
  /\ HashWord \in Nat \ {0} /\ LongWord \in Nat \ {0}
  /\ \E w \in Nat \ {0} : HashWord = 4096 * w /\ HashWord \div 16 = 256 * w
  /\ \E l \in Int : LongWord = HashWord * l
<1>1. /\ HashWord \in Nat \ {0} /\ HashWord % 4096 = 0
      /\ LongWord \in Nat \ {0} /\ LongWord % HashWord = 0
  BY CatalogConstants
<1>2. PICK w \in Nat \ {0} : HashWord = 4096 * w
  <2> DEFINE w == HashWord \div 4096
  <2>1. w \in Nat \ {0} /\ HashWord = 4096 * w
    BY <1>1
  <2> QED BY <2>1
<1>3. HashWord \div 16 = 256 * w
  BY <1>2
<1>4. LongWord = HashWord * (LongWord \div HashWord) /\ LongWord \div HashWord \in Int
  <2>1. LongWord \in Int
    BY <1>1
  <2>2. LongWord \div HashWord \in Int
        /\ LongWord = HashWord * (LongWord \div HashWord) + (LongWord % HashWord)
    BY <1>1, <2>1, Division
  <2> QED BY <1>1, <2>2
<1> QED BY <1>1, <1>2, <1>3, <1>4

LEMMA HashStepType ==
  ASSUME NEW values \in Nat \ {0}, NEW x \in Int, NEW c \in Nat
  PROVE  HashStep(values, x, c) \in Int
<1> DEFINE h == (x * 16 + c) % values
           D == HashWord \div 16
           g == (h \div D) % 16
           digit == (h \div 16) % 16
<1>1. D \in Nat \ {0}
  BY Widths
<1>2. h \in Int
  <2>1. x * 16 + c \in Int
    OBVIOUS
  <2> QED BY <2>1, Division
<1> HIDE DEF D, h
<1>3. h \div D \in Int
  BY <1>1, <1>2, Division
<1>4. g \in Nat /\ digit \in Nat
  BY <1>2, <1>3
<1> HIDE DEF g, digit
<1>5. XorDigit(digit, g) \in Int
  BY <1>4 DEF XorDigit
<1>6. HashStep(values, x, c) =
        IF g = 0 THEN h ELSE h + 16 * (XorDigit(digit, g) - digit) - g * D
  BY DEF HashStep, h, D, g, digit
<1>7. g * D \in Int
  BY <1>1, <1>4
<1> QED BY <1>2, <1>4, <1>5, <1>6, <1>7

(* One step on both hosts: what is the same modulo 2^32 stays the same.      *)
LEMMA HashStepsAgree ==
  ASSUME NEW x \in Int, NEW y \in Int, NEW e \in Int, x = y + HashWord * e, NEW c \in Nat
  PROVE  \E d \in Int : HashStep(LongWord, x, c) = HashStep(HashWord, y, c) + HashWord * d
<1>1. PICK w \in Nat \ {0} : HashWord = 4096 * w /\ HashWord \div 16 = 256 * w
  BY Widths
<1>2. PICK l \in Int : LongWord = HashWord * l
  BY Widths
<1> DEFINE H == HashWord
           D == HashWord \div 16
           hx == (x * 16 + c) % LongWord
           hy == (y * 16 + c) % H
           a == (x * 16 + c) \div LongWord
           b == (y * 16 + c) \div H
           d == 16 * e + b - l * a
<1>3. a \in Int /\ hx \in Int /\ x * 16 + c = LongWord * a + hx
  <2> DEFINE u == x * 16 + c
  <2>1. u \in Int /\ LongWord \in Nat \ {0}
    BY Widths
  <2> HIDE DEF u
  <2>2. /\ u \div LongWord \in Int /\ u % LongWord \in 0..(LongWord - 1)
        /\ u = LongWord * (u \div LongWord) + (u % LongWord)
    BY <2>1, Division
  <2> QED BY <2>2 DEF u
<1>4. b \in Int /\ hy \in Int /\ y * 16 + c = H * b + hy
  <2> DEFINE u == y * 16 + c
  <2>1. u \in Int /\ H \in Nat \ {0}
    BY Widths
  <2> HIDE DEF u
  <2>2. u \div H \in Int /\ u % H \in 0..(H - 1) /\ u = H * (u \div H) + (u % H)
    BY <2>1, Division
  <2> QED BY <2>2 DEF u
<1>5. H \in Nat \ {0} /\ D \in Nat \ {0} /\ H = 16 * D /\ D = 256 * w
  BY <1>1, Widths
<1> HIDE DEF H, D, hx, hy, a, b
<1>6. d \in Int /\ hx = hy + H * d
  <2>1. x * 16 + c = y * 16 + c + 16 * (H * e)
    BY <1>5 DEF H
  <2>2. LongWord * a = H * (l * a)
    BY <1>2, <1>3, <1>5 DEF H
  <2>3. hx = hy + H * b + 16 * (H * e) - H * (l * a)
    BY <1>3, <1>4, <2>1, <2>2, <1>5
  <2> QED BY <1>3, <1>4, <1>5, <2>3
<1> HIDE DEF d
<1>7. (hx \div D) % 16 = (hy \div D) % 16
  <2> DEFINE q == hy \div D
             r == hy % D
  <2>1. q \in Int /\ r \in 0..(D - 1) /\ hy = D * q + r
    <3>1. hy \in Int /\ D \in Nat \ {0}
      BY <1>4, <1>5
    <3> QED BY <3>1, Division
  <2> HIDE DEF r, q
  <2>2. hx = D * (q + 16 * d) + r /\ q + 16 * d \in Int
    BY <1>5, <1>6, <2>1
  <2>3. hx \div D = q + 16 * d
    BY <1>5, <2>1, <2>2, RemainderIs
  <2>4. (q + 16 * d) % 16 = q % 16
    BY <1>6, <2>1
  <2> QED BY <2>3, <2>4 DEF q
<1>8. (hx \div 16) % 16 = (hy \div 16) % 16
  <2> DEFINE q == hy \div 16
             r == hy % 16
             z == 16 * (w * d)
  <2>1. q \in Int /\ r \in 0..15 /\ hy = 16 * q + r
    BY <1>4
  <2>2. w * d \in Int /\ z \in Int
    BY <1>6
  <2>3. H * d = 16 * (16 * z)
    BY <1>1, <1>6 DEF H
  <2> HIDE DEF r, q, z
  <2>4. hx = 16 * (q + 16 * z) + r /\ q + 16 * z \in Int
    BY <1>4, <1>6, <2>1, <2>2, <2>3
  <2>5. hx \div 16 = q + 16 * z
    BY <2>1, <2>2, <2>4
  <2>6. (q + 16 * z) % 16 = q % 16
    BY <2>1, <2>2
  <2> QED BY <2>5, <2>6 DEF q
<1> DEFINE g == (hy \div D) % 16
           digit == (hy \div 16) % 16
           t == XorDigit(digit, g)
<1>9. /\ HashStep(LongWord, x, c) = IF g = 0 THEN hx ELSE hx + 16 * (t - digit) - g * D
      /\ HashStep(H, y, c) = IF g = 0 THEN hy ELSE hy + 16 * (t - digit) - g * D
  BY <1>7, <1>8 DEF HashStep, H, D, hx, hy
<1>10. /\ g \in Int /\ digit \in Int /\ t \in Int /\ g * D \in Int
  <2>1. hy \div D \in Int
    BY <1>4, <1>5, Division
  <2>2. g \in Nat /\ digit \in Nat
    BY <1>4, <2>1
  <2> HIDE DEF g, digit
  <2> QED BY <1>5, <2>2 DEF XorDigit
<1> HIDE DEF g, digit, t
<1>11. HashStep(LongWord, x, c) = HashStep(H, y, c) + H * d
  <2>1. H * d \in Int
    BY <1>5, <1>6
  <2> QED BY <1>4, <1>6, <1>9, <1>10, <2>1
<1> QED BY <1>6, <1>11 DEF H

HashValues(values, t) ==
  CHOOSE f : f = [k \in 0..Len(t) |-> IF k = 0 THEN 0 ELSE HashStep(values, f[k - 1], t[k])]

LEMMA HashIs ==
  ASSUME NEW values \in Nat \ {0}, NEW t \in Seq(Nat)
  PROVE  /\ HashValues(values, t) \in [0..Len(t) -> Int]
         /\ HashValues(values, t)[0] = 0
         /\ \A k \in 1..Len(t) :
              HashValues(values, t)[k] = HashStep(values, HashValues(values, t)[k - 1], t[k])
         /\ HashOn(values, t) = HashValues(values, t)[Len(t)] % HashWord
<1> DEFINE N == Len(t)
           V == HashValues(values, t)
           h == [k \in 1..N |-> [x \in Int |-> HashStep(values, x, t[k])]]
           Rec(f) == [k \in 0..N |-> IF k = 0 THEN 0 ELSE HashStep(values, f[k - 1], t[k])]
<1>1. h \in [1..N -> [Int -> Int]]
  <2>1. ASSUME NEW k \in 1..N, NEW x \in Int PROVE HashStep(values, x, t[k]) \in Int
    <3>1. t[k] \in Nat
      OBVIOUS
    <3> QED BY <3>1, HashStepType
  <2> QED BY <2>1
<1>2. \E f : f = Rec(f)
  <2>1. 0 \in Int /\ N \in Nat
    OBVIOUS
  <2> HIDE DEF h
  <2>2. PICK f : IsRecursion(f, N, Int, 0, h)
    BY <1>1, <2>1, RecursionExists
  <2>3. ASSUME NEW k \in 1..N PROVE f[k] = HashStep(values, f[k - 1], t[k])
    <3>1. f[k - 1] \in Int
      BY <2>2 DEF IsRecursion
    <3> QED BY <2>2, <3>1 DEF h, IsRecursion
  <2>4. f = Rec(f)
    BY <2>2, <2>3 DEF IsRecursion
  <2> QED BY <2>4
<1>3. V = CHOOSE f : f = Rec(f)
  BY DEF HashValues
<1>4. V = Rec(V)
  <2> HIDE DEF V
  <2> QED BY <1>2, <1>3
<1>5. V[0] = 0 /\ \A k \in 1..N : V[k] = HashStep(values, V[k - 1], t[k])
  <2>1. N \in Nat
    OBVIOUS
  <2> HIDE DEF V, N
  <2>2. \A k \in 0..N : V[k] = IF k = 0 THEN 0 ELSE HashStep(values, V[k - 1], t[k])
    BY <1>4
  <2> QED BY <2>1, <2>2
<1>6. V \in [0..N -> Int]
  <2> DEFINE S == {k \in 0..N : V[k] \in Int}
  <2> HIDE DEF V
  <2>1. 0 \in S
    BY <1>5
  <2>2. \A k \in 0..(N - 1) : k \in S => k + 1 \in S
    <3>1. ASSUME NEW k \in 0..(N - 1), V[k] \in Int PROVE V[k + 1] \in Int
      <4>1. k + 1 \in 1..N /\ V[k + 1] = HashStep(values, V[k], t[k + 1]) /\ t[k + 1] \in Nat
        BY <1>5
      <4> QED BY <3>1, <4>1, HashStepType
    <3> QED BY <3>1
  <2>3. 0 \in Nat /\ N \in Nat
    OBVIOUS
  <2> HIDE DEF S
  <2>4. \A k \in 0..N : k \in S
    BY <2>1, <2>2, <2>3, IntervalInduction, Zenon
  <2>5. \A k \in 0..N : V[k] \in Int
    BY <2>4 DEF S
  <2> QED BY <1>4, <2>5
<1>7. HashOn(values, t) = V[N] % HashWord
  BY DEF HashOn, HashValues
<1> QED BY <1>5, <1>6, <1>7

(* hash_string computes in an unsigned long, and its callers keep 32 bits of *)
(* the result: they are those of a 32-bit host, whatever the width, so that  *)
(* a table that was written on one host can be probed on another.            *)
THEOREM HashIsPortable ==
  ASSUME NEW t \in Seq(Nat)
  PROVE  HashOn(LongWord, t) = HashOn(HashWord, t) /\ HashOn(HashWord, t) \in Nat
<1> DEFINE N == Len(t)
           X == HashValues(LongWord, t)
           Y == HashValues(HashWord, t)
           S == {k \in 0..N : \E d \in Int : X[k] = Y[k] + HashWord * d}
<1>0. HashWord \in Nat \ {0} /\ LongWord \in Nat \ {0}
  BY Widths
<1>1. /\ X \in [0..N -> Int] /\ X[0] = 0
      /\ \A k \in 1..N : X[k] = HashStep(LongWord, X[k - 1], t[k])
      /\ HashOn(LongWord, t) = X[N] % HashWord
  BY <1>0, HashIs
<1>2. /\ Y \in [0..N -> Int] /\ Y[0] = 0
      /\ \A k \in 1..N : Y[k] = HashStep(HashWord, Y[k - 1], t[k])
      /\ HashOn(HashWord, t) = Y[N] % HashWord
  BY <1>0, HashIs
<1> HIDE DEF X, Y
<1>3. 0 \in S
  <2>1. X[0] = Y[0] + HashWord * 0
    BY <1>0, <1>1, <1>2
  <2> QED BY <2>1
<1>4. \A k \in 0..(N - 1) : k \in S => k + 1 \in S
  <2>1. ASSUME NEW k \in 0..(N - 1), k \in S PROVE k + 1 \in S
    <3>1. PICK d \in Int : X[k] = Y[k] + HashWord * d
      BY <2>1
    <3>2. /\ k + 1 \in 1..N /\ t[k + 1] \in Nat /\ X[k] \in Int /\ Y[k] \in Int
          /\ X[k + 1] = HashStep(LongWord, X[k], t[k + 1])
          /\ Y[k + 1] = HashStep(HashWord, Y[k], t[k + 1])
      BY <1>1, <1>2
    <3>3. \E e \in Int : X[k + 1] = Y[k + 1] + HashWord * e
      BY <3>1, <3>2, HashStepsAgree
    <3> QED BY <3>2, <3>3
  <2> QED BY <2>1
<1>5. N \in S
  <2> HIDE DEF S
  <2>1. 0 \in Nat /\ N \in Nat
    OBVIOUS
  <2>2. \A k \in 0..N : k \in S
    BY <1>3, <1>4, <2>1, IntervalInduction, Zenon
  <2> QED BY <2>1, <2>2
<1>6. PICK d \in Int : X[N] = Y[N] + HashWord * d
  BY <1>5
<1>7. X[N] \in Int /\ Y[N] \in Int
  BY <1>1, <1>2
<1>8. X[N] % HashWord = Y[N] % HashWord /\ Y[N] % HashWord \in Nat
  <2>1. Y[N] % HashWord \in 0..(HashWord - 1)
    BY <1>0, <1>7, Division
  <2>2. X[N] % HashWord = Y[N] % HashWord
    BY <1>0, <1>6, <1>7, SameRemainder
  <2> QED BY <1>0, <2>1, <2>2
<1> QED BY <1>1, <1>2, <1>8

(* A C string ends before the first NUL.                                     *)
LEMMA CTextIs ==
  ASSUME NEW text \in Seq(Octet)
  PROVE  /\ CText(text) \in Seq(Octet \ {0}) /\ CText(text) \in Seq(Nat)
         /\ text \in EndedText => Len(CText(text)) < Len(text)
<1> DEFINE I == {k \in 1..Len(text) : text[k] = 0}
           m == Min(I)
           nul == IF I # {} THEN m ELSE 0
<1>1. CText(text) = IF nul = 0 THEN text ELSE SubSeq(text, 1, nul - 1)
  BY DEF CText, SelectInSeq
<1>4. \A s \in Seq(Octet \ {0}) : s \in Seq(Nat)
  <2>1. ASSUME NEW s \in Seq(Octet \ {0}) PROVE s \in Seq(Nat)
    <3>1. Len(s) \in Nat /\ s \in [1..Len(s) -> Octet \ {0}]
      OBVIOUS
    <3>2. s \in [1..Len(s) -> Nat]
      <4>1. ASSUME NEW k \in 1..Len(s) PROVE s[k] \in Nat
        <5>1. s[k] \in Octet
          BY <3>1
        <5>2. \A c \in Octet : c \in Nat
          BY DEF Octet
        <5> QED BY <5>1, <5>2
      <4> QED BY <3>1, <4>1
    <3> QED BY <3>1, <3>2
  <2> QED BY <2>1
<1>2. CASE I = {}
  <2>1. CText(text) = text
    BY <1>1, <1>2
  <2>2. \A k \in 1..Len(text) : text[k] \in Octet \ {0}
    BY <1>2
  <2>3. text \in Seq(Octet \ {0})
    BY <2>2
  <2>4. text \notin EndedText
    BY <1>2 DEF EndedText
  <2> QED BY <1>4, <2>1, <2>3, <2>4
<1>3. CASE I # {}
  <2>1. m \in I /\ \A x \in I : m <= x
    <3>1. I \in SUBSET Nat
      OBVIOUS
    <3> HIDE DEF I
    <3> QED BY <1>3, <3>1, MinIs
  <2> HIDE DEF m
  <2>2. CText(text) = SubSeq(text, 1, m - 1)
    <3>1. m # 0
      BY <2>1
    <3> HIDE DEF I
    <3> QED BY <1>1, <1>3, <3>1
  <2>3. m \in 1..Len(text) /\ \A k \in 1..(m - 1) : text[k] \in Octet \ {0}
    BY <2>1
  <2>4. /\ Len(SubSeq(text, 1, m - 1)) = m - 1
        /\ SubSeq(text, 1, m - 1) \in Seq(Octet \ {0})
    BY <2>3
  <2>5. Len(CText(text)) < Len(text)
    BY <2>2, <2>3, <2>4
  <2> QED BY <1>4, <2>2, <2>4, <2>5
<1> QED BY <1>2, <1>3

-----------------------------------------------------------------------------
(* Where a text is looked for in a hash table of so many places.             *)
ProbeOf(size, text, j) ==
  ProbeAt(size, HashOn(HashWord, text), Increment(HashOn(HashWord, text), size), j)

(* The table f holds the numbers of the first texts: each once, and each on  *)
(* the way of its text, with no empty place before it.                       *)
IsTable(f, size, texts, count) ==
  /\ f \in [0..(size - 1) -> 0..count]
  /\ \A i, j \in 0..(size - 1) : f[i] = f[j] /\ f[i] # 0 => i = j
  /\ \A n \in 1..count : \E j \in Nat :
       /\ f[ProbeOf(size, texts[n], j)] = n
       /\ \A i \in 0..(j - 1) : f[ProbeOf(size, texts[n], i)] # 0

LEMMA ProbeOfIs ==
  ASSUME NEW size \in Nat, size > 2, NEW text \in Seq(Nat), NEW j \in Nat
  PROVE  /\ HashOn(HashWord, text) \in Nat
         /\ Increment(HashOn(HashWord, text), size) \in 1..(size - 1)
         /\ ProbeOf(size, text, j) \in 0..(size - 1)
         /\ ProbeOf(size, text, 0) = HashOn(LongWord, text) % size
         /\ Increment(HashOn(LongWord, text), size) = Increment(HashOn(HashWord, text), size)
         /\ NextIdx(ProbeOf(size, text, j), Increment(HashOn(HashWord, text), size), size)
              = ProbeOf(size, text, j + 1)
<1> DEFINE h == HashOn(HashWord, text)
           i == Increment(h, size)
<1>1. h \in Nat /\ HashOn(LongWord, text) = h
  BY HashIsPortable
<1> HIDE DEF h
<1>2. i \in 1..(size - 1)
  <2>1. size - 2 \in Nat \ {0} /\ h \in Int
    BY <1>1
  <2>2. h % (size - 2) \in 0..(size - 2 - 1)
    BY <2>1, Division
  <2> QED BY <2>2 DEF Increment
<1> HIDE DEF i
<1>3. i \in Nat /\ i \in 0..(size - 1) /\ size \in Nat \ {0}
  BY <1>2
<1>4. ProbeAt(size, h, i, j) \in 0..(size - 1)
  BY <1>1, <1>3, ProbeIs
<1>5. /\ ProbeAt(size, h, i, 0) = h % size
      /\ NextIdx(ProbeAt(size, h, i, j), i, size) = ProbeAt(size, h, i, j + 1)
  BY <1>1, <1>3, ProbeSteps
<1> QED BY <1>1, <1>2, <1>4, <1>5 DEF ProbeOf, h, i

(* A table with fewer texts than places has an empty place.                  *)
LEMMA TableHasPlace ==
  ASSUME NEW size \in Nat, NEW count \in Nat, count < size, NEW f, NEW texts,
         IsTable(f, size, texts, count)
  PROVE  \E idx \in 0..(size - 1) : f[idx] = 0
<1> SUFFICES ASSUME \A idx \in 0..(size - 1) : f[idx] # 0 PROVE FALSE
  OBVIOUS
<1> DEFINE S == 0..(size - 1)
           T == 1..count
<1>1. f \in [S -> T]
  BY DEF IsTable
<1>2. IsFiniteSet(S) /\ Cardinality(S) = size
  <2>1. 0 \in Int /\ size - 1 \in Int
    OBVIOUS
  <2>2. IsFiniteSet(S) /\ Cardinality(S) = IF 0 > size - 1 THEN 0 ELSE (size - 1) - 0 + 1
    BY <2>1, FS_Interval
  <2> QED BY <2>2
<1>3. IsFiniteSet(T) /\ Cardinality(T) = count
  <2>1. 1 \in Int /\ count \in Int
    OBVIOUS
  <2>2. IsFiniteSet(T) /\ Cardinality(T) = IF 1 > count THEN 0 ELSE count - 1 + 1
    BY <2>1, FS_Interval
  <2> QED BY <2>2
<1>4. Cardinality(T) < Cardinality(S)
  BY <1>2, <1>3
<1>5. \A i, j \in S : f[i] = f[j] => i = j
  BY DEF IsTable
<1> HIDE DEF S, T
<1>6. PICK x \in S, y \in S : x # y /\ f[x] = f[y]
  BY <1>1, <1>2, <1>3, <1>4, FS_PigeonHole
<1> QED BY <1>5, <1>6

(* A text is put into the first empty place on its way.                      *)
LEMMA TableGrows ==
  ASSUME NEW size \in Nat, size > 2, NEW count \in Nat, NEW f, NEW texts,
         \A n \in 1..(count + 1) : texts[n] \in Seq(Nat),
         IsTable(f, size, texts, count),
         NEW j \in Nat, f[ProbeOf(size, texts[count + 1], j)] = 0,
         \A i \in 0..(j - 1) : f[ProbeOf(size, texts[count + 1], i)] # 0
  PROVE  IsTable([f EXCEPT ![ProbeOf(size, texts[count + 1], j)] = count + 1],
                 size, texts, count + 1)
<1> DEFINE P(n, k) == ProbeOf(size, texts[n], k)
           idx == P(count + 1, j)
           g == [f EXCEPT ![idx] = count + 1]
<1>1. \A n \in 1..(count + 1), k \in Nat : P(n, k) \in 0..(size - 1)
  BY ProbeOfIs
<1>2. idx \in 0..(size - 1) /\ f[idx] = 0
  BY <1>1
<1>3. /\ f \in [0..(size - 1) -> 0..count]
      /\ \A i, k \in 0..(size - 1) : f[i] = f[k] /\ f[i] # 0 => i = k
      /\ \A n \in 1..count : \E k \in Nat :
           f[P(n, k)] = n /\ \A i \in 0..(k - 1) : f[P(n, i)] # 0
  BY DEF IsTable
<1> HIDE DEF P, idx
<1>4. \A i \in 0..(size - 1) : g[i] = IF i = idx THEN count + 1 ELSE f[i]
  BY <1>3
<1>5. g \in [0..(size - 1) -> 0..(count + 1)]
  <2>1. g = [i \in 0..(size - 1) |-> IF i = idx THEN count + 1 ELSE f[i]]
    BY <1>3
  <2>2. \A i \in 0..(size - 1) : (IF i = idx THEN count + 1 ELSE f[i]) \in 0..(count + 1)
    <3>1. \A i \in 0..(size - 1) : f[i] \in 0..count
      BY <1>3
    <3> QED BY <3>1
  <2> HIDE DEF g
  <2> QED BY <2>1, <2>2
<1> HIDE DEF g
<1>6. \A i, k \in 0..(size - 1) : g[i] = g[k] /\ g[i] # 0 => i = k
  <2>1. \A i \in 0..(size - 1) : f[i] # count + 1
    BY <1>3
  <2> QED BY <1>3, <1>4, <2>1
<1>7. ASSUME NEW n \in 1..(count + 1)
      PROVE  \E k \in Nat : g[P(n, k)] = n /\ \A i \in 0..(k - 1) : g[P(n, i)] # 0
  <2>1. CASE n = count + 1
    <3>1. g[P(n, j)] = n
      BY <1>2, <1>4, <2>1 DEF idx
    <3>2. \A i \in 0..(j - 1) : g[P(n, i)] # 0
      <4>1. ASSUME NEW i \in 0..(j - 1) PROVE g[P(n, i)] # 0
        <5>1. i \in Nat
          OBVIOUS
        <5>2. P(n, i) \in 0..(size - 1) /\ f[P(n, i)] # 0
          BY <1>1, <2>1, <5>1 DEF P
        <5> QED BY <1>4, <5>2
      <4> QED BY <4>1
    <3> QED BY <3>1, <3>2
  <2>2. CASE n # count + 1
    <3>0. n \in 1..count
      BY <2>2
    <3>1. PICK k \in Nat : f[P(n, k)] = n /\ \A i \in 0..(k - 1) : f[P(n, i)] # 0
      BY <1>3, <3>0
    <3>2. g[P(n, k)] = n
      <4>0. n # 0
        OBVIOUS
      <4>1. P(n, k) \in 0..(size - 1)
        BY <1>1, Zenon DEF P
      <4>2. P(n, k) # idx
        BY <1>2, <3>1, <4>0, <4>1
      <4> QED BY <1>4, <3>1, <4>1, <4>2
    <3>3. ASSUME NEW i \in 0..(k - 1) PROVE g[P(n, i)] # 0
      <4>1. i \in Nat
        OBVIOUS
      <4>2. P(n, i) \in 0..(size - 1) /\ f[P(n, i)] # 0
        BY <1>1, <3>1, <4>1
      <4> QED BY <1>4, <4>2
    <3> QED BY <3>2, <3>3
  <2> QED BY <2>1, <2>2
<1> QED BY <1>5, <1>6, <1>7 DEF IsTable, g, idx, P

(* The table that msgfmt writes, one original after the other.               *)
Placed(size, tab, text) ==
  ProbeOf(size, text, Min({j \in 0..(size - 1) : tab[ProbeOf(size, text, j)] = 0}))
TablesOf(size, originals) ==
  CHOOSE f : f = [k \in 0..Len(originals) |->
                   IF k = 0 THEN [idx \in 0..(size - 1) |-> 0]
                   ELSE [f[k - 1] EXCEPT ![Placed(size, f[k - 1], CText(originals[k]))] = k]]

LEMMA TablesAre ==
  ASSUME NEW size \in Nat, NEW originals \in Seq(EndedText)
  PROVE  /\ HashTable(size, originals) = TablesOf(size, originals)[Len(originals)]
         /\ TablesOf(size, originals)[0] = [idx \in 0..(size - 1) |-> 0]
         /\ \A k \in 1..Len(originals) :
              TablesOf(size, originals)[k] =
                [TablesOf(size, originals)[k - 1] EXCEPT
                   ![Placed(size, TablesOf(size, originals)[k - 1], CText(originals[k]))] = k]
<1> DEFINE N == Len(originals)
           F == TablesOf(size, originals)
           V == [0..(size - 1) -> 0..N]
           v == [idx \in 0..(size - 1) |-> 0]
           Step(k, tab) == [tab EXCEPT ![Placed(size, tab, CText(originals[k]))] = k]
           h == [k \in 1..N |-> [tab \in V |-> Step(k, tab)]]
           Rec(f) == [k \in 0..N |-> IF k = 0 THEN v ELSE Step(k, f[k - 1])]
<1>0. N \in Nat
  OBVIOUS
<1>1. v \in V /\ \A k \in 1..N, tab \in V : Step(k, tab) \in V
  <2>1. ASSUME NEW k \in 1..N, NEW tab \in V, NEW x PROVE [tab EXCEPT ![x] = k] \in V
    <3>1. [tab EXCEPT ![x] = k] = [i \in 0..(size - 1) |-> IF i = x THEN k ELSE tab[i]]
      OBVIOUS
    <3>2. \A i \in 0..(size - 1) : (IF i = x THEN k ELSE tab[i]) \in 0..N
      OBVIOUS
    <3> QED BY <3>1, <3>2
  <2> QED BY <1>0, <2>1
<1> HIDE DEF N
<1>2. \E f : f = Rec(f)
  <2>1. h \in [1..N -> [V -> V]]
    BY <1>1
  <2> HIDE DEF h, V, v
  <2>2. PICK f : IsRecursion(f, N, V, v, h)
    BY <1>0, <1>1, <2>1, RecursionExists
  <2> HIDE DEF Step
  <2>3. ASSUME NEW k \in 1..N PROVE f[k] = Step(k, f[k - 1])
    <3>1. f[k - 1] \in V
      BY <1>0, <2>2 DEF IsRecursion
    <3> QED BY <2>2, <3>1 DEF h, IsRecursion
  <2>4. f = Rec(f)
    BY <2>2, <2>3 DEF IsRecursion
  <2> QED BY <2>4
<1>3. F = CHOOSE f : f = Rec(f)
  BY DEF TablesOf, N
<1>4. F = Rec(F)
  <2> HIDE DEF F, Rec
  <2> QED BY <1>2, <1>3
<1>5. F[0] = v /\ \A k \in 1..N : F[k] = Step(k, F[k - 1])
  <2> HIDE DEF F, v, Step
  <2>1. \A k \in 0..N : F[k] = IF k = 0 THEN v ELSE Step(k, F[k - 1])
    BY <1>4
  <2> QED BY <1>0, <2>1
<1>6. HashTable(size, originals) = F[N]
  BY DEF HashTable, TablesOf, Placed, ProbeOf, ProbeAt, N
<1> QED BY <1>5, <1>6 DEF N

CTexts(originals) == [n \in 1..Len(originals) |-> CText(originals[n])]

(* It is a table of them all.                                                *)
LEMMA HashTableIsTable ==
  ASSUME NEW size \in Nat, size > 2, IsPrime(size),
         NEW originals \in Seq(EndedText), Len(originals) < size
  PROVE  IsTable(HashTable(size, originals), size, CTexts(originals), Len(originals))
<1> DEFINE N == Len(originals)
           T == CTexts(originals)
           F == TablesOf(size, originals)
           S == {k \in 0..N : IsTable(F[k], size, T, k)}
<1>1. /\ HashTable(size, originals) = F[N]
      /\ F[0] = [idx \in 0..(size - 1) |-> 0]
      /\ \A k \in 1..N : F[k] = [F[k - 1] EXCEPT
                               ![Placed(size, F[k - 1], CText(originals[k]))] = k]
  BY TablesAre
<1>2. N \in Nat /\ \A k \in 1..N : T[k] = CText(originals[k]) /\ T[k] \in Seq(Nat)
  <2>1. ASSUME NEW k \in 1..N PROVE CText(originals[k]) \in Seq(Nat)
    <3>1. originals[k] \in Seq(Octet)
      BY DEF EndedText
    <3> QED BY <3>1, CTextIs
  <2> QED BY <2>1 DEF CTexts
<1> HIDE DEF T, F
<1>3. 0 \in S
  <2>1. F[0] \in [0..(size - 1) -> 0..0] /\ \A i \in 0..(size - 1) : F[0][i] = 0
    BY <1>1
  <2> QED BY <1>2, <2>1 DEF IsTable
<1>4. \A k \in 0..(N - 1) : k \in S => k + 1 \in S
  <2>1. ASSUME NEW k \in 0..(N - 1), IsTable(F[k], size, T, k)
        PROVE  IsTable(F[k + 1], size, T, k + 1)
    <3> DEFINE tab == F[k]
               P(j) == ProbeOf(size, T[k + 1], j)
               E == {j \in 0..(size - 1) : tab[P(j)] = 0}
               least == Min(E)
    <3>0. k \in Nat /\ k < size /\ k + 1 \in 1..N /\ T[k + 1] \in Seq(Nat)
      BY <1>2
    <3>1. PICK idx \in 0..(size - 1) : tab[idx] = 0
      BY <2>1, <3>0, TableHasPlace
    <3>2. PICK j \in 0..(size - 1) : P(j) = idx
      <4> DEFINE hash == HashOn(HashWord, T[k + 1])
                 i == Increment(hash, size)
      <4>0. 0 \in Nat
        OBVIOUS
      <4>1. hash \in Nat /\ i \in 1..(size - 1)
        BY <3>0, <4>0, ProbeOfIs
      <4> HIDE DEF hash, i
      <4>2. \E j \in 0..(size - 1) : ProbeAt(size, hash, i, j) = idx
        BY <4>1, ProbesReachAll
      <4> QED BY <4>2 DEF ProbeOf, hash, i
    <3>3. E # {} /\ E \in SUBSET Nat
      BY <3>1, <3>2
    <3>4. least \in E /\ \A x \in E : least <= x
      <4> HIDE DEF E
      <4> QED BY <3>3, MinIs
    <3>5. F[k + 1] = [tab EXCEPT ![P(least)] = k + 1]
      <4>1. F[k + 1] = [tab EXCEPT ![Placed(size, tab, T[k + 1])] = k + 1]
        BY <1>1, <1>2, <3>0
      <4>2. Placed(size, tab, T[k + 1]) = P(least)
        BY DEF Placed
      <4> QED BY <4>1, <4>2
    <3> HIDE DEF least
    <3>6. least \in Nat /\ tab[P(least)] = 0
      BY <3>4
    <3>7. \A i \in 0..(least - 1) : tab[P(i)] # 0
      <4> HIDE DEF P, tab
      <4> QED BY <3>4
    <3>8. \A n \in 1..(k + 1) : T[n] \in Seq(Nat)
      BY <1>2
    <3> QED BY <2>1, <3>0, <3>5, <3>6, <3>7, <3>8, TableGrows
  <2> QED BY <2>1
<1>5. N \in S
  <2> HIDE DEF S, N
  <2>1. \A k \in 0..N : k \in S
    BY <1>2, <1>3, <1>4, IntervalInduction, Zenon
  <2> QED BY <1>2, <2>1
<1> QED BY <1>1, <1>5 DEF T

(* strcmp is asymmetric.                                                     *)
LEMMA BelowIsAsymmetric ==
  ASSUME NEW a \in Seq(Nat), NEW b \in Seq(Nat), Below(a, b)
  PROVE  ~ Below(b, a)
<1>1. ASSUME NEW x \in Seq(Nat), NEW y \in Seq(Nat), Below(x, y)
      PROVE  \E k \in Nat \ {0} :
               /\ k <= Len(y) /\ k <= Len(x) + 1 /\ (k > Len(x) \/ x[k] < y[k])
               /\ \A i \in 1..(k - 1) : x[i] = y[i]
  <2> DEFINE S == {Len(y), Len(x) + 1}
             m == Min(S)
  <2>1. m \in S /\ \A i \in S : m <= i
    <3>1. S \in SUBSET Nat /\ S # {}
      OBVIOUS
    <3> HIDE DEF S
    <3> QED BY <3>1, MinIs
  <2> HIDE DEF m
  <2>2. PICK k \in 1..m : /\ k > Len(x) \/ x[k] < y[k]
                          /\ SubSeq(x, 1, k - 1) = SubSeq(y, 1, k - 1)
    BY <1>1 DEF Below, m
  <2>3. k \in Nat \ {0} /\ k <= Len(y) /\ k <= Len(x) + 1
    BY <2>1
  <2>4. ASSUME NEW i \in 1..(k - 1) PROVE x[i] = y[i]
    <3> DEFINE n == k - 1
    <3>0. n \in Nat /\ n <= Len(x) /\ n <= Len(y) /\ i \in 1..n
      BY <2>3
    <3> HIDE DEF n
    <3>1. SubSeq(x, 1, n)[i] = x[i] /\ SubSeq(y, 1, n)[i] = y[i]
      <4>1. 1 \in 1..(Len(x) + 1) /\ n \in (1 - 1)..Len(x) /\ n \in (1 - 1)..Len(y)
            /\ 1 \in 1..(Len(y) + 1)
        BY <3>0
      <4>2. i \in 1..(n - 1 + 1)
        BY <3>0
      <4>3. SubSeq(x, 1, n)[i] = x[1 + i - 1]
        BY <4>1, <4>2, SubSeqProperties
      <4>4. SubSeq(y, 1, n)[i] = y[1 + i - 1]
        BY <4>1, <4>2, SubSeqProperties
      <4>5. 1 + i - 1 = i
        OBVIOUS
      <4> QED BY <4>3, <4>4, <4>5
    <3>2. SubSeq(x, 1, n) = SubSeq(y, 1, n)
      BY <2>2 DEF n
    <3> QED BY <3>1, <3>2
  <2> QED BY <2>2, <2>3, <2>4
<1> SUFFICES ASSUME Below(b, a) PROVE FALSE
  OBVIOUS
<1>2. PICK k \in Nat \ {0} :
        /\ k <= Len(b) /\ k <= Len(a) + 1 /\ (k > Len(a) \/ a[k] < b[k])
        /\ \A i \in 1..(k - 1) : a[i] = b[i]
  BY <1>1
<1>3. PICK l \in Nat \ {0} :
        /\ l <= Len(a) /\ l <= Len(b) + 1 /\ (l > Len(b) \/ b[l] < a[l])
        /\ \A i \in 1..(l - 1) : b[i] = a[i]
  BY <1>1
<1>4. \A i \in 1..Len(a) : a[i] \in Nat
  OBVIOUS
<1>5. \A i \in 1..Len(b) : b[i] \in Nat
  OBVIOUS
<1>6. CASE k < l
  <2>1. k \in 1..Len(a) /\ k \in 1..Len(b) /\ k \in 1..(l - 1)
    BY <1>2, <1>3, <1>6
  <2> QED BY <1>2, <1>3, <1>4, <1>5, <2>1
<1>7. CASE l < k
  <2>1. l \in 1..Len(a) /\ l \in 1..Len(b) /\ l \in 1..(k - 1)
    BY <1>2, <1>3, <1>7
  <2> QED BY <1>2, <1>3, <1>4, <1>5, <2>1
<1>8. CASE k = l
  <2>1. k \in 1..Len(a) /\ k \in 1..Len(b)
    BY <1>2, <1>3, <1>8
  <2>2. a[k] < b[k] /\ b[k] < a[k]
    BY <1>2, <1>3, <1>8
  <2> QED BY <1>4, <1>5, <2>1, <2>2
<1> QED BY <1>6, <1>7, <1>8

-----------------------------------------------------------------------------
(* A string that is whole refers to defined segments up to its end.          *)
LEMMA WholeIs ==
  ASSUME mofile \in MoFiles, NEW s \in SysdepString, Whole(s)
  PROVE  \A k \in 1..Len(s) : /\ Piece(s[k]) \in Seq(Octet)
                              /\ Octets(s[k]) = Len(Piece(s[k]))
                              /\ k = Len(s) => Piece(s[k]) = s[k].static \o <<>>
<1> DEFINE Stops(p) == \/ p.ref = SEGMENTS_END \/ OutOfTable(p.ref)
                       \/ SegmentValue(p.ref) = NoText
           I == {k \in 1..Len(s) : Stops(s[k])}
           m == Min(I)
<1>1. /\ s \in Seq(Segment) /\ s # <<>> /\ s[Len(s)].static \in EndedText
      /\ \A k \in 1..Len(s) : s[k].ref = SEGMENTS_END <=> k = Len(s)
  BY DEF SysdepString
<1>2. Len(s) \in I
  BY <1>1
<1>3. m \in I /\ \A x \in I : m <= x
  <2>1. I \in SUBSET Nat /\ I # {}
    BY <1>2
  <2> HIDE DEF I
  <2> QED BY <2>1, MinIs
<1>4. s[m].ref = SEGMENTS_END
  <2>1. SelectInSeq(s, Stops) = IF I # {} THEN m ELSE 0
    BY DEF SelectInSeq
  <2>2. s[SelectInSeq(s, Stops)].ref = SEGMENTS_END
    BY DEF Whole, StopRef
  <2> HIDE DEF m, I, Stops
  <2> QED BY <1>2, <2>1, <2>2
<1> HIDE DEF m
<1>5. m = Len(s)
  BY <1>1, <1>3, <1>4
<1>6. \A k \in 1..Len(s) : k # Len(s) => ~ Stops(s[k])
  BY <1>3, <1>5
<1>7. ASSUME NEW k \in 1..Len(s), k # Len(s) PROVE SegmentValue(s[k].ref) \in Seq(Octet)
  <2>1. SegmentValue(s[k].ref) # NoText
    BY <1>6, <1>7
  <2>2. PICK name \in DOMAIN SegmentValues : SegmentValue(s[k].ref) = SegmentValues[name]
    BY <2>1 DEF SegmentValue
  <2>3. SegmentValues[name] \in Seq(Octet \ {0})
    BY CatalogConstants
  <2>4. \A t \in Seq(Octet \ {0}) : t \in Seq(Octet)
    OBVIOUS
  <2> QED BY <2>2, <2>3, <2>4
<1>8. ASSUME NEW k \in 1..Len(s)
      PROVE  /\ Piece(s[k]) \in Seq(Octet) /\ Octets(s[k]) = Len(Piece(s[k]))
             /\ k = Len(s) => Piece(s[k]) = s[k].static \o <<>>
  <2>1. s[k].static \in Seq(Octet) /\ Len(s[k].static) \in Nat
    <3>1. s[k] \in Segment
      BY <1>1
    <3>2. \A p \in Segment : p.static \in Seq(Octet)
      BY DEF Segment
    <3> QED BY <3>1, <3>2
  <2>2. CASE k = Len(s)
    <3>1. Piece(s[k]) = s[k].static \o <<>> /\ Octets(s[k]) = Len(s[k].static) + 0
      BY <1>1, <2>2 DEF Piece, Octets
    <3>2. s[k].static \o <<>> \in Seq(Octet) /\ Len(s[k].static \o <<>>) = Len(s[k].static) + 0
      BY <2>1
    <3> QED BY <3>1, <3>2
  <2>3. CASE k # Len(s)
    <3>1. /\ Piece(s[k]) = s[k].static \o SegmentValue(s[k].ref)
          /\ Octets(s[k]) = Len(s[k].static) + Len(SegmentValue(s[k].ref))
      BY <1>1, <2>3 DEF Piece, Octets
    <3>2. /\ s[k].static \o SegmentValue(s[k].ref) \in Seq(Octet)
          /\ Len(s[k].static \o SegmentValue(s[k].ref))
               = Len(s[k].static) + Len(SegmentValue(s[k].ref))
      BY <1>7, <2>1, <2>3
    <3> QED BY <2>3, <3>1, <3>2
  <2> QED BY <2>2, <2>3
<1> QED BY <1>8

TextsOf(string) ==
  CHOOSE f : f = [k \in 0..Len(string) |->
                    IF k = 0 THEN <<>> ELSE f[k - 1] \o Piece(string[k])]
NeedsOf(string) ==
  CHOOSE f : f = [k \in 0..Len(string) |-> IF k = 0 THEN 0 ELSE f[k - 1] + Octets(string[k])]

(* Its expansion is a text with an end; the first pass counts its octets as  *)
(* the second writes them.                                                   *)
LEMMA ExpandedIs ==
  ASSUME mofile \in MoFiles, NEW s \in SysdepString, Whole(s)
  PROVE  Expanded(s) \in EndedText /\ Need(s) = Copied(s) /\ Need(s) \in Nat
<1> DEFINE N == Len(s)
           T == TextsOf(s)
           D == NeedsOf(s)
           RecT(f) == [k \in 0..N |-> IF k = 0 THEN <<>> ELSE f[k - 1] \o Piece(s[k])]
           RecD(f) == [k \in 0..N |-> IF k = 0 THEN 0 ELSE f[k - 1] + Octets(s[k])]
           hT == [k \in 1..N |-> [t \in Seq(Octet) |-> t \o Piece(s[k])]]
           hD == [k \in 1..N |-> [n \in Nat |-> n + Octets(s[k])]]
<1>1. \A k \in 1..N : Piece(s[k]) \in Seq(Octet) /\ Octets(s[k]) = Len(Piece(s[k]))
                      /\ (k = N => Piece(s[k]) = s[k].static \o <<>>)
  BY WholeIs
<1>2. N \in Nat \ {0} /\ s[N].static \in EndedText
  BY DEF SysdepString
<1> HIDE DEF N
<1>3. T = RecT(T)
  <2>1. hT \in [1..N -> [Seq(Octet) -> Seq(Octet)]] /\ <<>> \in Seq(Octet)
    BY <1>1
  <2> HIDE DEF hT
  <2>2. PICK f : IsRecursion(f, N, Seq(Octet), <<>>, hT)
    BY <1>2, <2>1, RecursionExists
  <2>3. ASSUME NEW k \in 1..N PROVE f[k] = f[k - 1] \o Piece(s[k])
    <3>1. f[k - 1] \in Seq(Octet)
      BY <1>2, <2>2 DEF IsRecursion
    <3> QED BY <2>2, <3>1 DEF hT, IsRecursion
  <2>4. f = RecT(f)
    <3>1. f \in [0..N -> Seq(Octet)] /\ f[0] = <<>>
      BY <2>2 DEF IsRecursion
    <3>2. \A k \in 0..N : f[k] = IF k = 0 THEN <<>> ELSE f[k - 1] \o Piece(s[k])
      <4>1. ASSUME NEW k \in 0..N, k # 0 PROVE k \in 1..N
        BY <1>2, <4>1
      <4> QED BY <2>3, <3>1, <4>1, Zenon
    <3> QED BY <3>1, <3>2, Zenon
  <2>5. T = CHOOSE g : g = RecT(g)
    BY DEF TextsOf, N
  <2> HIDE DEF T, RecT
  <2> QED BY <2>4, <2>5
<1>4. D = RecD(D)
  <2>1. hD \in [1..N -> [Nat -> Nat]] /\ 0 \in Nat
    <3>1. \A k \in 1..N : Octets(s[k]) \in Nat
      BY <1>1
    <3> QED BY <3>1
  <2> HIDE DEF hD
  <2>2. PICK f : IsRecursion(f, N, Nat, 0, hD)
    BY <1>2, <2>1, RecursionExists
  <2>3. ASSUME NEW k \in 1..N PROVE f[k] = f[k - 1] + Octets(s[k])
    <3>1. f[k - 1] \in Nat
      BY <1>2, <2>2 DEF IsRecursion
    <3> QED BY <2>2, <3>1 DEF hD, IsRecursion
  <2>4. f = RecD(f)
    BY <2>2, <2>3 DEF IsRecursion
  <2>5. D = CHOOSE g : g = RecD(g)
    BY DEF NeedsOf, N
  <2> HIDE DEF D, RecD
  <2> QED BY <2>4, <2>5
<1>5. /\ Expanded(s) = T[N]
      /\ Need(s) = IF Alone(s) THEN 0 ELSE D[N]
  BY DEF Expanded, Need, TextsOf, NeedsOf, N
<1> HIDE DEF T, D
<1>6. /\ T[0] = <<>> /\ D[0] = 0
      /\ \A k \in 1..N : T[k] = T[k - 1] \o Piece(s[k]) /\ D[k] = D[k - 1] + Octets(s[k])
  <2>1. \A k \in 0..N : T[k] = IF k = 0 THEN <<>> ELSE T[k - 1] \o Piece(s[k])
    BY <1>3, Zenon
  <2>2. \A k \in 0..N : D[k] = IF k = 0 THEN 0 ELSE D[k - 1] + Octets(s[k])
    BY <1>4
  <2>3. ASSUME NEW k \in 1..N
        PROVE T[k] = T[k - 1] \o Piece(s[k]) /\ D[k] = D[k - 1] + Octets(s[k])
    <3>1. k \in 0..N /\ k # 0
      BY <1>2
    <3> QED BY <2>1, <2>2, <3>1, Zenon
  <2>4. 0 \in 0..N
    BY <1>2
  <2> QED BY <2>1, <2>2, <2>3, <2>4, Zenon
<1>7. \A k \in 0..N : T[k] \in Seq(Octet) /\ D[k] = Len(T[k])
  <2> DEFINE S == {k \in 0..N : T[k] \in Seq(Octet) /\ D[k] = Len(T[k])}
  <2>1. 0 \in S
    <3>1. T[0] = <<>> /\ D[0] = 0
      BY <1>6, Zenon
    <3>2. <<>> \in Seq(Octet) /\ Len(<<>>) = 0
      OBVIOUS
    <3>3. T[0] \in Seq(Octet) /\ D[0] = Len(T[0])
      BY <3>1, <3>2, Zenon
    <3>4. 0 \in 0..N
      BY <1>2
    <3> QED BY <3>3, <3>4, Zenon
  <2>2. ASSUME NEW k \in 0..(N - 1), k \in S PROVE k + 1 \in S
    <3>1. /\ k + 1 \in 1..N /\ T[k + 1] = T[k] \o Piece(s[k + 1])
          /\ D[k + 1] = D[k] + Octets(s[k + 1])
      <4>1. k + 1 \in 1..N /\ (k + 1) - 1 = k
        BY <1>2
      <4>2. /\ T[k + 1] = T[(k + 1) - 1] \o Piece(s[k + 1])
            /\ D[k + 1] = D[(k + 1) - 1] + Octets(s[k + 1])
        BY <1>6, <4>1, Zenon
      <4> QED BY <4>1, <4>2
    <3>2. /\ T[k] \in Seq(Octet) /\ Piece(s[k + 1]) \in Seq(Octet)
          /\ D[k] = Len(T[k]) /\ Octets(s[k + 1]) = Len(Piece(s[k + 1]))
      BY <1>1, <2>2, <3>1
    <3>3. T[k + 1] \in Seq(Octet) /\ D[k + 1] = Len(T[k + 1])
      BY <3>1, <3>2
    <3>4. k + 1 \in 0..N
      BY <1>2, <3>1
    <3> QED BY <3>3, <3>4, Zenon
  <2>3. \A k \in 0..(N - 1) : k \in S => k + 1 \in S
    BY <2>2
  <2> HIDE DEF S
  <2>4. 0 \in Nat /\ N \in Nat
    BY <1>2
  <2>5. \A k \in 0..N : k \in S
    BY <2>1, <2>3, <2>4, IntervalInduction, Zenon
  <2> QED BY <2>5 DEF S
<1>8. T[N] \in EndedText
  <2>1. N \in 1..N /\ N - 1 \in 0..N
    BY <1>2
  <2>2. T[N] = T[N - 1] \o (s[N].static \o <<>>) /\ T[N - 1] \in Seq(Octet)
    BY <1>1, <1>6, <1>7, <2>1
  <2> DEFINE a == T[N - 1]
             b == s[N].static
  <2>3. b \in Seq(Octet) /\ \E j \in 1..Len(b) : b[j] = 0
    BY <1>2 DEF EndedText
  <2> HIDE DEF a, b
  <2>4. PICK j \in 1..Len(b) : b[j] = 0
    BY <2>3
  <2>5. a \o (b \o <<>>) = a \o b /\ a \in Seq(Octet)
    BY <2>2, <2>3 DEF a, b
  <2>6. a \o b \in Seq(Octet) /\ Len(a) + j \in 1..Len(a \o b) /\ (a \o b)[Len(a) + j] = 0
    BY <2>3, <2>4, <2>5
  <2>7. T[N] = a \o b
    BY <2>2, <2>5 DEF a, b
  <2>8. a \o b \in EndedText
    <3>1. \E k \in DOMAIN (a \o b) : (a \o b)[k] = 0
      BY <2>6
    <3> QED BY <2>6, <3>1, Zenon DEF EndedText
  <2> QED BY <2>7, <2>8, Zenon
<1> QED BY <1>2, <1>5, <1>7, <1>8 DEF Copied

-----------------------------------------------------------------------------
(* What is open and allocated on the way into memory.                        *)
LeftInv ==
  /\ fd \in BOOLEAN
  /\ mostep = "open" => ~ fd
  /\ mostep \in {"open", "stat", "map"} => data = "none"
  /\ mostep \in {"open", "stat", "map", "read", "magic"} => domain = NoDomain
  /\ mostep \notin {"open", "stat", "map", "read", "failed"} => ~ fd
  /\ NothingStaysBehind

LEMMA LeftInvHolds == CatalogSpec => []LeftInv
<1> USE DEF LeftInv, NothingStaysBehind, fileVars, tableVars
<1>1. CatalogInit => LeftInv
  BY DEF CatalogInit
<1>2. ASSUME LeftInv, [CatalogNext]_catalogVars PROVE LeftInv'
  <2>1. CASE OpenFile
    BY <1>2, <2>1 DEF OpenFile
  <2>2. CASE Stat
    BY <1>2, <2>2 DEF Stat
  <2>3. CASE Map
    BY <1>2, <2>3 DEF Map
  <2>4. CASE Read
    BY <1>2, <2>4 DEF Read
  <2>5. CASE Magic
    BY <1>2, <2>5 DEF Magic
  <2>6. CASE Revision
    BY <1>2, <2>6 DEF Revision, Invalid
  <2>7. CASE Measure
    BY <1>2, <2>7 DEF Measure, Invalid
  <2>8. CASE Allocate
    BY <1>2, <2>8 DEF Allocate, Invalid
  <2>9. CASE Fill
    BY <1>2, <2>9 DEF Fill
  <2>10. CASE CopyHashTable
    BY <1>2, <2>10 DEF CopyHashTable
  <2>11. CASE Augment
    BY <1>2, <2>11 DEF Augment
  <2>12. CASE StartFind
    BY <1>2, <2>12 DEF StartFind
  <2>13. CASE HashProbe
    BY <1>2, <2>13 DEF HashProbe, Answer
  <2>14. CASE Bisect
    BY <1>2, <2>14 DEF Bisect, Answer
  <2>15. ASSUME NEW msgid \in Asked, AskFor(msgid) PROVE LeftInv'
    BY <1>2, <2>15 DEF AskFor, IsReady
  <2>16. CASE UNCHANGED catalogVars
    BY <1>2, <2>16 DEF catalogVars
  <2> QED BY <1>2, <2>1, <2>2, <2>3, <2>4, <2>5, <2>6, <2>7, <2>8, <2>9, <2>10, <2>11,
             <2>12, <2>13, <2>14, <2>15, <2>16 DEF CatalogNext, LoadStep, FindStep
<1> QED BY <1>1, <1>2, PTL DEF CatalogSpec

(* If no system call failed, then a file that cannot be used has left no     *)
(* open descriptor, no memory and no half of a domain, whatever is wrong     *)
(* with it and wherever that is noticed.                                     *)
THEOREM FailedLoadsLeaveNothing == CatalogSpec => []NothingStaysBehind
<1>1. LeftInv => NothingStaysBehind
  BY DEF LeftInv
<1> QED BY <1>1, LeftInvHolds, PTL

-----------------------------------------------------------------------------
(* The pairs of system dependent strings that count, and what they need.     *)
ValidAt(k) == Whole(mofile.sysdep[k][1]) /\ Whole(mofile.sysdep[k][2])
Expansion(k) == <<Expanded(mofile.sysdep[k][1]), Expanded(mofile.sysdep[k][2])>>
Cost(k) ==
  IF ValidAt(k) THEN Need(mofile.sysdep[k][1]) + Need(mofile.sysdep[k][2]) + 2 * DescSize
  ELSE 0
Sums[k \in 0..Len(mofile.sysdep)] ==
  IF k = 0 THEN mofile.hash_size ELSE Sums[k - 1] + Cost(k)

(* The originals of the file and those in memory, in the order in which the  *)
(* hash table numbers them; and the numbers in the table.                    *)
AllTexts(originals, inmem) ==
  [n \in 1..(Len(originals) + Len(inmem)) |->
     IF n <= Len(originals) THEN CText(originals[n])
     ELSE CText(inmem[n - Len(originals)][1])]
Texts == AllTexts(mofile.orig, domain.inmem)
Numbers == [idx \in 0..(mofile.hash_size - 1) |-> domain.hash_tab[idx].n]

HashTabs == [0..(mofile.hash_size - 1) -> [n : Nat, swapped : BOOLEAN]]
DomainOK ==
  /\ domain \in [ must_swap : BOOLEAN, must_swap_hash_tab : BOOLEAN,
                  hash_tab : HashTabs \cup {<< >>}, inmem : Seq(EndedText \X Seq(Octet)) ]
  /\ IF mofile.hash_size > 2
       THEN /\ domain.hash_tab \in HashTabs
            /\ \A idx \in 0..(mofile.hash_size - 1) :
                 domain.hash_tab[idx].swapped = domain.must_swap_hash_tab
       ELSE domain.hash_tab = << >>

TableInv(count) ==
  mofile.hash_size > 2 => IsTable(Numbers, mofile.hash_size, Texts, count)

(* In memory are the expansions of the valid pairs among the first ones.     *)
InMemory(last) ==
  /\ mofile.minor = 0 => domain.inmem = <<>>
  /\ mofile.minor # 0 =>
       \A k \in 1..last : ValidAt(k) => \E i \in 1..Len(domain.inmem) :
                                          domain.inmem[i] = Expansion(k)
  /\ \A i \in 1..Len(domain.inmem) : \E k \in 1..last :
       ValidAt(k) /\ domain.inmem[i] = Expansion(k)
  /\ Len(domain.inmem) <= last

(* A probing for a text has met no empty place.                              *)
ProbingFor(text, j) ==
  /\ probe = [ msgid |-> text, idx |-> ProbeOf(mofile.hash_size, text, j),
               incr |-> Increment(HashOn(HashWord, text), mofile.hash_size) ]
  /\ \A i \in 0..(j - 1) : Numbers[ProbeOf(mofile.hash_size, text, i)] # 0

LoadedSteps == {"revision", "measure", "fill", "augment", "find", "hash", "bisect", "ready"}
FindSteps   == {"find", "hash", "bisect", "ready"}

FileInv ==
  /\ mofile \in MoFiles
  /\ mostep \in LoadedSteps \cup {"open", "stat", "map", "read", "magic", "failed"}
  /\ mostep \in LoadedSteps => DomainOK
  /\ mostep \in {"revision", "measure", "fill"} => TableInv(NStrings)
  /\ mostep \in {"revision", "measure"} => InMemory(0)
  /\ mostep \in {"measure", "fill", "augment"} => mofile.hash_size > 2 /\ mofile.minor # 0
PassInv ==
  /\ mostep \in {"measure", "fill"} => at \in 1..(Len(mofile.sysdep) + 1)
  /\ mostep = "measure" => memneed = Sums[at - 1]
  /\ mostep = "fill" => /\ mem = Sums[at - 1] /\ memneed = Sums[Len(mofile.sysdep)]
                        /\ InMemory(at - 1)
AugmentInv ==
  mostep = "augment" =>
    /\ ~ domain.must_swap_hash_tab /\ mem = memneed
    /\ at \in 0..Len(domain.inmem)
    /\ TableInv(NStrings + at) /\ InMemory(Len(mofile.sysdep))
    /\ probe.msgid # NoText =>
         /\ at < Len(domain.inmem)
         /\ \E j \in Nat : ProbingFor(CText(domain.inmem[at + 1][1]), j)
FindInv ==
  /\ mostep \in FindSteps =>
       /\ TableInv(NStrings + Len(domain.inmem)) /\ InMemory(Len(mofile.sysdep))
       /\ mofile.hash_size <= 2 => mofile.minor = 0
       /\ probe.msgid \in Seq(Nat)
  /\ mostep = "hash" =>
       /\ mofile.hash_size > 2
       /\ \E j \in Nat :
            /\ ProbingFor(probe.msgid, j)
            /\ \A i \in 0..(j - 1) :
                 Texts[Numbers[ProbeOf(mofile.hash_size, probe.msgid, i)]] # probe.msgid
  /\ mostep = "bisect" =>
       /\ mofile.hash_size <= 2
       /\ probe = [msgid |-> probe.msgid, bottom |-> probe.bottom, top |-> probe.top]
       /\ probe.bottom \in Nat /\ probe.top \in 0..NStrings
       /\ \A k \in 1..NStrings : CText(mofile.orig[k]) = probe.msgid
                                   => probe.bottom < k /\ k <= probe.top
  /\ LookupIsExact
CatalogInv == FileInv /\ PassInv /\ AugmentInv /\ FindInv

LEMMA MoFileIs ==
  ASSUME mofile \in MoFiles
  PROVE  /\ mofile \in MoFile /\ WellFormed(mofile)
         /\ mofile.hash_size \in Nat /\ mofile.minor \in Nat
         /\ mofile.orig \in Seq(EndedText) /\ Len(mofile.orig) \in Nat
         /\ mofile.trans \in Seq(Seq(Octet)) /\ Len(mofile.trans) = Len(mofile.orig)
         /\ mofile.sysdep \in Seq(SysdepString \X SysdepString) /\ Len(mofile.sysdep) \in Nat
         /\ \A k \in 1..Len(mofile.sysdep) :
              mofile.sysdep[k][1] \in SysdepString /\ mofile.sysdep[k][2] \in SysdepString
         /\ mofile.hash_size > 2 =>
              /\ IsPrime(mofile.hash_size) /\ Len(mofile.orig) < mofile.hash_size
              /\ Len(mofile.orig) + Len(mofile.sysdep) < mofile.hash_size
<1>1. mofile \in MoFile /\ WellFormed(mofile)
  BY CatalogConstants
<1>2. /\ mofile.hash_size \in Nat /\ mofile.minor \in Nat
      /\ mofile.orig \in Seq(EndedText) /\ mofile.trans \in Seq(Seq(Octet))
      /\ mofile.sysdep \in Seq(SysdepString \X SysdepString)
  BY <1>1 DEF MoFile
<1>3. ASSUME NEW k \in 1..Len(mofile.sysdep)
      PROVE  mofile.sysdep[k][1] \in SysdepString /\ mofile.sysdep[k][2] \in SysdepString
  <2>1. mofile.sysdep[k] \in SysdepString \X SysdepString
    BY <1>2
  <2> QED BY <2>1
<1>4. Len(mofile.trans) = Len(mofile.orig)
  BY <1>1 DEF WellFormed
<1>5. Len(mofile.orig) \in Nat /\ Len(mofile.sysdep) \in Nat
  BY <1>2
<1>6. ASSUME mofile.hash_size > 2
      PROVE  /\ IsPrime(mofile.hash_size) /\ Len(mofile.orig) < mofile.hash_size
             /\ Len(mofile.orig) + Len(mofile.sysdep) < mofile.hash_size
  <2>1. IsPrime(mofile.hash_size) /\ mofile.hash_size > Len(mofile.orig) + Len(mofile.sysdep)
    BY <1>1, <1>6 DEF WellFormed
  <2>2. \A a, b, c \in Nat : a > b + c => b < a /\ b + c < a
    OBVIOUS
  <2> QED BY <1>2, <1>5, <2>1, <2>2
<1> QED BY <1>1, <1>2, <1>3, <1>4, <1>5, <1>6

LEMMA SumsAre ==
  ASSUME mofile \in MoFiles
  PROVE  /\ Sums[0] = mofile.hash_size
         /\ \A k \in 1..Len(mofile.sysdep) : Sums[k] = Sums[k - 1] + Cost(k) /\ Cost(k) \in Nat
         /\ \A k \in 0..Len(mofile.sysdep) : Sums[k] \in Nat
<1> DEFINE N == Len(mofile.sysdep)
           Rec(f) == [k \in 0..N |-> IF k = 0 THEN mofile.hash_size ELSE f[k - 1] + Cost(k)]
           h == [k \in 1..N |-> [n \in Nat |-> n + Cost(k)]]
<1>1. N \in Nat /\ mofile.hash_size \in Nat
  BY MoFileIs
<1>2. \A k \in 1..N : Cost(k) \in Nat
  <2>1. ASSUME NEW k \in 1..N, ValidAt(k) PROVE Cost(k) \in Nat
    <3>1. Need(mofile.sysdep[k][1]) \in Nat /\ Need(mofile.sysdep[k][2]) \in Nat
      BY <2>1, MoFileIs, ExpandedIs DEF ValidAt
    <3>2. DescSize \in Nat
      BY CatalogConstants
    <3> QED BY <2>1, <3>1, <3>2 DEF Cost
  <2> QED BY <2>1 DEF Cost
<1> HIDE DEF N
<1>3. Sums = Rec(Sums)
  <2>1. h \in [1..N -> [Nat -> Nat]]
    BY <1>2
  <2> HIDE DEF h
  <2>2. PICK f : IsRecursion(f, N, Nat, mofile.hash_size, h)
    BY <1>1, <2>1, RecursionExists
  <2>3. ASSUME NEW k \in 1..N PROVE f[k] = f[k - 1] + Cost(k)
    <3>1. f[k - 1] \in Nat
      BY <1>1, <2>2 DEF IsRecursion
    <3> QED BY <2>2, <3>1 DEF h, IsRecursion
  <2>4. f = Rec(f)
    BY <2>2, <2>3 DEF IsRecursion
  <2>5. Sums = CHOOSE f_1 : f_1 = Rec(f_1)
    BY DEF Sums, N
  <2> HIDE DEF Rec
  <2> QED BY <2>4, <2>5
<1>4. /\ Sums[0] = mofile.hash_size
      /\ \A k \in 1..N : Sums[k] = Sums[k - 1] + Cost(k)
  <2>1. \A k \in 0..N : Sums[k] = IF k = 0 THEN mofile.hash_size ELSE Sums[k - 1] + Cost(k)
    BY <1>3, Zenon
  <2> QED BY <1>1, <2>1
<1>5. \A k \in 0..N : Sums[k] \in Nat
  <2> DEFINE S == {k \in 0..N : Sums[k] \in Nat}
  <2>1. 0 \in S
    BY <1>1, <1>4
  <2>2. \A k \in 0..(N - 1) : k \in S => k + 1 \in S
    BY <1>1, <1>2, <1>4
  <2> HIDE DEF S
  <2>3. \A k \in 0..N : k \in S
    BY <1>1, <2>1, <2>2, IntervalInduction, Zenon
  <2> QED BY <2>3 DEF S
<1> QED BY <1>2, <1>4, <1>5 DEF N

(* The sums grow, and with every valid pair by something.                    *)
LEMMA SumsGrow ==
  ASSUME mofile \in MoFiles, NEW k \in 0..Len(mofile.sysdep)
  PROVE  /\ Sums[k] <= Sums[Len(mofile.sysdep)]
         /\ ValidAt(k) /\ k # 0 => Sums[Len(mofile.sysdep)] > mofile.hash_size
<1> DEFINE N == Len(mofile.sysdep)
<1>0. N \in Nat /\ mofile.hash_size \in Nat
  BY MoFileIs
<1>1. /\ Sums[0] = mofile.hash_size
      /\ \A i \in 1..N : Sums[i] = Sums[i - 1] + Cost(i) /\ Cost(i) \in Nat
      /\ \A i \in 0..N : Sums[i] \in Nat
  BY SumsAre
<1> HIDE DEF N
<1>2. ASSUME NEW a \in 0..N PROVE \A i \in a..N : Sums[a] <= Sums[i]
  <2> DEFINE S == {i \in a..N : Sums[a] <= Sums[i]}
  <2>1. a \in S
    BY <1>0, <1>1
  <2>2. ASSUME NEW i \in a..(N - 1), i \in S PROVE i + 1 \in S
    <3>1. i + 1 \in 1..N /\ i \in 0..N /\ (i + 1) - 1 = i /\ i + 1 \in a..N /\ i + 1 \in 0..N
      BY <1>0
    <3>2. Sums[i + 1] = Sums[i] + Cost(i + 1) /\ Cost(i + 1) \in Nat
      BY <1>1, <3>1
    <3>3. Sums[a] \in Nat /\ Sums[i] \in Nat /\ Sums[a] <= Sums[i]
      BY <1>1, <2>2, <3>1
    <3> QED BY <3>1, <3>2, <3>3
  <2>3. \A i \in a..(N - 1) : i \in S => i + 1 \in S
    BY <2>2
  <2>4. a \in Nat
    OBVIOUS
  <2> HIDE DEF S
  <2>5. \A i \in a..N : i \in S
    BY <1>0, <2>1, <2>3, <2>4, IntervalInduction, Zenon
  <2> QED BY <2>5 DEF S
<1>3. k \in 0..N /\ N \in k..N
  BY <1>0 DEF N
<1>4. Sums[k] <= Sums[N]
  BY <1>2, <1>3
<1>5. ASSUME ValidAt(k), k # 0 PROVE Sums[N] > mofile.hash_size
  <2>1. k \in 1..N /\ k - 1 \in 0..N /\ 0 \in 0..N /\ k - 1 \in 0..N
    BY <1>0, <1>3, <1>5
  <2>2. Sums[k - 1] >= mofile.hash_size
    BY <1>1, <1>2, <2>1
  <2>3. Cost(k) > 0
    <3>1. Need(mofile.sysdep[k][1]) \in Nat /\ Need(mofile.sysdep[k][2]) \in Nat
      BY <1>5, <2>1, MoFileIs, ExpandedIs DEF ValidAt, N
    <3>2. DescSize \in Nat \ {0}
      BY CatalogConstants
    <3> QED BY <1>5, <3>1, <3>2 DEF Cost
  <2>4. Sums[k] = Sums[k - 1] + Cost(k) /\ Cost(k) \in Nat /\ Sums[k - 1] \in Nat
        /\ Sums[k] \in Nat /\ Sums[N] \in Nat
    BY <1>0, <1>1, <1>3, <2>1
  <2> QED BY <1>0, <1>4, <2>2, <2>3, <2>4
<1> QED BY <1>4, <1>5 DEF N

(* Nothing of this changes while the file does not.                          *)
LEMMA SameFile ==
  ASSUME mofile' = mofile
  PROVE  /\ Sums' = Sums /\ Messages' = Messages /\ NStrings' = NStrings
         /\ \A k : (ValidAt(k)' <=> ValidAt(k)) /\ Expansion(k)' = Expansion(k)
                   /\ Cost(k)' = Cost(k)
<1>1. \A s : (Whole(s)' <=> Whole(s)) /\ Expanded(s)' = Expanded(s) /\ Need(s)' = Need(s)
  <2>1. \A s : Whole(s)' <=> Whole(s)
    BY DEF Whole, StopRef, OutOfTable, SegmentValue, SelectInSeq
  <2>2. \A s : Expanded(s)' = Expanded(s)
    BY DEF Expanded, Piece, SegmentValue
  <2>3. \A s : Need(s)' = Need(s)
    BY DEF Need, Octets, SegmentValue, Alone
  <2> QED BY <2>1, <2>2, <2>3
<1>2. \A k : (ValidAt(k)' <=> ValidAt(k)) /\ Expansion(k)' = Expansion(k) /\ Cost(k)' = Cost(k)
  BY <1>1 DEF ValidAt, Expansion, Cost
<1>3. Sums' = Sums
  BY <1>2 DEF Sums
<1>4. Messages' = Messages
  BY <1>1 DEF Messages
<1>5. NStrings' = NStrings
  BY DEF NStrings
<1> QED BY <1>2, <1>3, <1>4, <1>5

LEMMA SameDomain ==
  ASSUME mofile' = mofile, domain' = domain
  PROVE  /\ (DomainOK' <=> DomainOK) /\ Numbers' = Numbers /\ Texts' = Texts
         /\ \A count : TableInv(count)' <=> TableInv(count)
         /\ \A last : InMemory(last)' <=> InMemory(last)
<1>1. (DomainOK' <=> DomainOK) /\ Numbers' = Numbers /\ Texts' = Texts
  BY DEF DomainOK, Numbers, Texts, HashTabs
<1>2. \A count : TableInv(count)' <=> TableInv(count)
  BY <1>1 DEF TableInv
<1>3. \A last : InMemory(last)' <=> InMemory(last)
  <2>1. \A k : (ValidAt(k)' <=> ValidAt(k)) /\ Expansion(k)' = Expansion(k)
    BY SameFile
  <2> QED BY <2>1 DEF InMemory
<1> QED BY <1>1, <1>2, <1>3

(* A table depends on the texts that it holds alone.                         *)
LEMMA TableOfFirst ==
  ASSUME NEW f, NEW size, NEW s, NEW t, NEW count \in Nat, IsTable(f, size, s, count),
         \A n \in 1..count : t[n] = s[n]
  PROVE  IsTable(f, size, t, count)
BY DEF IsTable

(* The texts that the table numbers are the messages.                        *)
LEMMA TextsAreMessages ==
  ASSUME mofile \in MoFiles, DomainOK, InMemory(Len(mofile.sysdep))
  PROVE  LET count == NStrings + Len(domain.inmem)
         IN  /\ count \in Nat
             /\ \A n \in 1..count : /\ Texts[n] \in Seq(Nat)
                                    /\ <<Texts[n], Translation(n - 1)>> \in Messages
                                    /\ IsMessage(n - 1) => Texts[n] = probe.msgid
                                    /\ Texts[n] = probe.msgid => IsMessage(n - 1)
             /\ \A m \in Messages : \E n \in 1..count : Texts[n] = m[1]
<1> DEFINE N == Len(mofile.orig)
           M == Len(domain.inmem)
           count == N + M
<1>0. /\ mofile.orig \in Seq(EndedText) /\ N \in Nat /\ M \in Nat /\ NStrings = N
      /\ domain.inmem \in Seq(EndedText \X Seq(Octet)) /\ Len(mofile.trans) = N
  BY MoFileIs DEF DomainOK, NStrings
<1>1. \A n \in 1..count : Texts[n] = IF n <= N THEN CText(mofile.orig[n])
                                     ELSE CText(domain.inmem[n - N][1])
  BY DEF Texts, AllTexts
<1>2. \A k \in 1..M : domain.inmem[k][1] \in EndedText
  <2>1. ASSUME NEW k \in 1..M PROVE domain.inmem[k][1] \in EndedText
    <3>1. domain.inmem[k] \in EndedText \X Seq(Octet)
      BY <1>0
    <3> QED BY <3>1
  <2> QED BY <2>1
<1>3. \A t \in EndedText : CText(t) \in Seq(Nat) /\ Len(CText(t)) < Len(t) /\ Len(t) \in Nat
  BY CTextIs DEF EndedText
<1> HIDE DEF N, M
<1>4. ASSUME NEW n \in 1..count, n <= N
      PROVE  /\ Texts[n] \in Seq(Nat) /\ <<Texts[n], Translation(n - 1)>> \in Messages
             /\ IsMessage(n - 1) <=> Texts[n] = probe.msgid
  <2>1. n \in 1..N /\ Texts[n] = CText(mofile.orig[n]) /\ mofile.orig[n] \in EndedText
    BY <1>0, <1>1, <1>4 DEF N
  <2>2. n - 1 < N /\ (n - 1) + 1 = n /\ ~ (n - 1 >= N)
    BY <1>0, <2>1
  <2>3. Translation(n - 1) = mofile.trans[n]
    BY <1>0, <2>2 DEF Translation
  <2>4. <<Texts[n], Translation(n - 1)>> \in Messages
    BY <2>1, <2>3 DEF Messages, N
  <2>5. /\ Len(CText(mofile.orig[n])) \in Nat /\ Len(mofile.orig[n]) \in Nat
        /\ Len(CText(mofile.orig[n])) < Len(mofile.orig[n])
    BY <1>3, <2>1
  <2>6. IsMessage(n - 1) <=> /\ Len(mofile.orig[n]) - 1 >= Len(probe.msgid)
                             /\ CText(mofile.orig[n]) = probe.msgid
    BY <1>0, <2>2 DEF IsMessage
  <2>7. IsMessage(n - 1) <=> Texts[n] = probe.msgid
    BY <2>1, <2>5, <2>6
  <2> QED BY <1>3, <2>1, <2>4, <2>7
<1>5. ASSUME NEW n \in 1..count, n > N
      PROVE  /\ Texts[n] \in Seq(Nat) /\ <<Texts[n], Translation(n - 1)>> \in Messages
             /\ IsMessage(n - 1) <=> Texts[n] = probe.msgid
  <2> DEFINE i == n - N
             original == domain.inmem[i][1]
  <2>1. i \in 1..M /\ Texts[n] = CText(original) /\ original \in EndedText
    BY <1>0, <1>1, <1>2, <1>5
  <2>2. n - 1 >= N /\ ~ (n - 1 < N) /\ (n - 1) - N + 1 = i /\ (n - 1) - N < M
    BY <1>0, <1>5, <2>1
  <2>3. Translation(n - 1) = domain.inmem[i][2]
    BY <1>0, <2>2 DEF Translation
  <2> HIDE DEF i
  <2>4. PICK k \in 1..Len(mofile.sysdep) : ValidAt(k) /\ domain.inmem[i] = Expansion(k)
    BY <2>1 DEF InMemory, M
  <2>5. mofile.minor # 0
    BY <1>0, <2>1 DEF InMemory, M
  <2>6. <<Texts[n], Translation(n - 1)>> \in Messages
    <3>1. mofile.sysdep[k] \in Range(mofile.sysdep)
      BY <2>4 DEF Range
    <3>2. /\ Texts[n] = CText(Expanded(mofile.sysdep[k][1]))
          /\ Translation(n - 1) = Expanded(mofile.sysdep[k][2])
      BY <2>1, <2>3, <2>4 DEF Expansion
    <3> QED BY <2>4, <2>5, <3>1, <3>2 DEF Messages, ValidAt
  <2>7. /\ Len(CText(original)) \in Nat /\ Len(original) \in Nat
        /\ Len(CText(original)) < Len(original) /\ CText(original) \in Seq(Nat)
    BY <1>3, <2>1
  <2>8. IsMessage(n - 1) <=> Len(original) > Len(probe.msgid) /\ CText(original) = probe.msgid
    BY <1>0, <2>2 DEF IsMessage, M
  <2>9. IsMessage(n - 1) <=> Texts[n] = probe.msgid
    BY <2>1, <2>7, <2>8
  <2> QED BY <2>1, <2>6, <2>7, <2>9
<1>6. ASSUME NEW m \in Messages PROVE \E n \in 1..count : Texts[n] = m[1]
  <2>1. CASE \E k \in DOMAIN mofile.orig : m = <<CText(mofile.orig[k]), mofile.trans[k]>>
    <3>1. PICK k \in 1..N : m = <<CText(mofile.orig[k]), mofile.trans[k]>>
      BY <1>0, <2>1 DEF N
    <3>2. k \in 1..count /\ k <= N
      BY <1>0
    <3>3. Texts[k] = m[1]
      BY <1>1, <3>1, <3>2
    <3> QED BY <3>2, <3>3
  <2>2. CASE /\ mofile.minor # 0
             /\ \E p \in Range(mofile.sysdep) :
                  /\ Whole(p[1]) /\ Whole(p[2])
                  /\ m = <<CText(Expanded(p[1])), Expanded(p[2])>>
    <3>1. PICK k \in 1..Len(mofile.sysdep) :
            ValidAt(k) /\ m[1] = CText(Expanded(mofile.sysdep[k][1]))
      <4>1. PICK p \in Range(mofile.sysdep) :
              Whole(p[1]) /\ Whole(p[2]) /\ m = <<CText(Expanded(p[1])), Expanded(p[2])>>
        BY <2>2
      <4>2. PICK k \in DOMAIN mofile.sysdep : p = mofile.sysdep[k]
        BY DEF Range
      <4>3. DOMAIN mofile.sysdep = 1..Len(mofile.sysdep)
        BY MoFileIs
      <4>4. k \in 1..Len(mofile.sysdep)
        BY <4>2, <4>3
      <4> QED BY <4>1, <4>2, <4>4 DEF ValidAt
    <3>2. PICK i \in 1..M : domain.inmem[i] = Expansion(k)
      BY <2>2, <3>1 DEF InMemory, M
    <3>3. N + i \in 1..count /\ ~ (N + i <= N) /\ (N + i) - N = i
      BY <1>0
    <3>4. Texts[N + i] = CText(domain.inmem[i][1])
      BY <1>1, <3>3
    <3>5. Texts[N + i] = m[1]
      BY <3>1, <3>2, <3>4 DEF Expansion
    <3> QED BY <3>3, <3>5
  <2> QED BY <2>1, <2>2 DEF Messages
<1>7. count \in Nat /\ \A n \in 1..count : n \in Nat /\ (n <= N \/ n > N)
  BY <1>0
<1> QED BY <1>0, <1>4, <1>5, <1>6, <1>7 DEF N, M

LEMMA CatalogInvInit == CatalogInit => CatalogInv
BY DEF CatalogInit, CatalogInv, FileInv, PassInv, AugmentInv, FindInv, LoadedSteps, FindSteps,
       LookupIsExact, IsReady

(* Before a file is loaded, and after it could not be.                       *)
LEMMA UnloadedStep ==
  ASSUME CatalogInv, mofile' = mofile,
         mostep' \in {"open", "stat", "map", "read", "magic", "failed"}
  PROVE  CatalogInv'
BY DEF CatalogInv, FileInv, PassInv, AugmentInv, FindInv, LoadedSteps, FindSteps,
       LookupIsExact, IsReady

LEMMA MagicStep ==
  ASSUME CatalogInv, Magic PROVE CatalogInv'
<1>1. CASE mostep' = "failed"
  BY <1>1, UnloadedStep DEF Magic
<1>2. CASE mostep' # "failed"
  <2> DEFINE swapped == mofile.magic = "swapped"
             size == mofile.hash_size
             tab == HashTable(size, mofile.orig)
             words == [idx \in 0..(size - 1) |-> Word(tab[idx], swapped)]
  <2>1. /\ mofile' = mofile /\ mostep' = "revision"
        /\ domain' = [ must_swap |-> swapped, must_swap_hash_tab |-> swapped,
                       hash_tab |-> IF size > 2 THEN words ELSE << >>, inmem |-> <<>> ]
    BY <1>2 DEF Magic
  <2>2. /\ mofile \in MoFiles /\ size \in Nat
        /\ NStrings = Len(mofile.orig) /\ NStrings' = NStrings
    BY <2>1, MoFileIs DEF CatalogInv, FileInv, NStrings
  <2>3. InMemory(0)'
    BY <2>1 DEF InMemory
  <2>4. CASE size > 2
    <3> DEFINE T == AllTexts(mofile.orig, <<>>)
    <3>1. IsTable(tab, size, T, NStrings)
      <4>1. /\ IsPrime(size) /\ mofile.orig \in Seq(EndedText) /\ Len(mofile.orig) < size
            /\ Len(mofile.orig) \in Nat
        BY <2>2, <2>4, MoFileIs
      <4>2. IsTable(tab, size, CTexts(mofile.orig), NStrings)
        BY <2>2, <2>4, <4>1, HashTableIsTable
      <4>3. \A n \in 1..NStrings : T[n] = CTexts(mofile.orig)[n]
        BY <2>2, <4>1 DEF AllTexts, CTexts
      <4> QED BY <2>2, <4>1, <4>2, <4>3, TableOfFirst
    <3>2. tab \in [0..(size - 1) -> Nat]
      <4>1. tab \in [0..(size - 1) -> 0..NStrings]
        BY <3>1 DEF IsTable
      <4> QED BY <2>2, <4>1
    <3> HIDE DEF tab
    <3>3. /\ words \in [0..(size - 1) -> [n : Nat, swapped : BOOLEAN]]
          /\ \A idx \in 0..(size - 1) : words[idx].n = tab[idx] /\ words[idx].swapped = swapped
      BY <3>2 DEF Word
    <3>4. domain'.hash_tab = words /\ domain'.inmem = <<>>
      BY <2>1, <2>4
    <3>5. Numbers' = tab /\ Texts' = T
      <4>1. Numbers' = [idx \in 0..(size - 1) |-> words[idx].n]
        BY <2>1, <3>4 DEF Numbers
      <4>2. Numbers' = [idx \in 0..(size - 1) |-> tab[idx]]
        BY <3>3, <4>1
      <4>3. Texts' = T
        BY <2>1, <3>4 DEF Texts
      <4> QED BY <3>2, <4>2, <4>3
    <3>6. DomainOK'
      <4> HIDE DEF words
      <4>1. domain' = [ must_swap |-> swapped, must_swap_hash_tab |-> swapped,
                        hash_tab |-> words, inmem |-> <<>> ]
        BY <2>1, <2>4
      <4>2. <<>> \in Seq(EndedText \X Seq(Octet)) /\ swapped \in BOOLEAN
        OBVIOUS
      <4> QED BY <2>1, <2>4, <3>3, <4>1, <4>2 DEF DomainOK, HashTabs
    <3>7. TableInv(NStrings)'
      BY <2>1, <2>2, <3>1, <3>5 DEF TableInv
    <3> QED BY <2>1, <2>2, <2>3, <3>6, <3>7
            DEF CatalogInv, FileInv, PassInv, AugmentInv, FindInv, LoadedSteps, FindSteps,
                LookupIsExact, IsReady
  <2>5. CASE ~ (size > 2)
    <3>1. domain' = [ must_swap |-> swapped, must_swap_hash_tab |-> swapped,
                      hash_tab |-> << >>, inmem |-> <<>> ]
      BY <2>1, <2>5
    <3>2. DomainOK'
      <4>2. <<>> \in Seq(EndedText \X Seq(Octet)) /\ swapped \in BOOLEAN
        OBVIOUS
      <4> QED BY <2>1, <2>5, <3>1, <4>2 DEF DomainOK
    <3>3. TableInv(NStrings)'
      BY <2>1, <2>5 DEF TableInv
    <3> QED BY <2>1, <2>2, <2>3, <3>2, <3>3
            DEF CatalogInv, FileInv, PassInv, AugmentInv, FindInv, LoadedSteps, FindSteps,
                LookupIsExact, IsReady
  <2> QED BY <2>4, <2>5
<1> QED BY <1>1, <1>2

(* With no string in memory, there is none that should be.                   *)
LEMMA NothingInMemory ==
  ASSUME mofile \in MoFiles, DomainOK, InMemory(0),
         mofile.minor = 0 \/ \A k \in 1..Len(mofile.sysdep) : ~ ValidAt(k)
  PROVE  /\ InMemory(Len(mofile.sysdep)) /\ Len(domain.inmem) = 0
<1>1. Len(domain.inmem) \in Nat /\ Len(mofile.sysdep) \in Nat
  BY MoFileIs DEF DomainOK
<1>2. Len(domain.inmem) = 0
  BY <1>1 DEF InMemory
<1> QED BY <1>1, <1>2 DEF InMemory

LEMMA RevisionStep ==
  ASSUME CatalogInv, Revision PROVE CatalogInv'
<1>1. CASE mostep' = "failed"
  BY <1>1, UnloadedStep DEF Revision, Invalid, fileVars, tableVars
<1>2. CASE mostep' # "failed"
  <2>0. /\ mostep = "revision" /\ mofile' = mofile /\ domain' = domain /\ ~ NeedsHashTable
        /\ \/ Segmented /\ mostep' = "measure" /\ at' = 1 /\ memneed' = mofile.hash_size
           \/ ~ Segmented /\ mostep' = "find" /\ probe' = [msgid |-> <<>>]
    BY <1>2 DEF Revision, Invalid, fileVars, tableVars
  <2>1. /\ mofile \in MoFiles /\ DomainOK /\ TableInv(NStrings) /\ InMemory(0)
    BY <2>0 DEF CatalogInv, FileInv, LoadedSteps
  <2>2. /\ DomainOK' /\ TableInv(NStrings)' /\ NStrings' = NStrings
        /\ InMemory(0)' /\ Sums' = Sums /\ domain' = domain
        /\ (InMemory(Len(mofile.sysdep)) => InMemory(Len(mofile.sysdep))')
    BY <2>0, <2>1, SameFile, SameDomain DEF TableInv
  <2>3. mofile.minor \in Nat /\ mofile.hash_size \in Nat /\ Len(mofile.sysdep) \in Nat
    BY <2>1, MoFileIs
  <2>4. CASE mostep' = "measure"
    <3>1. mofile.hash_size > 2 /\ mofile.minor # 0 /\ at' = 1 /\ memneed' = mofile.hash_size
      BY <2>0, <2>3, <2>4 DEF NeedsHashTable, Segmented
    <3>2. memneed' = Sums[at' - 1] /\ at' \in 1..(Len(mofile.sysdep) + 1)
      BY <2>1, <2>3, <3>1, SumsAre
    <3> QED BY <2>0, <2>1, <2>2, <2>4, <3>1, <3>2
            DEF CatalogInv, FileInv, PassInv, AugmentInv, FindInv, LoadedSteps, FindSteps,
                LookupIsExact, IsReady
  <2>5. CASE mostep' = "find"
    <3>0. ~ Segmented /\ probe' = [msgid |-> <<>>]
      BY <2>0, <2>5
    <3>1. mofile.minor = 0 \/ \A k \in 1..Len(mofile.sysdep) : ~ ValidAt(k)
      <4>1. mofile.minor = 0 \/ mofile.sysdep = <<>>
        BY <2>3, <3>0 DEF Segmented
      <4>2. mofile.sysdep = <<>> => Len(mofile.sysdep) = 0
        OBVIOUS
      <4> QED BY <4>1, <4>2
    <3>2. InMemory(Len(mofile.sysdep)) /\ Len(domain.inmem) = 0
      BY <2>1, <3>1, NothingInMemory
    <3>3. TableInv(NStrings + Len(domain.inmem))'
      <4>1. NStrings + Len(domain.inmem) = NStrings
        BY <2>1, <3>2, MoFileIs DEF NStrings
      <4>2. (NStrings + Len(domain.inmem))' = NStrings'
        BY <4>1, <2>2
      <4> QED BY <2>2, <4>2 DEF TableInv
    <3>4. mofile.hash_size <= 2 => mofile.minor = 0
      BY <2>0, <2>3 DEF NeedsHashTable
    <3>5. probe'.msgid \in Seq(Nat)
      BY <3>0
    <3> QED BY <2>0, <2>1, <2>2, <2>5, <3>2, <3>3, <3>4, <3>5
            DEF CatalogInv, FileInv, PassInv, AugmentInv, FindInv, LoadedSteps, FindSteps,
                LookupIsExact, IsReady
  <2> QED BY <2>0, <2>4, <2>5
<1> QED BY <1>1, <1>2

LEMMA MeasureStep ==
  ASSUME CatalogInv, Measure PROVE CatalogInv'
<1>1. CASE mostep' = "failed"
  BY <1>1, UnloadedStep DEF Measure, Invalid, fileVars, tableVars
<1>2. CASE mostep' # "failed"
  <2>0. /\ mostep = "measure" /\ at <= Len(mofile.sysdep)
        /\ mostep' = mostep /\ mofile' = mofile /\ domain' = domain /\ at' = at + 1
        /\ memneed' = IF ValidPair
                        THEN memneed + Need(Pair[1]) + Need(Pair[2]) + 2 * DescSize
                        ELSE memneed
    BY <1>2 DEF Measure, Invalid, fileVars, tableVars
  <2>1. /\ mofile \in MoFiles /\ DomainOK /\ TableInv(NStrings) /\ InMemory(0)
        /\ mofile.hash_size > 2 /\ mofile.minor # 0
        /\ at \in 1..(Len(mofile.sysdep) + 1) /\ memneed = Sums[at - 1]
    BY <2>0 DEF CatalogInv, FileInv, PassInv, LoadedSteps
  <2>2. /\ DomainOK' /\ TableInv(NStrings)' /\ InMemory(0)' /\ Sums' = Sums
    BY <2>0, <2>1, SameFile, SameDomain DEF TableInv
  <2>3. /\ at \in 1..Len(mofile.sysdep) /\ at + 1 \in 1..(Len(mofile.sysdep) + 1)
        /\ (at + 1) - 1 = at
    BY <2>0, <2>1, MoFileIs
  <2>4. memneed' = Sums[at]
    <3>1. Sums[at] = Sums[at - 1] + Cost(at) /\ Cost(at) \in Nat
      BY <2>1, <2>3, SumsAre
    <3>2. Sums[at - 1] \in Nat
      <4>1. at - 1 \in 0..Len(mofile.sysdep)
        BY <2>1, <2>3, MoFileIs
      <4> QED BY <2>1, <4>1, SumsAre
    <3>3. CASE ValidAt(at)
      <4>1. Need(Pair[1]) \in Nat /\ Need(Pair[2]) \in Nat /\ DescSize \in Nat
        BY <2>1, <2>3, <3>3, MoFileIs, ExpandedIs, CatalogConstants DEF ValidAt, Pair
      <4>2. memneed' = memneed + Need(Pair[1]) + Need(Pair[2]) + 2 * DescSize
        BY <2>0, <3>3 DEF ValidAt, ValidPair, Pair
      <4>3. Cost(at) = Need(Pair[1]) + Need(Pair[2]) + 2 * DescSize
        BY <3>3 DEF Cost, Pair
      <4> QED BY <2>1, <3>1, <3>2, <4>1, <4>2, <4>3
    <3>4. CASE ~ ValidAt(at)
      <4>1. memneed' = memneed /\ Cost(at) = 0
        BY <2>0, <3>4 DEF ValidAt, ValidPair, Pair, Cost
      <4> QED BY <2>1, <3>1, <3>2, <4>1
    <3> QED BY <3>3, <3>4
  <2> QED BY <2>0, <2>1, <2>2, <2>3, <2>4
          DEF CatalogInv, FileInv, PassInv, AugmentInv, FindInv, LoadedSteps, FindSteps,
              LookupIsExact, IsReady
<1> QED BY <1>1, <1>2

LEMMA AllocateStep ==
  ASSUME CatalogInv, Allocate PROVE CatalogInv'
<1>1. CASE mostep' = "failed"
  BY <1>1, UnloadedStep DEF Allocate, Invalid, fileVars, tableVars
<1>2. CASE mostep' # "failed"
  <2>0. /\ mostep = "measure" /\ at > Len(mofile.sysdep)
        /\ mofile' = mofile /\ domain' = domain
        /\ \/ /\ AnyPair /\ mostep' = "fill" /\ at' = 1
              /\ mem' = mofile.hash_size /\ memneed' = memneed
           \/ ~ AnyPair /\ mostep' = "find" /\ probe' = [msgid |-> <<>>]
    BY <1>2 DEF Allocate, Invalid, fileVars, tableVars
  <2>1. /\ mofile \in MoFiles /\ DomainOK /\ TableInv(NStrings) /\ InMemory(0)
        /\ mofile.hash_size > 2 /\ mofile.minor # 0
        /\ at \in 1..(Len(mofile.sysdep) + 1) /\ memneed = Sums[at - 1]
    BY <2>0 DEF CatalogInv, FileInv, PassInv, LoadedSteps
  <2>2. /\ DomainOK' /\ TableInv(NStrings)' /\ InMemory(0)' /\ Sums' = Sums
        /\ (InMemory(Len(mofile.sysdep)) => InMemory(Len(mofile.sysdep))')
    BY <2>0, <2>1, SameFile, SameDomain DEF TableInv
  <2>3. /\ at - 1 = Len(mofile.sysdep) /\ memneed = Sums[Len(mofile.sysdep)]
        /\ mofile.minor \in Nat /\ mofile.hash_size \in Nat /\ Len(mofile.sysdep) \in Nat
    BY <2>0, <2>1, MoFileIs
  <2>4. CASE mostep' = "fill"
    <3>1. /\ at' = 1 /\ mem' = mofile.hash_size /\ memneed' = Sums[Len(mofile.sysdep)]
          /\ mem' = Sums[at' - 1] /\ at' \in 1..(Len(mofile.sysdep) + 1) /\ at' - 1 = 0
      BY <2>0, <2>1, <2>3, <2>4, SumsAre
    <3>2. InMemory(at - 1)'
      <4>1. (at - 1)' = 0
        BY <3>1
      <4> QED BY <2>2, <4>1 DEF InMemory
    <3> QED BY <2>0, <2>1, <2>2, <2>4, <3>1, <3>2
            DEF CatalogInv, FileInv, PassInv, AugmentInv, FindInv, LoadedSteps, FindSteps,
                LookupIsExact, IsReady
  <2>5. CASE mostep' = "find"
    <3>0. ~ AnyPair /\ probe' = [msgid |-> <<>>]
      BY <2>0, <2>5
    <3>1. \A k \in 1..Len(mofile.sysdep) : ~ ValidAt(k)
      <4>1. ASSUME NEW k \in 1..Len(mofile.sysdep), ValidAt(k) PROVE FALSE
        <5>1. k \in 0..Len(mofile.sysdep) /\ k # 0
          OBVIOUS
        <5>2. Sums[Len(mofile.sysdep)] > mofile.hash_size
          BY <2>1, <4>1, <5>1, SumsGrow
        <5> QED BY <2>3, <3>0, <5>2 DEF AnyPair
      <4> QED BY <4>1
    <3>2. InMemory(Len(mofile.sysdep)) /\ Len(domain.inmem) = 0
      BY <2>1, <3>1, NothingInMemory
    <3>3. TableInv(NStrings + Len(domain.inmem))'
      <4>1. NStrings + Len(domain.inmem) = NStrings
        BY <2>1, <3>2, MoFileIs DEF NStrings
      <4>2. (NStrings + Len(domain.inmem))' = NStrings'
        BY <2>0, <4>1 DEF NStrings
      <4> QED BY <2>2, <4>2 DEF TableInv
    <3>4. ~ (mofile.hash_size <= 2)
      BY <2>1, <2>3
    <3>5. probe'.msgid \in Seq(Nat)
      BY <3>0
    <3> QED BY <2>0, <2>1, <2>2, <2>5, <3>2, <3>3, <3>4, <3>5
            DEF CatalogInv, FileInv, PassInv, AugmentInv, FindInv, LoadedSteps, FindSteps,
                LookupIsExact, IsReady
  <2> QED BY <2>0, <2>4, <2>5
<1> QED BY <1>1, <1>2

(* The memory grows with each valid pair by one text of each.                *)
LEMMA InMemoryGrows ==
  ASSUME mofile \in MoFiles, mofile' = mofile, DomainOK, mofile.minor # 0,
         NEW k \in 1..Len(mofile.sysdep), InMemory(k - 1),
         domain' = IF ValidAt(k) THEN [domain EXCEPT !.inmem = Append(@, Expansion(k))]
                   ELSE domain
  PROVE  InMemory(k)' /\ DomainOK'
<1> DEFINE M == Len(domain.inmem)
<1>0. /\ M \in Nat /\ domain.inmem \in Seq(EndedText \X Seq(Octet))
      /\ Len(mofile.sysdep) \in Nat /\ k - 1 \in Nat /\ k \in Nat
      /\ domain \in [ must_swap : BOOLEAN, must_swap_hash_tab : BOOLEAN,
                      hash_tab : HashTabs \cup {<< >>}, inmem : Seq(EndedText \X Seq(Octet)) ]
  BY MoFileIs DEF DomainOK
<1>1. \A n : (ValidAt(n)' <=> ValidAt(n)) /\ Expansion(n)' = Expansion(n)
  BY SameFile
<1>2. CASE ValidAt(k)
  <2> DEFINE new == Append(domain.inmem, Expansion(k))
  <2>1. Expansion(k) \in EndedText \X Seq(Octet)
    <3>1. /\ Expanded(mofile.sysdep[k][1]) \in EndedText
          /\ Expanded(mofile.sysdep[k][2]) \in EndedText
      BY <1>2, MoFileIs, ExpandedIs DEF ValidAt
    <3> QED BY <3>1 DEF Expansion, EndedText
  <2>2. /\ new \in Seq(EndedText \X Seq(Octet))
        /\ Len(new) = M + 1 /\ new[M + 1] = Expansion(k)
        /\ \A i \in 1..M : new[i] = domain.inmem[i]
    BY <1>0, <2>1
  <2> HIDE DEF new
  <2>3. domain' = [domain EXCEPT !.inmem = new]
    BY <1>2 DEF new
  <2>4. DomainOK' /\ domain'.inmem = new
    <3>1. HashTabs' = HashTabs
      BY DEF HashTabs
    <3>2. /\ domain' \in [ must_swap : BOOLEAN, must_swap_hash_tab : BOOLEAN,
                           hash_tab : HashTabs \cup {<< >>},
                           inmem : Seq(EndedText \X Seq(Octet)) ]
          /\ domain'.hash_tab = domain.hash_tab /\ domain'.inmem = new
          /\ domain'.must_swap_hash_tab = domain.must_swap_hash_tab
      BY <1>0, <2>2, <2>3
    <3> QED BY <3>1, <3>2 DEF DomainOK
  <2>5. ASSUME NEW n \in 1..k, ValidAt(n) PROVE \E i \in 1..(M + 1) : new[i] = Expansion(n)
    <3>1. CASE n = k
      BY <1>0, <2>2, <3>1
    <3>2. CASE n # k
      <4>1. n \in 1..(k - 1)
        BY <1>0, <3>2
      <4>2. PICK i \in 1..M : domain.inmem[i] = Expansion(n)
        BY <2>5, <4>1 DEF InMemory
      <4> QED BY <1>0, <2>2, <4>2
    <3> QED BY <3>1, <3>2
  <2>6. ASSUME NEW i \in 1..(M + 1) PROVE \E n \in 1..k : ValidAt(n) /\ new[i] = Expansion(n)
    <3>1. CASE i = M + 1
      BY <1>0, <1>2, <2>2, <3>1
    <3>2. CASE i # M + 1
      <4>1. i \in 1..M
        BY <1>0, <3>2
      <4>2. PICK n \in 1..(k - 1) : ValidAt(n) /\ domain.inmem[i] = Expansion(n)
        BY <4>1 DEF InMemory
      <4> QED BY <1>0, <2>2, <4>1, <4>2
    <3> QED BY <3>1, <3>2
  <2>7. Len(new) <= k
    BY <1>0, <2>2 DEF InMemory
  <2> QED BY <1>1, <2>2, <2>4, <2>5, <2>6, <2>7 DEF InMemory
<1>3. CASE ~ ValidAt(k)
  <2>1. domain' = domain
    BY <1>3
  <2>2. DomainOK'
    BY <2>1, SameDomain
  <2>3. InMemory(k)
    <3>1. \A n \in 1..k : ValidAt(n) => n \in 1..(k - 1)
      BY <1>0, <1>3
    <3>2. \A n \in 1..(k - 1) : n \in 1..k
      BY <1>0
    <3>3. M <= k
      BY <1>0 DEF InMemory
    <3> QED BY <3>1, <3>2, <3>3 DEF InMemory
  <2> QED BY <2>1, <2>2, <2>3, SameDomain
<1> QED BY <1>2, <1>3

(* Texts that come after the file's do not concern the table.                *)
LEMMA TableInvOfFile ==
  ASSUME mofile \in MoFiles, mofile' = mofile, DomainOK, DomainOK',
         domain'.hash_tab = domain.hash_tab, TableInv(NStrings)
  PROVE  TableInv(NStrings)'
<1> SUFFICES ASSUME mofile.hash_size > 2 PROVE TableInv(NStrings)'
  BY DEF TableInv
<1>1. NStrings \in Nat /\ NStrings = Len(mofile.orig)
  BY MoFileIs DEF NStrings
<1>2. Numbers' = Numbers
  BY DEF Numbers
<1>3. Len(domain.inmem) \in Nat /\ Len(domain'.inmem) \in Nat
  BY DEF DomainOK
<1>4. ASSUME NEW n \in 1..NStrings PROVE Texts'[n] = Texts[n]
  <2>1. /\ n \in 1..(Len(mofile.orig) + Len(domain.inmem)) /\ n <= Len(mofile.orig)
        /\ n \in 1..(Len(mofile.orig) + Len(domain'.inmem))
    <3>1. \A a, b \in Nat : \A m \in 1..a : m \in 1..(a + b) /\ m <= a
      OBVIOUS
    <3> QED BY <1>1, <1>3, <3>1
  <2>2. Texts[n] = CText(mofile.orig[n])
    BY <2>1 DEF Texts, AllTexts
  <2>3. Texts'[n] = CText(mofile.orig[n])
    BY <2>1 DEF Texts, AllTexts
  <2> QED BY <2>2, <2>3
<1>5. IsTable(Numbers, mofile.hash_size, Texts, NStrings)
  BY DEF TableInv
<1>6. IsTable(Numbers, mofile.hash_size, Texts', NStrings)
  BY <1>1, <1>4, <1>5, TableOfFirst
<1> QED BY <1>2, <1>6 DEF TableInv, NStrings

LEMMA FillStep ==
  ASSUME CatalogInv, Fill PROVE CatalogInv'
<1>0. /\ mostep = "fill" /\ at <= Len(mofile.sysdep) /\ at' = at + 1
      /\ mostep' = mostep /\ mofile' = mofile /\ memneed' = memneed
      /\ IF ValidAt(at)
           THEN /\ mem' = mem + Copied(Pair[1]) + Copied(Pair[2]) + 2 * DescSize
                /\ domain' = [domain EXCEPT !.inmem = Append(@, Expansion(at))]
           ELSE mem' = mem /\ domain' = domain
  BY DEF Fill, fileVars, ValidAt, ValidPair, Pair, Expansion
<1>1. /\ mofile \in MoFiles /\ DomainOK /\ TableInv(NStrings)
      /\ mofile.hash_size > 2 /\ mofile.minor # 0
      /\ at \in 1..(Len(mofile.sysdep) + 1) /\ mem = Sums[at - 1]
      /\ memneed = Sums[Len(mofile.sysdep)] /\ InMemory(at - 1)
  BY <1>0 DEF CatalogInv, FileInv, PassInv, LoadedSteps
<1>2. /\ at \in 1..Len(mofile.sysdep) /\ at + 1 \in 1..(Len(mofile.sysdep) + 1)
      /\ (at + 1) - 1 = at
  BY <1>0, <1>1, MoFileIs
<1> PICK k \in 1..Len(mofile.sysdep) : k = at
  BY <1>2
<1>3. InMemory(k)' /\ DomainOK'
  <2>1. domain' = IF ValidAt(k) THEN [domain EXCEPT !.inmem = Append(@, Expansion(k))]
                  ELSE domain
    BY <1>0
  <2>2. InMemory(k - 1)
    BY <1>1
  <2> QED BY <1>0, <1>1, <2>1, <2>2, InMemoryGrows
<1>4. TableInv(NStrings)'
  <2>1. domain'.hash_tab = domain.hash_tab
    BY <1>0, <1>1 DEF DomainOK
  <2> QED BY <1>0, <1>1, <1>3, <2>1, TableInvOfFile
<1>5. Sums' = Sums
  BY <1>0, SameFile
<1>6. mem' = Sums[at]
  <2>1. Sums[at] = Sums[at - 1] + Cost(at) /\ Cost(at) \in Nat
    BY <1>1, <1>2, SumsAre
  <2>2. Sums[at - 1] \in Nat
    <3>1. at - 1 \in 0..Len(mofile.sysdep)
      BY <1>1, <1>2, MoFileIs
    <3> QED BY <1>1, <3>1, SumsAre
  <2>3. CASE ValidAt(at)
    <3>1. /\ Copied(Pair[1]) \in Nat /\ Copied(Pair[1]) = Need(Pair[1])
          /\ Copied(Pair[2]) \in Nat /\ Copied(Pair[2]) = Need(Pair[2]) /\ DescSize \in Nat
      BY <1>1, <1>2, <2>3, MoFileIs, ExpandedIs, CatalogConstants DEF ValidAt, Pair
    <3>2. Cost(at) = Need(Pair[1]) + Need(Pair[2]) + 2 * DescSize
      BY <2>3 DEF Cost, Pair
    <3> QED BY <1>0, <1>1, <2>1, <2>2, <2>3, <3>1, <3>2
  <2>4. CASE ~ ValidAt(at)
    <3>1. Cost(at) = 0
      BY <2>4 DEF Cost
    <3> QED BY <1>0, <1>1, <2>1, <2>2, <2>4, <3>1
  <2> QED BY <2>3, <2>4
<1>7. InMemory(at - 1)' /\ mem' = Sums'[at' - 1] /\ at' \in 1..(Len(mofile'.sysdep) + 1)
      /\ memneed' = Sums'[Len(mofile'.sysdep)]
  <2>1. (at - 1)' = k
    BY <1>0, <1>2
  <2>2. InMemory(at - 1)'
    BY <1>3, <2>1 DEF InMemory
  <2> QED BY <1>0, <1>1, <1>2, <1>5, <1>6, <2>1, <2>2
<1> QED BY <1>0, <1>1, <1>3, <1>4, <1>7
        DEF CatalogInv, FileInv, PassInv, AugmentInv, FindInv, LoadedSteps, FindSteps,
            LookupIsExact, IsReady

LEMMA CopyHashTableStep ==
  ASSUME CatalogInv, CopyHashTable PROVE CatalogInv'
<1> DEFINE size == mofile.hash_size
           copy == [idx \in DOMAIN domain.hash_tab |->
                      Word(W(domain.must_swap_hash_tab, domain.hash_tab[idx]), FALSE)]
<1>0. /\ mostep = "fill" /\ at > Len(mofile.sysdep) /\ mostep' = "augment" /\ at' = 0
      /\ mofile' = mofile /\ mem' = mem /\ memneed' = memneed /\ probe' = [msgid |-> NoText]
      /\ domain' = [domain EXCEPT !.hash_tab = copy, !.must_swap_hash_tab = FALSE]
  BY DEF CopyHashTable
<1>1. /\ mofile \in MoFiles /\ DomainOK /\ TableInv(NStrings)
      /\ size > 2 /\ mofile.minor # 0
      /\ at \in 1..(Len(mofile.sysdep) + 1) /\ mem = Sums[at - 1]
      /\ memneed = Sums[Len(mofile.sysdep)] /\ InMemory(at - 1)
  BY <1>0 DEF CatalogInv, FileInv, PassInv, LoadedSteps
<1>2. at - 1 = Len(mofile.sysdep) /\ size \in Nat
  BY <1>0, <1>1, MoFileIs
<1>3. /\ domain.hash_tab \in HashTabs /\ domain.must_swap_hash_tab \in BOOLEAN
      /\ \A idx \in 0..(size - 1) : domain.hash_tab[idx].swapped = domain.must_swap_hash_tab
  BY <1>1 DEF DomainOK
<1>4. /\ copy \in HashTabs
      /\ \A idx \in 0..(size - 1) : /\ copy[idx].n = domain.hash_tab[idx].n
                                    /\ copy[idx].swapped = FALSE
  <2>1. DOMAIN domain.hash_tab = 0..(size - 1)
    BY <1>3 DEF HashTabs
  <2>2. ASSUME NEW idx \in 0..(size - 1)
        PROVE  Word(W(domain.must_swap_hash_tab, domain.hash_tab[idx]), FALSE)
                 = [n |-> domain.hash_tab[idx].n, swapped |-> FALSE]
    BY <1>3 DEF Word, W
  <2>3. \A idx \in 0..(size - 1) : domain.hash_tab[idx].n \in Nat
    BY <1>3 DEF HashTabs
  <2>4. copy = [idx \in 0..(size - 1) |-> [n |-> domain.hash_tab[idx].n, swapped |-> FALSE]]
    BY <2>1, <2>2
  <2> HIDE DEF copy
  <2> QED BY <2>3, <2>4 DEF HashTabs
<1> HIDE DEF copy
<1>5. /\ domain'.hash_tab = copy /\ domain'.must_swap_hash_tab = FALSE
      /\ domain'.inmem = domain.inmem
      /\ domain' \in [ must_swap : BOOLEAN, must_swap_hash_tab : BOOLEAN,
                       hash_tab : HashTabs \cup {<< >>}, inmem : Seq(EndedText \X Seq(Octet)) ]
  BY <1>0, <1>1, <1>4 DEF DomainOK
<1>6. DomainOK'
  <2>1. HashTabs' = HashTabs
    BY <1>0 DEF HashTabs
  <2> QED BY <1>0, <1>1, <1>4, <1>5, <2>1 DEF DomainOK
<1>7. TableInv(NStrings)' /\ NStrings' = NStrings
  <2>1. Numbers' = Numbers /\ Texts' = Texts
    BY <1>0, <1>4, <1>5 DEF Numbers, Texts
  <2> QED BY <1>0, <1>1, <2>1 DEF TableInv, NStrings
<1>8. TableInv(NStrings + at)'
  <2>1. (NStrings + at)' = NStrings
    BY <1>0, <1>1, <1>7, MoFileIs DEF NStrings
  <2> QED BY <1>7, <2>1 DEF TableInv
<1>9. InMemory(Len(mofile.sysdep))'
  <2>1. \A k : (ValidAt(k)' <=> ValidAt(k)) /\ Expansion(k)' = Expansion(k)
    BY <1>0, SameFile
  <2>2. InMemory(Len(mofile.sysdep))
    BY <1>1, <1>2
  <2> QED BY <1>0, <1>5, <2>1, <2>2 DEF InMemory
<1>10. at' \in 0..Len(domain'.inmem) /\ mem' = memneed'
  BY <1>0, <1>1, <1>2, <1>5 DEF DomainOK
<1> QED BY <1>0, <1>1, <1>5, <1>6, <1>8, <1>9, <1>10
        DEF CatalogInv, FileInv, PassInv, AugmentInv, FindInv, LoadedSteps, FindSteps,
            LookupIsExact, IsReady

(* A probing starts, and goes on from a place that is not empty.             *)
LEMMA ProbingStarts ==
  ASSUME mofile \in MoFiles, mofile.hash_size > 2, NEW text \in Seq(Nat),
         mofile' = mofile, probe' = Started(text)
  PROVE  ProbingFor(text, 0)'
<1>1. /\ ProbeOf(mofile.hash_size, text, 0) = HashOn(LongWord, text) % mofile.hash_size
      /\ Increment(HashOn(LongWord, text), mofile.hash_size)
           = Increment(HashOn(HashWord, text), mofile.hash_size)
  <2>1. 0 \in Nat /\ mofile.hash_size \in Nat
    BY MoFileIs
  <2> QED BY <2>1, ProbeOfIs
<1> QED BY <1>1 DEF ProbingFor, Started

LEMMA ProbingAdvances ==
  ASSUME mofile \in MoFiles, mofile.hash_size > 2, NEW text \in Seq(Nat), NEW j \in Nat,
         ProbingFor(text, j), Numbers[probe.idx] # 0,
         mofile' = mofile, domain' = domain, probe' = Advanced
  PROVE  ProbingFor(text, j + 1)'
<1>1. mofile.hash_size \in Nat
  BY MoFileIs
<1>2. NextIdx(ProbeOf(mofile.hash_size, text, j),
              Increment(HashOn(HashWord, text), mofile.hash_size), mofile.hash_size)
        = ProbeOf(mofile.hash_size, text, j + 1)
  BY <1>1, ProbeOfIs
<1>3. probe' = [ msgid |-> text, idx |-> ProbeOf(mofile.hash_size, text, j + 1),
                 incr |-> Increment(HashOn(HashWord, text), mofile.hash_size) ]
  BY <1>2 DEF ProbingFor, Advanced
<1>4. Numbers' = Numbers
  BY SameDomain
<1>5. \A i \in 0..((j + 1) - 1) : Numbers[ProbeOf(mofile.hash_size, text, i)] # 0
  <2>1. probe.idx = ProbeOf(mofile.hash_size, text, j)
    BY DEF ProbingFor
  <2>2. ASSUME NEW i \in 0..((j + 1) - 1) PROVE i = j \/ i \in 0..(j - 1)
    OBVIOUS
  <2> QED BY <2>1, <2>2 DEF ProbingFor
<1> QED BY <1>3, <1>4, <1>5 DEF ProbingFor

LEMMA AugmentStep ==
  ASSUME CatalogInv, Augment PROVE CatalogInv'
<1> DEFINE size == mofile.hash_size
           N == NStrings
           last == Len(mofile.sysdep)
<1>0. /\ mostep = "augment" /\ mofile' = mofile /\ mem' = mem /\ memneed' = memneed
  BY DEF Augment
<1>1. /\ mofile \in MoFiles /\ DomainOK /\ size > 2 /\ mofile.minor # 0
      /\ ~ domain.must_swap_hash_tab /\ mem = memneed
      /\ at \in 0..Len(domain.inmem)
      /\ TableInv(N + at) /\ InMemory(last)
      /\ probe.msgid # NoText =>
           /\ at < Len(domain.inmem)
           /\ \E j \in Nat : ProbingFor(CText(domain.inmem[at + 1][1]), j)
  BY <1>0 DEF CatalogInv, FileInv, AugmentInv, LoadedSteps
<1>2. /\ N = Len(mofile.orig) /\ N \in Nat /\ size \in Nat
      /\ N' = N /\ last' = last /\ size' = size
      /\ Len(domain.inmem) \in Nat /\ domain.inmem \in Seq(EndedText \X Seq(Octet))
      /\ mofile.orig \in Seq(EndedText) /\ at \in Nat
  BY <1>0, <1>1, MoFileIs DEF NStrings, DomainOK
<1>3. \A k \in 1..Len(domain.inmem) : CText(domain.inmem[k][1]) \in Seq(Nat)
  <2>1. ASSUME NEW k \in 1..Len(domain.inmem) PROVE CText(domain.inmem[k][1]) \in Seq(Nat)
    <3>1. domain.inmem[k] \in EndedText \X Seq(Octet)
      BY <1>2
    <3>2. domain.inmem[k][1] \in Seq(Octet)
      BY <3>1 DEF EndedText
    <3> QED BY <3>2, CTextIs
  <2> QED BY <2>1
<1>4. CASE /\ probe.msgid = NoText /\ at < Len(domain.inmem)
           /\ mostep' = mostep /\ domain' = domain /\ at' = at
           /\ probe' = Started(CText(domain.inmem[at + 1][1]))
  <2> PICK text \in Seq(Nat) : text = CText(domain.inmem[at + 1][1])
    <3>1. at + 1 \in 1..Len(domain.inmem)
      BY <1>2, <1>4
    <3> QED BY <1>3, <3>1
  <2>1. ProbingFor(text, 0)'
    BY <1>0, <1>1, <1>4, ProbingStarts
  <2>2. TableInv(N + at)' /\ InMemory(last)' /\ DomainOK'
    <3> PICK c : c = N + at
      OBVIOUS
    <3> PICK l : l = last
      OBVIOUS
    <3>1. TableInv(c)' /\ InMemory(l)' /\ DomainOK'
      BY <1>0, <1>1, <1>4, SameDomain
    <3>2. (N + at)' = c /\ last' = l
      BY <1>2, <1>4
    <3> QED BY <3>1, <3>2
  <2>3. text = CText(domain'.inmem[at' + 1][1])
    BY <1>4
  <2>4. \E j \in Nat : ProbingFor(CText(domain.inmem[at + 1][1]), j)'
    BY <2>1, <2>3 DEF ProbingFor
  <2> QED BY <1>0, <1>1, <1>4, <2>2, <2>4
          DEF CatalogInv, FileInv, PassInv, AugmentInv, FindInv, LoadedSteps, FindSteps,
              LookupIsExact, IsReady
<1>5. CASE at = Len(domain.inmem) /\ mostep' = "find" /\ probe' = [msgid |-> <<>>]
           /\ domain' = domain /\ at' = at
  <2>1. TableInv(NStrings + Len(domain.inmem))' /\ InMemory(last)' /\ DomainOK'
    <3> PICK c : c = N + at
      OBVIOUS
    <3> PICK l : l = last
      OBVIOUS
    <3>1. TableInv(c)' /\ InMemory(l)' /\ DomainOK'
      BY <1>0, <1>1, <1>5, SameDomain
    <3>2. (NStrings + Len(domain.inmem))' = c /\ last' = l
      BY <1>2, <1>5
    <3> QED BY <3>1, <3>2
  <2>2. ~ (size <= 2) /\ probe'.msgid \in Seq(Nat)
    BY <1>1, <1>2, <1>5
  <2> QED BY <1>0, <1>1, <1>5, <2>1, <2>2
          DEF CatalogInv, FileInv, PassInv, AugmentInv, FindInv, LoadedSteps, FindSteps,
              LookupIsExact, IsReady
<1>6. CASE /\ probe.msgid # NoText /\ domain.hash_tab[probe.idx].n = 0 /\ mostep' = mostep
           /\ domain' = [domain EXCEPT !.hash_tab[probe.idx] =
                           Word(1 + Len(mofile.orig) + at, FALSE)]
           /\ at' = at + 1 /\ probe' = [msgid |-> NoText]
  <2>c. 1 + Len(mofile.orig) + at = (N + at) + 1 /\ N + at \in Nat
    BY <1>2
  <2> PICK c \in Nat : c = N + at
    BY <2>c
  <2>0. at < Len(domain.inmem) /\ at + 1 \in 1..Len(domain.inmem)
    BY <1>1, <1>2, <1>6
  <2> PICK text \in Seq(Nat) : text = CText(domain.inmem[at + 1][1])
    BY <1>3, <2>0
  <2>1. PICK j \in Nat : ProbingFor(text, j)
    BY <1>1, <1>6
  <2> DEFINE idx == ProbeOf(size, text, j)
             word == Word(1 + Len(mofile.orig) + at, FALSE)
  <2>2. idx \in 0..(size - 1) /\ probe.idx = idx
    BY <1>1, <1>2, <2>1, ProbeOfIs DEF ProbingFor
  <2>3. word = [n |-> c + 1, swapped |-> FALSE]
    BY <2>c DEF Word
  <2>4. /\ domain.hash_tab \in HashTabs
        /\ \A i \in 0..(size - 1) : domain.hash_tab[i].swapped = FALSE
    BY <1>1 DEF DomainOK
  <2> HIDE DEF idx, word
  <2> DEFINE new == [domain.hash_tab EXCEPT ![idx] = word]
  <2>5. /\ new \in HashTabs
        /\ \A i \in 0..(size - 1) :
             /\ new[i].n = IF i = idx THEN c + 1 ELSE domain.hash_tab[i].n
             /\ new[i].swapped = FALSE
    <3>1. domain.hash_tab \in [0..(size - 1) -> [n : Nat, swapped : BOOLEAN]]
      BY <2>4 DEF HashTabs
    <3>2. word \in [n : Nat, swapped : BOOLEAN] /\ word.n = c + 1 /\ word.swapped = FALSE
      BY <2>3
    <3>3. \A i \in 0..(size - 1) : new[i] = IF i = idx THEN word ELSE domain.hash_tab[i]
      BY <3>1
    <3>4. new \in [0..(size - 1) -> [n : Nat, swapped : BOOLEAN]]
      BY <3>1, <3>2
    <3> HIDE DEF new
    <3> QED BY <2>4, <3>2, <3>3, <3>4 DEF HashTabs
  <2> HIDE DEF new
  <2>6. domain' = [domain EXCEPT !.hash_tab = new]
    BY <1>6, <2>2 DEF new, word
  <2>7. /\ domain'.hash_tab = new /\ domain'.inmem = domain.inmem
        /\ domain'.must_swap_hash_tab = domain.must_swap_hash_tab
        /\ domain' \in [ must_swap : BOOLEAN, must_swap_hash_tab : BOOLEAN,
                         hash_tab : HashTabs \cup {<< >>},
                         inmem : Seq(EndedText \X Seq(Octet)) ]
    BY <1>1, <2>5, <2>6 DEF DomainOK
  <2>8. DomainOK'
    <3>1. HashTabs' = HashTabs
      BY <1>0 DEF HashTabs
    <3> QED BY <1>0, <1>1, <2>5, <2>7, <3>1 DEF DomainOK
  <2>9. IsTable(Numbers', size, Texts, c + 1)
    <3>1. IsTable(Numbers, size, Texts, c)
      BY <1>1 DEF TableInv
    <3>2. Texts[c + 1] = text
      <4>1. c + 1 \in 1..(N + Len(domain.inmem)) /\ ~ (c + 1 <= N) /\ (c + 1) - N = at + 1
        <5>1. \A a, b, m \in Nat : a < b => /\ (m + a) + 1 \in 1..(m + b)
                                          /\ ~ ((m + a) + 1 <= m)
                                          /\ ((m + a) + 1) - m = a + 1
          OBVIOUS
        <5> HIDE DEF N
        <5> QED BY <1>2, <2>0, <5>1
      <4> QED BY <1>2, <4>1 DEF Texts, AllTexts
    <3>3. \A n \in 1..(c + 1) : Texts[n] \in Seq(Nat)
      <4>1. ASSUME NEW n \in 1..(c + 1) PROVE Texts[n] \in Seq(Nat)
        <5>1. n \in 1..(N + Len(domain.inmem))
          <6>1. \A a, b, m \in Nat : a < b => \A i \in 1..((m + a) + 1) : i \in 1..(m + b)
            OBVIOUS
          <6> HIDE DEF N
          <6> QED BY <1>2, <2>0, <6>1
        <5> QED BY <1>1, <5>1, TextsAreMessages
      <4> QED BY <4>1
    <3>4. Numbers[idx] = 0
      BY <1>6, <2>2 DEF Numbers
    <3>5. \A i \in 0..(j - 1) : Numbers[ProbeOf(size, Texts[c + 1], i)] # 0
      BY <2>1, <3>2 DEF ProbingFor
    <3>6. IsTable([Numbers EXCEPT ![ProbeOf(size, Texts[c + 1], j)] = c + 1],
                  size, Texts, c + 1)
      <4>1. Numbers[ProbeOf(size, Texts[c + 1], j)] = 0
        BY <3>2, <3>4 DEF idx
      <4> QED BY <1>1, <1>2, <3>1, <3>3, <3>5, <4>1, TableGrows
    <3>7. Numbers' = [Numbers EXCEPT ![idx] = c + 1]
      <4>1. Numbers' = [i \in 0..(size - 1) |-> new[i].n]
        BY <1>0, <2>7 DEF Numbers
      <4>2. Numbers = [i \in 0..(size - 1) |-> domain.hash_tab[i].n]
        BY DEF Numbers
      <4> QED BY <2>2, <2>5, <4>1, <4>2
    <3> QED BY <3>2, <3>6, <3>7 DEF idx
  <2>10. Texts' = Texts
    BY <1>0, <2>7 DEF Texts
  <2>11. TableInv(NStrings + at)'
    <3>1. (NStrings + at)' = c + 1
      <4>1. (NStrings + at)' = N + (at + 1)
        BY <1>2, <1>6
      <4>2. \A a, m \in Nat : m + (a + 1) = (m + a) + 1
        OBVIOUS
      <4> HIDE DEF N
      <4> QED BY <1>2, <4>1, <4>2
    <3> QED BY <1>0, <1>2, <2>9, <2>10, <3>1 DEF TableInv
  <2>12. InMemory(last)'
    <3>1. \A k : (ValidAt(k)' <=> ValidAt(k)) /\ Expansion(k)' = Expansion(k)
      BY <1>0, SameFile
    <3> QED BY <1>0, <1>1, <2>7, <3>1 DEF InMemory
  <2>13. at' \in 0..Len(domain'.inmem)
    BY <1>2, <1>6, <2>0, <2>7
  <2> QED BY <1>0, <1>1, <1>6, <2>7, <2>8, <2>11, <2>12, <2>13
          DEF CatalogInv, FileInv, PassInv, AugmentInv, FindInv, LoadedSteps, FindSteps,
              LookupIsExact, IsReady
<1>7. CASE /\ probe.msgid # NoText /\ domain.hash_tab[probe.idx].n # 0 /\ mostep' = mostep
           /\ probe' = Advanced /\ domain' = domain /\ at' = at
  <2>0. at + 1 \in 1..Len(domain.inmem)
    BY <1>1, <1>2, <1>7
  <2> PICK text \in Seq(Nat) : text = CText(domain.inmem[at + 1][1])
    BY <1>3, <2>0
  <2>1. PICK j \in Nat : ProbingFor(text, j)
    BY <1>1, <1>7
  <2>2. Numbers[probe.idx] # 0
    <3>1. probe.idx \in 0..(size - 1)
      BY <1>1, <1>2, <2>1, ProbeOfIs DEF ProbingFor
    <3> QED BY <1>7, <3>1 DEF Numbers
  <2>3. ProbingFor(text, j + 1)' /\ j + 1 \in Nat
    BY <1>0, <1>1, <1>7, <2>1, <2>2, ProbingAdvances
  <2>4. \E i \in Nat : ProbingFor(CText(domain.inmem[at + 1][1]), i)'
    BY <1>7, <2>3 DEF ProbingFor
  <2>5. TableInv(N + at)' /\ InMemory(last)' /\ DomainOK'
    <3> PICK c : c = N + at
      OBVIOUS
    <3> PICK l : l = last
      OBVIOUS
    <3>1. TableInv(c)' /\ InMemory(l)' /\ DomainOK'
      BY <1>0, <1>1, <1>7, SameDomain
    <3>2. (N + at)' = c /\ last' = l
      BY <1>2, <1>7
    <3> QED BY <3>1, <3>2
  <2> QED BY <1>0, <1>1, <1>7, <2>4, <2>5
          DEF CatalogInv, FileInv, PassInv, AugmentInv, FindInv, LoadedSteps, FindSteps,
              LookupIsExact, IsReady
<1> QED BY <1>4, <1>5, <1>6, <1>7 DEF Augment

(* What the search finds in the state before.                                *)
LEMMA Searching ==
  ASSUME CatalogInv, mostep \in FindSteps
  PROVE  /\ mofile \in MoFiles /\ DomainOK /\ InMemory(Len(mofile.sysdep))
         /\ TableInv(NStrings + Len(domain.inmem))
         /\ (mofile.hash_size <= 2 => mofile.minor = 0)
         /\ probe.msgid \in Seq(Nat)
         /\ mofile.hash_size \in Nat /\ NStrings = Len(mofile.orig) /\ NStrings \in Nat
         /\ Len(domain.inmem) \in Nat
<1>1. /\ mofile \in MoFiles /\ DomainOK
  BY DEF CatalogInv, FileInv, FindSteps, LoadedSteps
<1>2. /\ InMemory(Len(mofile.sysdep)) /\ TableInv(NStrings + Len(domain.inmem))
      /\ (mofile.hash_size <= 2 => mofile.minor = 0)
      /\ probe.msgid \in Seq(Nat)
  BY DEF CatalogInv, FindInv
<1>3. Len(domain.inmem) \in Nat
  BY <1>1 DEF DomainOK
<1> QED BY <1>1, <1>2, <1>3, MoFileIs DEF NStrings

(* A step of the search that asks for the same message and leaves the domain.*)
LEMMA SearchGoesOn ==
  ASSUME CatalogInv, mostep \in FindSteps, mostep' \in FindSteps,
         mofile' = mofile, domain' = domain, probe'.msgid \in Seq(Nat),
         mostep' = "hash" =>
           /\ mofile.hash_size > 2
           /\ \E j \in Nat :
                /\ ProbingFor(probe.msgid, j)'
                /\ \A i \in 0..(j - 1) :
                     Texts[Numbers[ProbeOf(mofile.hash_size, probe'.msgid, i)]] # probe'.msgid,
         mostep' = "bisect" =>
           /\ mofile.hash_size <= 2
           /\ probe' = [msgid |-> probe'.msgid, bottom |-> probe'.bottom, top |-> probe'.top]
           /\ probe'.bottom \in Nat /\ probe'.top \in 0..NStrings
           /\ \A k \in 1..NStrings : CText(mofile.orig[k]) = probe'.msgid
                                       => probe'.bottom < k /\ k <= probe'.top,
         mostep' = "ready" =>
           IF {m \in Messages : m[1] = probe'.msgid} = {} THEN found' = NoText
           ELSE \E m \in Messages : m[1] = probe'.msgid /\ found' = m[2]
  PROVE  CatalogInv'
<1>1. /\ mofile \in MoFiles /\ DomainOK /\ InMemory(Len(mofile.sysdep))
      /\ TableInv(NStrings + Len(domain.inmem))
      /\ (mofile.hash_size <= 2 => mofile.minor = 0)
  BY Searching
<1>2. /\ DomainOK' /\ Numbers' = Numbers /\ Texts' = Texts /\ Messages' = Messages
      /\ NStrings' = NStrings
  BY <1>1, SameFile, SameDomain
<1>3. TableInv(NStrings + Len(domain.inmem))'
  <2> PICK c : c = NStrings + Len(domain.inmem)
    OBVIOUS
  <2>1. TableInv(c)'
    BY <1>1, SameDomain
  <2>2. (NStrings + Len(domain.inmem))' = c
    BY <1>2
  <2> QED BY <2>1, <2>2
<1>4. InMemory(Len(mofile.sysdep))'
  <2> PICK l : l = Len(mofile.sysdep)
    OBVIOUS
  <2>1. InMemory(l)'
    BY <1>1, SameDomain
  <2> QED BY <2>1
<1>5. LookupIsExact'
  BY <1>2 DEF LookupIsExact, IsReady, Defined
<1>6. FileInv' /\ PassInv' /\ AugmentInv'
  BY <1>1, <1>2 DEF FileInv, PassInv, AugmentInv, FindSteps, LoadedSteps
<1>7. mostep' = "hash" =>
        /\ mofile'.hash_size > 2
        /\ \E j \in Nat :
             /\ ProbingFor(probe.msgid, j)'
             /\ \A i \in 0..(j - 1) :
                  Texts'[Numbers'[ProbeOf(mofile'.hash_size, probe'.msgid, i)]] # probe'.msgid
  BY <1>2
<1>8. FindInv'
  BY <1>1, <1>2, <1>3, <1>4, <1>5, <1>7 DEF FindInv, FindSteps
<1> QED BY <1>6, <1>8 DEF CatalogInv

LEMMA AskForStep ==
  ASSUME CatalogInv, NEW msgid \in Asked, AskFor(msgid) PROVE CatalogInv'
<1>1. /\ mostep = "ready" /\ mostep' = "find" /\ probe' = [msgid |-> msgid]
      /\ mofile' = mofile /\ domain' = domain
  BY DEF AskFor, IsReady
<1>2. msgid \in Seq(Nat)
  <2>1. msgid \in Seq(Octet \ {0})
    BY CatalogConstants
  <2>2. \A k \in 1..Len(msgid) : msgid[k] \in Nat
    <3>1. ASSUME NEW k \in 1..Len(msgid) PROVE msgid[k] \in Nat
      <4>1. msgid[k] \in Octet
        BY <2>1
      <4>2. \A c \in Octet : c \in Nat
        BY DEF Octet
      <4> QED BY <4>1, <4>2
    <3> QED BY <3>1
  <2>3. Len(msgid) \in Nat /\ msgid \in [1..Len(msgid) -> Octet \ {0}]
    BY <2>1
  <2>4. msgid \in [1..Len(msgid) -> Nat]
    BY <2>2, <2>3
  <2> QED BY <2>3, <2>4
<1> QED BY <1>1, <1>2, SearchGoesOn DEF FindSteps

LEMMA StartFindStep ==
  ASSUME CatalogInv, StartFind PROVE CatalogInv'
<1>0. /\ mostep = "find" /\ mofile' = mofile /\ domain' = domain
      /\ IF domain.hash_tab # << >>
           THEN mostep' = "hash" /\ probe' = Started(probe.msgid)
           ELSE /\ mostep' = "bisect"
                /\ probe' = [msgid |-> probe.msgid, bottom |-> 0, top |-> Len(mofile.orig)]
  BY DEF StartFind
<1>1. /\ mofile \in MoFiles /\ DomainOK /\ probe.msgid \in Seq(Nat)
      /\ mofile.hash_size \in Nat /\ NStrings = Len(mofile.orig) /\ NStrings \in Nat
  BY <1>0, Searching DEF FindSteps
<1>2. CASE mofile.hash_size > 2
  <2>1. domain.hash_tab # << >>
    <3>1. DOMAIN domain.hash_tab = 0..(mofile.hash_size - 1)
      BY <1>1, <1>2 DEF DomainOK, HashTabs
    <3>2. 0 \in DOMAIN domain.hash_tab
      BY <1>1, <1>2, <3>1
    <3>3. DOMAIN << >> = {}
      OBVIOUS
    <3> QED BY <3>2, <3>3
  <2> PICK text \in Seq(Nat) : text = probe.msgid
    BY <1>1
  <2>2. mostep' = "hash" /\ probe' = Started(text) /\ probe'.msgid = text
    BY <1>0, <2>1 DEF Started
  <2>3. ProbingFor(text, 0)'
    BY <1>0, <1>1, <1>2, <2>2, ProbingStarts
  <2>4. ProbingFor(probe.msgid, 0)'
    BY <2>2, <2>3 DEF ProbingFor
  <2>5. \A i \in 0..(0 - 1) :
          Texts[Numbers[ProbeOf(mofile.hash_size, probe'.msgid, i)]] # probe'.msgid
    OBVIOUS
  <2> QED BY <1>0, <1>2, <2>2, <2>4, <2>5, SearchGoesOn DEF FindSteps
<1>3. CASE ~ (mofile.hash_size > 2)
  <2>1. domain.hash_tab = << >> /\ mofile.hash_size <= 2
    BY <1>1, <1>3 DEF DomainOK
  <2>2. /\ mostep' = "bisect"
        /\ probe' = [msgid |-> probe.msgid, bottom |-> 0, top |-> Len(mofile.orig)]
    BY <1>0, <2>1
  <2>3. /\ probe' = [msgid |-> probe'.msgid, bottom |-> probe'.bottom, top |-> probe'.top]
        /\ probe'.bottom \in Nat /\ probe'.top \in 0..NStrings
        /\ probe'.bottom = 0 /\ probe'.top = NStrings /\ probe'.msgid \in Seq(Nat)
    BY <1>1, <2>2
  <2>4. \A k \in 1..NStrings : probe'.bottom < k /\ k <= probe'.top
    BY <1>1, <2>3
  <2> QED BY <1>0, <2>1, <2>2, <2>3, <2>4, SearchGoesOn DEF FindSteps
<1> QED BY <1>2, <1>3

(* A text that is found is answered by its own translation.                  *)
LEMMA FoundIsDefined ==
  ASSUME CatalogInv, mostep \in FindSteps, NEW nstr \in Nat,
         nstr < NStrings + Len(domain.inmem), IsMessage(nstr), Answer(Translation(nstr)),
         mofile' = mofile, domain' = domain
  PROVE  CatalogInv'
<1>0. /\ mofile \in MoFiles /\ DomainOK /\ InMemory(Len(mofile.sysdep))
      /\ probe.msgid \in Seq(Nat) /\ NStrings \in Nat /\ Len(domain.inmem) \in Nat
  BY Searching
<1>1. nstr + 1 \in 1..(NStrings + Len(domain.inmem)) /\ (nstr + 1) - 1 = nstr
  BY <1>0
<1>2. <<Texts[nstr + 1], Translation(nstr)>> \in Messages /\ Texts[nstr + 1] = probe.msgid
  BY <1>0, <1>1, TextsAreMessages
<1>3. mostep' = "ready" /\ probe' = probe /\ found' = Translation(nstr)
  BY DEF Answer
<1>4. \E m \in Messages : m[1] = probe'.msgid /\ found' = m[2]
  BY <1>2, <1>3
<1> QED BY <1>0, <1>3, <1>4, SearchGoesOn DEF FindSteps

LEMMA NotFoundIsUndefined ==
  ASSUME CatalogInv, mostep \in FindSteps, Answer(NoText),
         \A n \in 1..(NStrings + Len(domain.inmem)) : Texts[n] # probe.msgid,
         mofile' = mofile, domain' = domain
  PROVE  CatalogInv'
<1>0. /\ mofile \in MoFiles /\ DomainOK /\ InMemory(Len(mofile.sysdep))
      /\ probe.msgid \in Seq(Nat)
  BY Searching
<1>1. \A m \in Messages : m[1] # probe.msgid
  BY <1>0, TextsAreMessages
<1>2. mostep' = "ready" /\ probe' = probe /\ found' = NoText
  BY DEF Answer
<1> QED BY <1>0, <1>1, <1>2, SearchGoesOn DEF FindSteps

LEMMA HashProbeStep ==
  ASSUME CatalogInv, HashProbe PROVE CatalogInv'
<1> DEFINE size == mofile.hash_size
           count == NStrings + Len(domain.inmem)
           nstr == W(domain.must_swap_hash_tab, domain.hash_tab[probe.idx])
<1>0. /\ mostep = "hash" /\ mofile' = mofile /\ domain' = domain
      /\ IF nstr = 0 THEN Answer(NoText)
         ELSE IF IsMessage(nstr - 1) THEN Answer(Translation(nstr - 1))
         ELSE probe' = Advanced /\ found' = found /\ mostep' = mostep
  BY DEF HashProbe
<1>1. /\ mofile \in MoFiles /\ DomainOK /\ InMemory(Len(mofile.sysdep)) /\ TableInv(count)
      /\ probe.msgid \in Seq(Nat) /\ size \in Nat /\ NStrings \in Nat
      /\ Len(domain.inmem) \in Nat /\ count \in Nat
  BY <1>0, Searching DEF FindSteps
<1>2. mostep \in FindSteps /\ size > 2
  BY <1>0 DEF CatalogInv, FindInv, FindSteps
<1> PICK text \in Seq(Nat) : text = probe.msgid
  BY <1>1
<1> DEFINE P(i) == ProbeOf(size, text, i)
<1>3. PICK j \in Nat : /\ ProbingFor(text, j)
                       /\ \A i \in 0..(j - 1) : Texts[Numbers[P(i)]] # text
  BY <1>0 DEF CatalogInv, FindInv
<1>4. probe.idx = P(j) /\ P(j) \in 0..(size - 1)
  BY <1>1, <1>2, <1>3, ProbeOfIs DEF ProbingFor
<1>5. IsTable(Numbers, size, Texts, count)
  BY <1>1, <1>2 DEF TableInv
<1>6. nstr = Numbers[P(j)] /\ nstr \in 0..count
  <2>1. nstr = domain.hash_tab[P(j)].n
    BY <1>1, <1>2, <1>4 DEF DomainOK, W
  <2>2. Numbers[P(j)] = domain.hash_tab[P(j)].n
    BY <1>4 DEF Numbers
  <2>3. Numbers[P(j)] \in 0..count
    BY <1>4, <1>5 DEF IsTable
  <2> QED BY <2>1, <2>2, <2>3
<1> HIDE DEF nstr
<1>7. CASE nstr = 0
  <2>1. ASSUME NEW n \in 1..count, Texts[n] = text PROVE FALSE
    <3>1. PICK i \in Nat : Numbers[P(i)] = n /\ \A k \in 0..(i - 1) : Numbers[P(k)] # 0
      BY <1>5, <2>1 DEF IsTable
    <3>2. ~ (i < j)
      <4>1. CASE i < j
        <5>1. i \in 0..(j - 1)
          BY <4>1
        <5> QED BY <1>3, <2>1, <3>1, <5>1
      <4> QED BY <4>1
    <3>3. ~ (j < i)
      <4>1. CASE j < i
        <5>1. j \in 0..(i - 1)
          BY <4>1
        <5> QED BY <1>6, <1>7, <3>1, <5>1
      <4> QED BY <4>1
    <3>4. i = j
      BY <3>2, <3>3
    <3>5. n # 0
      OBVIOUS
    <3> QED BY <1>6, <1>7, <3>1, <3>4, <3>5
  <2> QED BY <1>0, <1>2, <1>7, <2>1, NotFoundIsUndefined
<1>8. CASE nstr # 0 /\ IsMessage(nstr - 1)
  <2>1. nstr - 1 \in Nat /\ nstr - 1 < count
    BY <1>1, <1>6, <1>8
  <2>2. Answer(Translation(nstr - 1))
    BY <1>0, <1>8
  <2> QED BY <1>0, <1>2, <1>8, <2>1, <2>2, FoundIsDefined
<1>9. CASE nstr # 0 /\ ~ IsMessage(nstr - 1)
  <2>1. probe' = Advanced /\ mostep' = mostep
    BY <1>0, <1>9
  <2>2. Texts[nstr] # text
    <3>1. nstr \in 1..count
      BY <1>1, <1>6, <1>9
    <3> QED BY <1>1, <1>9, <3>1, TextsAreMessages
  <2>3. ProbingFor(text, j + 1)' /\ j + 1 \in Nat
    BY <1>0, <1>1, <1>2, <1>3, <1>4, <1>6, <1>9, <2>1, ProbingAdvances
  <2>4. probe'.msgid = text
    BY <2>3 DEF ProbingFor
  <2>5. \A i \in 0..((j + 1) - 1) : Texts[Numbers[P(i)]] # text
    <3>1. ASSUME NEW i \in 0..((j + 1) - 1) PROVE i = j \/ i \in 0..(j - 1)
      OBVIOUS
    <3> QED BY <1>3, <1>6, <2>2, <3>1
  <2>6. ProbingFor(probe.msgid, j + 1)'
    BY <2>3, <2>4 DEF ProbingFor
  <2> QED BY <1>0, <1>2, <2>1, <2>3, <2>4, <2>5, <2>6, SearchGoesOn
<1> QED BY <1>7, <1>8, <1>9

LEMMA BisectStep ==
  ASSUME CatalogInv, Bisect PROVE CatalogInv'
<1> DEFINE act  == (probe.bottom + probe.top) \div 2
           here == CText(mofile.orig[act + 1])
<1>0. /\ mostep = "bisect" /\ mofile' = mofile /\ domain' = domain
      /\ IF probe.bottom >= probe.top THEN Answer(NoText)
         ELSE IF here = probe.msgid THEN Answer(Translation(act))
         ELSE /\ probe' = IF Below(probe.msgid, here) THEN [probe EXCEPT !.top = act]
                          ELSE [probe EXCEPT !.bottom = act + 1]
              /\ found' = found /\ mostep' = mostep
  BY DEF Bisect
<1>1. /\ mofile \in MoFiles /\ DomainOK /\ InMemory(Len(mofile.sysdep))
      /\ probe.msgid \in Seq(Nat) /\ NStrings = Len(mofile.orig) /\ NStrings \in Nat
      /\ mofile.minor = 0 /\ mofile.hash_size <= 2 /\ mostep \in FindSteps
      /\ Len(domain.inmem) \in Nat
  <2>1. mostep \in FindSteps /\ mofile.hash_size <= 2
    BY <1>0 DEF CatalogInv, FindInv, FindSteps
  <2> QED BY <2>1, Searching
<1>2. /\ probe = [msgid |-> probe.msgid, bottom |-> probe.bottom, top |-> probe.top]
      /\ probe.bottom \in Nat /\ probe.top \in 0..NStrings
      /\ \A k \in 1..NStrings : CText(mofile.orig[k]) = probe.msgid
                                  => probe.bottom < k /\ k <= probe.top
  BY <1>0 DEF CatalogInv, FindInv
<1>3. Len(domain.inmem) = 0 /\ NStrings + Len(domain.inmem) = NStrings
  <2>1. domain.inmem = <<>>
    BY <1>1 DEF InMemory
  <2> QED BY <1>1, <2>1
<1>4. \A n \in 1..NStrings : Texts[n] = CText(mofile.orig[n])
  BY <1>1, <1>3 DEF Texts, AllTexts
<1>5. CASE probe.bottom >= probe.top
  <2>1. \A n \in 1..NStrings : Texts[n] # probe.msgid
    BY <1>1, <1>2, <1>4, <1>5
  <2> QED BY <1>0, <1>1, <1>3, <1>5, <2>1, NotFoundIsUndefined
<1>6. CASE probe.bottom < probe.top
  <2>1. act \in Nat /\ probe.bottom <= act /\ act < probe.top /\ act < NStrings
        /\ act + 1 \in 1..NStrings
    BY <1>1, <1>2, <1>6
  <2> HIDE DEF act
  <2>2. CASE here = probe.msgid
    <3>1. Texts[act + 1] = probe.msgid
      BY <1>4, <2>1, <2>2
    <3>2. act + 1 \in 1..(NStrings + Len(domain.inmem)) /\ (act + 1) - 1 = act
      BY <1>3, <2>1
    <3>3. IsMessage(act)
      BY <1>1, <3>1, <3>2, TextsAreMessages
    <3>4. Answer(Translation(act))
      BY <1>0, <1>2, <1>6, <2>2
    <3> QED BY <1>0, <1>1, <1>3, <2>1, <3>3, <3>4, FoundIsDefined
  <2>3. CASE here # probe.msgid
    <3>0. /\ mostep' = mostep
          /\ probe' = IF Below(probe.msgid, here) THEN [probe EXCEPT !.top = act]
                      ELSE [probe EXCEPT !.bottom = act + 1]
      BY <1>0, <1>2, <1>6, <2>3
    <3>1. \A k \in 1..NStrings : CText(mofile.orig[k]) \in Seq(Nat)
      <4>1. ASSUME NEW k \in 1..NStrings PROVE CText(mofile.orig[k]) \in Seq(Nat)
        <5>1. mofile.orig[k] \in EndedText
          BY <1>1, MoFileIs
        <5> QED BY <5>1, CTextIs DEF EndedText
      <4> QED BY <4>1
    <3>2. \A j, k \in 1..NStrings :
            j < k => Below(CText(mofile.orig[j]), CText(mofile.orig[k]))
      <4>1. WellFormed(mofile) /\ DOMAIN mofile.orig = 1..NStrings
        BY <1>1, MoFileIs
      <4> QED BY <4>1 DEF WellFormed
    <3>3. here \in Seq(Nat)
      BY <2>1, <3>1
    <3>4. CASE Below(probe.msgid, here)
      <4>1. probe' = [probe EXCEPT !.top = act]
        BY <3>0, <3>4
      <4>2. /\ probe' = [msgid |-> probe'.msgid, bottom |-> probe'.bottom, top |-> probe'.top]
            /\ probe'.msgid = probe.msgid /\ probe'.bottom = probe.bottom /\ probe'.top = act
        BY <1>2, <4>1
      <4>3. ASSUME NEW k \in 1..NStrings, CText(mofile.orig[k]) = probe.msgid
            PROVE  probe'.bottom < k /\ k <= probe'.top
        <5>1. k # act + 1
          BY <2>3, <4>3
        <5>2. ~ (act + 1 < k)
          <6>1. CASE act + 1 < k
            <7>1. Below(here, probe.msgid)
              BY <2>1, <3>2, <4>3, <6>1
            <7> QED BY <1>1, <3>3, <3>4, <7>1, BelowIsAsymmetric
          <6> QED BY <6>1
        <5>3. k <= act
          BY <2>1, <5>1, <5>2
        <5> QED BY <1>2, <4>2, <4>3, <5>3
      <4>4. probe'.bottom \in Nat /\ probe'.top \in 0..NStrings
        BY <1>1, <1>2, <2>1, <4>2
      <4> QED BY <1>0, <1>1, <3>0, <4>2, <4>3, <4>4, SearchGoesOn
    <3>5. CASE ~ Below(probe.msgid, here)
      <4>1. probe' = [probe EXCEPT !.bottom = act + 1]
        BY <3>0, <3>5
      <4>2. /\ probe' = [msgid |-> probe'.msgid, bottom |-> probe'.bottom, top |-> probe'.top]
            /\ probe'.msgid = probe.msgid /\ probe'.bottom = act + 1 /\ probe'.top = probe.top
        BY <1>2, <4>1
      <4>3. ASSUME NEW k \in 1..NStrings, CText(mofile.orig[k]) = probe.msgid
            PROVE  probe'.bottom < k /\ k <= probe'.top
        <5>1. k # act + 1
          BY <2>3, <4>3
        <5>2. ~ (k < act + 1)
          <6>1. CASE k < act + 1
            <7>1. Below(probe.msgid, here)
              BY <2>1, <3>2, <4>3, <6>1
            <7> QED BY <3>5, <7>1
          <6> QED BY <6>1
        <5>3. act + 1 < k
          BY <2>1, <5>1, <5>2
        <5> QED BY <1>2, <4>2, <4>3, <5>3
      <4>4. probe'.bottom \in Nat /\ probe'.top \in 0..NStrings
        BY <1>1, <1>2, <2>1, <4>2
      <4> QED BY <1>0, <1>1, <3>0, <4>2, <4>3, <4>4, SearchGoesOn
    <3> QED BY <3>4, <3>5
  <2> QED BY <2>2, <2>3
<1>7. probe.bottom >= probe.top \/ probe.bottom < probe.top
  BY <1>1, <1>2
<1> QED BY <1>5, <1>6, <1>7

LEMMA StutteringStep ==
  ASSUME CatalogInv, UNCHANGED catalogVars PROVE CatalogInv'
<1>1. mofile' = mofile /\ mostep' = mostep /\ domain' = domain /\ at' = at /\ probe' = probe
      /\ memneed' = memneed /\ mem' = mem /\ found' = found
  BY DEF catalogVars, tableVars
<1>2. /\ Sums' = Sums /\ Messages' = Messages /\ NStrings' = NStrings
      /\ (DomainOK' <=> DomainOK) /\ Numbers' = Numbers /\ Texts' = Texts
      /\ \A count : TableInv(count)' <=> TableInv(count)
      /\ \A last : InMemory(last)' <=> InMemory(last)
  BY <1>1, SameFile, SameDomain
<1>3. \A text, j : ProbingFor(text, j)' <=> ProbingFor(text, j)
  BY <1>1, <1>2 DEF ProbingFor
<1> PICK n : n = NStrings
  OBVIOUS
<1> PICK a : a = at
  OBVIOUS
<1> PICK m : m = Len(domain.inmem)
  OBVIOUS
<1> PICK l : l = Len(mofile.sysdep)
  OBVIOUS
<1>4. /\ n' = n /\ NStrings' = n /\ at' = a /\ Len(domain'.inmem) = m
      /\ Len(mofile'.sysdep) = l
  BY <1>1, <1>2
<1>5. FileInv'
  <2>1. (TableInv(n)' <=> TableInv(n)) /\ (InMemory(0)' <=> InMemory(0))
    BY <1>2
  <2>2. TableInv(NStrings)' <=> TableInv(NStrings)
    BY <2>1, <1>4
  <2> QED BY <1>1, <1>2, <2>1, <2>2 DEF CatalogInv, FileInv
<1>6. PassInv'
  <2>1. InMemory(a - 1)' <=> InMemory(a - 1)
    BY <1>2
  <2>2. InMemory(at - 1)' <=> InMemory(at - 1)
    BY <2>1, <1>4
  <2> QED BY <1>1, <1>2, <2>2 DEF CatalogInv, PassInv
<1>7. AugmentInv'
  <2>1. TableInv(n + a)' <=> TableInv(n + a)
    BY <1>2
  <2>2. TableInv(NStrings + at)' <=> TableInv(NStrings + at)
    BY <2>1, <1>4
  <2>3. InMemory(l)' <=> InMemory(l)
    BY <1>2
  <2>4. InMemory(Len(mofile.sysdep))' <=> InMemory(Len(mofile.sysdep))
    BY <2>3, <1>4
  <2>5. \A j : ProbingFor(CText(domain.inmem[at + 1][1]), j)'
                <=> ProbingFor(CText(domain.inmem[at + 1][1]), j)
    BY <1>1, <1>2 DEF ProbingFor
  <2> QED BY <1>1, <2>2, <2>4, <2>5 DEF CatalogInv, AugmentInv
<1>8. FindInv'
  <2>1. TableInv(n + m)' <=> TableInv(n + m)
    BY <1>2
  <2>2. TableInv(NStrings + Len(domain.inmem))' <=> TableInv(NStrings + Len(domain.inmem))
    BY <2>1, <1>4
  <2>3. InMemory(l)' <=> InMemory(l)
    BY <1>2
  <2>4. InMemory(Len(mofile.sysdep))' <=> InMemory(Len(mofile.sysdep))
    BY <2>3, <1>4
  <2>5. \A j : ProbingFor(probe.msgid, j)' <=> ProbingFor(probe.msgid, j)
    BY <1>1, <1>2 DEF ProbingFor
  <2>6. LookupIsExact' <=> LookupIsExact
    BY <1>1, <1>2 DEF LookupIsExact, IsReady, Defined
  <2> QED BY <1>1, <1>2, <2>2, <2>4, <2>5, <2>6 DEF CatalogInv, FindInv
<1> QED BY <1>5, <1>6, <1>7, <1>8 DEF CatalogInv

-----------------------------------------------------------------------------
LEMMA CatalogInvHolds == CatalogSpec => []CatalogInv
<1>1. ASSUME CatalogInv, [CatalogNext]_catalogVars PROVE CatalogInv'
  <2>1. CASE OpenFile \/ Stat \/ Map \/ Read
    <3>1. mofile' = mofile /\ mostep' \in {"open", "stat", "map", "read", "magic", "failed"}
      BY <2>1 DEF OpenFile, Stat, Map, Read
    <3> QED BY <1>1, <3>1, UnloadedStep
  <2>2. CASE Magic
    BY <1>1, <2>2, MagicStep
  <2>3. CASE Revision
    BY <1>1, <2>3, RevisionStep
  <2>4. CASE Measure
    BY <1>1, <2>4, MeasureStep
  <2>5. CASE Allocate
    BY <1>1, <2>5, AllocateStep
  <2>6. CASE Fill
    BY <1>1, <2>6, FillStep
  <2>7. CASE CopyHashTable
    BY <1>1, <2>7, CopyHashTableStep
  <2>8. CASE Augment
    BY <1>1, <2>8, AugmentStep
  <2>9. CASE StartFind
    BY <1>1, <2>9, StartFindStep
  <2>10. CASE HashProbe
    BY <1>1, <2>10, HashProbeStep
  <2>11. CASE Bisect
    BY <1>1, <2>11, BisectStep
  <2>12. ASSUME NEW msgid \in Asked, AskFor(msgid) PROVE CatalogInv'
    BY <1>1, <2>12, AskForStep
  <2>13. CASE UNCHANGED catalogVars
    BY <1>1, <2>13, StutteringStep
  <2> QED BY <1>1, <2>1, <2>2, <2>3, <2>4, <2>5, <2>6, <2>7, <2>8, <2>9, <2>10, <2>11,
             <2>12, <2>13 DEF CatalogNext, LoadStep, FindStep
<1> QED BY <1>1, CatalogInvInit, PTL DEF CatalogSpec

(* For all files that msgfmt writes, in either byte order, and any two       *)
(* widths of unsigned long: a lookup answers by a translation of the message *)
(* if the file defines it, and by NULL otherwise, whether it searches the    *)
(* table of the file, an augmented one, or by bisection.                     *)
THEOREM LookupsAreExact == CatalogSpec => []LookupIsExact
<1>1. CatalogInv => LookupIsExact
  BY DEF CatalogInv, FindInv
<1> QED BY <1>1, CatalogInvHolds, PTL

(* The second pass over the system dependent strings needs exactly the       *)
(* memory that the first has asked for, never more on the way, and the table *)
(* in which new texts are put has an empty place.                            *)
THEOREM SecondPassFits == CatalogSpec => []PassesAgree
<1>1. ASSUME CatalogInv PROVE PassesAgree
  <2>1. ASSUME mostep = "fill" PROVE mem <= memneed
    <3>1. /\ mofile \in MoFiles /\ at \in 1..(Len(mofile.sysdep) + 1)
          /\ mem = Sums[at - 1] /\ memneed = Sums[Len(mofile.sysdep)]
      BY <1>1, <2>1 DEF CatalogInv, FileInv, PassInv
    <3>2. at - 1 \in 0..Len(mofile.sysdep)
      BY <3>1, MoFileIs
    <3> QED BY <3>1, <3>2, SumsGrow
  <2>2. ASSUME mostep = "augment"
        PROVE  mem = memneed /\ \E idx \in DOMAIN domain.hash_tab : domain.hash_tab[idx].n = 0
    <3> DEFINE size == mofile.hash_size
    <3>1. /\ mofile \in MoFiles /\ DomainOK /\ size > 2 /\ mem = memneed
          /\ at \in 0..Len(domain.inmem) /\ TableInv(NStrings + at)
          /\ InMemory(Len(mofile.sysdep))
      BY <1>1, <2>2 DEF CatalogInv, FileInv, AugmentInv, LoadedSteps
    <3>2. NStrings + at \in Nat /\ NStrings + at < size
      <4>1. /\ Len(mofile.orig) \in Nat /\ Len(mofile.sysdep) \in Nat /\ size \in Nat
            /\ Len(mofile.orig) + Len(mofile.sysdep) < size
        BY <3>1, MoFileIs
      <4>2. Len(domain.inmem) \in Nat /\ Len(domain.inmem) <= Len(mofile.sysdep)
        BY <3>1 DEF DomainOK, InMemory
      <4>3. \A a, b, c, d, e \in Nat :
              a <= b /\ b <= c /\ d + c < e => d + a \in Nat /\ d + a < e
        OBVIOUS
      <4>4. at \in Nat /\ at <= Len(domain.inmem)
        BY <3>1, <4>2
      <4> HIDE DEF size
      <4> QED BY <4>1, <4>2, <4>3, <4>4 DEF NStrings
    <3>3. PICK idx \in 0..(size - 1) : Numbers[idx] = 0
      <4>1. IsTable(Numbers, size, Texts, NStrings + at)
        BY <3>1 DEF TableInv
      <4>2. size \in Nat
        BY <3>1, MoFileIs
      <4> QED BY <3>2, <4>1, <4>2, TableHasPlace
    <3>4. DOMAIN domain.hash_tab = 0..(size - 1)
      BY <3>1 DEF DomainOK, HashTabs
    <3>5. domain.hash_tab[idx].n = 0
      BY <3>3 DEF Numbers
    <3> QED BY <3>1, <3>4, <3>5
  <2> QED BY <2>1, <2>2 DEF PassesAgree
<1> QED BY <1>1, CatalogInvHolds, PTL
=============================================================================
