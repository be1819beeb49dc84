---------------------------- MODULE IndexLemmas ----------------------------
(***************************************************************************)
(* Facts the proofs of the components share, about what their loops and    *)
(* tables do with indices: where a cursor of a ring buffer lands when it   *)
(* moves; that a set of natural numbers has a least element, and with it   *)
(* induction up to a bound and recursion up to a bound; what a loop that   *)
(* adds up computes; and what linear probing finds and keeps.              *)
(***************************************************************************)
EXTENDS Integers, TLAPS, FiniteSetTheorems, WellFoundedInduction

(* Remainders: ring buffers and hash positions.                            *)

\* Division with remainder.
LEMMA DivMod ==
  ASSUME NEW c \in Nat \ {0}, NEW x \in Int
  PROVE  \E q \in Int, r \in 0 .. c - 1 : r = x % c /\ x = c * q + r
<1>1. x % c \in 0 .. c - 1 /\ x \div c \in Int /\ x = c * (x \div c) + (x % c) OBVIOUS
<1> QED BY <1>1

\* A remainder is less than the divisor.
LEMMA ModType ==
  ASSUME NEW c \in Nat \ {0}, NEW x \in Int
  PROVE  x % c \in 0 .. c - 1
OBVIOUS

\* Multiples of c that are less than c apart are the same multiple.
LEMMA Unique ==
  ASSUME NEW c \in Nat \ {0}, NEW q \in Int, NEW p \in Int, NEW d \in Int,
         c * q = c * p + d, -c < d, d < c
  PROVE  q = p
<1>1. ASSUME NEW k \in Int, k >= 1 PROVE c * k >= c BY <1>1
<1>2. c * (q - p) = d /\ c * (p - q) = -d OBVIOUS
<1>3. ~(q - p >= 1) BY <1>1, <1>2
<1>4. ~(p - q >= 1) BY <1>1, <1>2
<1> QED BY <1>3, <1>4

\* A number that is r more than a multiple of c, r less than c, has remainder r.
LEMMA ModIs ==
  ASSUME NEW c \in Nat \ {0}, NEW x \in Int, NEW q \in Int, NEW r \in 0 .. c - 1, x = c * q + r
  PROVE  x % c = r
<1>1. PICK p \in Int, s \in 0 .. c - 1 : s = x % c /\ x = c * p + s BY DivMod
<1>2. x = c * p + s BY <1>1
<1>3. c * q = c * p + (s - r) BY <1>2
<1>4. q = p BY <1>3, Unique
<1> QED BY <1>1, <1>4

\* Adding a multiple of c does not change the remainder.
LEMMA ModShift ==
  ASSUME NEW c \in Nat \ {0}, NEW q \in Int, NEW x \in Int
  PROVE  (x + c * q) % c = x % c
<1>0. PICK y \in Int : y = x + c * q OBVIOUS
<1>1. PICK p \in Int, s \in 0 .. c - 1 : s = x % c /\ x = c * p + s BY DivMod
<1>2. x = c * p + s BY <1>1
<1>3. y = c * (p + q) + s BY <1>0, <1>2
<1>4. p + q \in Int OBVIOUS
<1>5. y % c = s BY <1>3, <1>4, ModIs
<1> QED BY <1>0, <1>1, <1>5

\* Numbers less than c apart, but not equal, differ modulo c.
LEMMA ModApart ==
  ASSUME NEW c \in Nat \ {0}, NEW x \in Int, NEW y \in Int, 0 < y - x, y - x < c
  PROVE  x % c # y % c
<1>1. PICK p \in Int, s \in 0 .. c - 1 : s = x % c /\ x = c * p + s BY DivMod
<1>2. PICK q \in Int, t \in 0 .. c - 1 : t = y % c /\ y = c * q + t BY DivMod
<1>3. x = c * p + s /\ y = c * q + t BY <1>1, <1>2
<1>4. ASSUME s = t PROVE FALSE
  <2>1. c * q = c * p + (y - x) BY <1>3, <1>4
  <2>2. q = p BY <2>1, Unique
  <2> QED BY <1>3, <1>4, <2>2
<1> QED BY <1>1, <1>2, <1>4

\* The remainder of a number at most one turn away.
LEMMA ModTurn ==
  ASSUME NEW c \in Nat \ {0}, NEW x \in Int, -c <= x, x < 2 * c
  PROVE  x % c = IF x < 0 THEN x + c ELSE IF x < c THEN x ELSE x - c
<1>1. CASE x < 0
  <2>1. x = c * (-1) + (x + c) OBVIOUS
  <2> QED BY <1>1, <2>1, ModIs
<1>2. CASE x >= 0 /\ x < c
  <2>1. x = c * 0 + x OBVIOUS
  <2> QED BY <1>2, <2>1, ModIs
<1>3. CASE x >= c
  <2>1. x = c * 1 + (x - c) OBVIOUS
  <2> QED BY <1>3, <2>1, ModIs
<1> QED BY <1>1, <1>2, <1>3

\* An index that moves on by one slot of a ring of c slots.
LEMMA NextSlot ==
  ASSUME NEW c \in Nat \ {0}, NEW x \in 0 .. c - 1
  PROVE  (x + 1) % c = IF x + 1 < c THEN x + 1 ELSE 0
<1>1. PICK y \in Int : y = x + 1 OBVIOUS
<1>2. -c <= y /\ y < 2 * c /\ y <= c BY <1>1
<1>3. y % c = IF y < 0 THEN y + c ELSE IF y < c THEN y ELSE y - c BY <1>2, ModTurn
<1> QED BY <1>1, <1>2, <1>3

\* Reducing a term of a sum first does not change the remainder of the sum.
LEMMA ModPlus ==
  ASSUME NEW c \in Nat \ {0}, NEW x \in Int, NEW i \in Int
  PROVE  ((x % c) + i) % c = (x + i) % c
<1>1. PICK q \in Int, r \in 0 .. c - 1 : r = x % c /\ x = c * q + r BY DivMod
<1>2. PICK y \in Int : y = r + i OBVIOUS
<1>3. x + i = y + c * q
  <2>1. x = c * q + r BY <1>1
  <2> QED BY <1>2, <2>1
<1>4. (y + c * q) % c = y % c BY ModShift
<1> QED BY <1>1, <1>2, <1>3, <1>4, Zenon
-----------------------------------------------------------------------------
(* Induction and recursion up to a bound.                                  *)

\* Steps of a recursion within S, and the function they define.
StepsWithin(N, S, G) == G \in [1 .. N -> [S -> S]]
Unfolds(f, N, S, a, G) ==
    f \in [0 .. N -> S] /\ f[0] = a /\ \A n \in 1 .. N : f[n] = G[n][f[n - 1]]

\* A set of natural numbers that is not empty has a least element.
LEMMA LeastNatural ==
  ASSUME NEW T \in SUBSET Nat, T # {}
  PROVE  \E n \in T : \A m \in T : n <= m
<1>1. PICK R : R = StrictSubsetOrdering(Nat) OBVIOUS
<1>2. PICK F : F = {0 .. n - 1 : n \in T} OBVIOUS
<1>3. F # {} BY <1>2
<1>4. F \subseteq FiniteSubsetsOf(Nat)
  <2>1. ASSUME NEW n \in T PROVE 0 .. n - 1 \in SUBSET Nat /\ IsFiniteSet(0 .. n - 1) BY FS_Interval
  <2> QED BY <1>2, <2>1 DEF FiniteSubsetsOf
<1>5. IsWellFoundedOn(R, FiniteSubsetsOf(Nat)) BY <1>1, FS_StrictSubsetOrderingWellFounded
<1>6. PICK x \in F : \A y \in F : ~ (<<y, x>> \in R) BY <1>3, <1>4, <1>5, WFMin
<1>7. PICK n \in T : x = 0 .. n - 1 BY <1>2
<1>8. ASSUME NEW m \in T PROVE n <= m
  <2>1. 0 .. m - 1 \in F /\ 0 .. m - 1 \in SUBSET Nat BY <1>2
  <2>2. SUFFICES ASSUME m < n PROVE FALSE OBVIOUS
  <2>3. 0 .. m - 1 \subseteq 0 .. n - 1 /\ m \in 0 .. n - 1 /\ m \notin 0 .. m - 1 BY <2>2
  <2>4. 0 .. m - 1 # 0 .. n - 1 BY <2>3
  <2>5. <<0 .. m - 1, 0 .. n - 1>> \in R BY <1>1, <2>1, <2>3, <2>4 DEF StrictSubsetOrdering
  <2> QED BY <1>6, <1>7, <2>1, <2>5
<1> QED BY <1>8

\* A recursion up to N, from a and by the steps G, defines a function.
LEMMA RecursionDefines ==
  ASSUME NEW N \in Nat, NEW S, NEW a \in S, NEW G, StepsWithin(N, S, G)
  PROVE  \E f : Unfolds(f, N, S, a, G)
<1> USE DEF StepsWithin
<1> DEFINE Upto(n) == \E f \in [0 .. n -> S] : f[0] = a /\ \A i \in 1 .. n : f[i] = G[i][f[i - 1]]
           T == {n \in 0 .. N : ~Upto(n)}
<1>1. Upto(0)
  <2>1. PICK f : f = [i \in 0 .. 0 |-> a] OBVIOUS
  <2>2. f \in [0 .. 0 -> S] /\ f[0] = a /\ \A i \in 1 .. 0 : f[i] = G[i][f[i - 1]] BY <2>1
  <2> QED BY <2>2
<1>2. ASSUME NEW n \in 1 .. N, Upto(n - 1) PROVE Upto(n)
  <2>1. PICK f \in [0 .. n - 1 -> S] : f[0] = a /\ \A i \in 1 .. n - 1 : f[i] = G[i][f[i - 1]] BY <1>2
  <2>2. PICK g : g = [i \in 0 .. n |-> IF i = n THEN G[n][f[n - 1]] ELSE f[i]] OBVIOUS
  <2>3. G[n][f[n - 1]] \in S BY <2>1
  <2>4. g \in [0 .. n -> S] BY <2>1, <2>2, <2>3
  <2>5. g[0] = a BY <2>1, <2>2
  <2>6. ASSUME NEW i \in 1 .. n PROVE g[i] = G[i][g[i - 1]]
    <3>1. i - 1 \in 0 .. n - 1 /\ g[i - 1] = f[i - 1] BY <2>2
    <3>2. CASE i = n BY <2>2, <3>1, <3>2
    <3>3. CASE i # n BY <2>1, <2>2, <3>1, <3>3
    <3> QED BY <3>2, <3>3
  <2> QED BY <2>4, <2>5, <2>6
<1>3. T = {}
  <2> SUFFICES ASSUME T # {} PROVE FALSE OBVIOUS
  <2>1. T \in SUBSET Nat OBVIOUS
  <2> HIDE DEF Upto
  <2>2. PICK n \in T : \A m \in T : n <= m BY <2>1, LeastNatural
  <2>3. n \in 1 .. N BY <1>1, <2>2
  <2>4. n - 1 \in 0 .. N /\ n - 1 \notin T BY <2>2, <2>3
  <2> QED BY <1>2, <2>2, <2>3, <2>4
<1>4. Upto(N)
  <2> HIDE DEF Upto
  <2> QED BY <1>3
<1> QED BY <1>4 DEF Unfolds

\* Induction up to a bound.
LEMMA UpTo ==
  ASSUME NEW N \in Nat, NEW T, 0 \in T, \A i \in 1 .. N : i - 1 \in T => i \in T
  PROVE  \A i \in 0 .. N : i \in T
<1> DEFINE B == {i \in 0 .. N : i \notin T}
<1> SUFFICES ASSUME B # {} PROVE FALSE OBVIOUS
<1>1. B \in SUBSET Nat OBVIOUS
<1>2. PICK n \in B : \A m \in B : n <= m BY <1>1, LeastNatural
<1>3. n \in 1 .. N /\ n - 1 \in 0 .. N /\ ~(n <= n - 1) BY <1>2
<1>4. n - 1 \in T BY <1>2, <1>3
<1> QED BY <1>2, <1>3, <1>4

\* The powers of two, from the number of subsets of an interval.
LEMMA Pow2 ==
  ASSUME NEW n \in Nat
  PROVE  2 ^ n \in Nat \ {0} /\ 2 ^ (n + 1) = 2 * 2 ^ n
<1>1. ASSUME NEW m \in Nat
      PROVE  /\ IsFiniteSet(SUBSET (1 .. m)) /\ Cardinality(SUBSET (1 .. m)) = 2 ^ m
             /\ Cardinality(SUBSET (1 .. m)) \in Nat \ {0}
  <2>1. IsFiniteSet(1 .. m) /\ Cardinality(1 .. m) = m BY FS_Interval
  <2>2. IsFiniteSet(SUBSET (1 .. m)) /\ Cardinality(SUBSET (1 .. m)) = 2 ^ m BY <2>1, FS_SUBSET
  <2>3. SUBSET (1 .. m) # {} OBVIOUS
  <2> QED BY <2>2, <2>3, FS_CardinalityType, FS_EmptySet
<1> DEFINE A == SUBSET (1 .. n)
           f == [x \in A |-> x \union {n + 1}]
           B == {f[x] : x \in A}
<1>2. ExistsBijection(A, B)
  <2>1. \A x, y \in A : f[x] = f[y] => x = y
    <3>1. ASSUME NEW x \in A PROVE x = f[x] \ {n + 1} OBVIOUS
    <3> QED BY <3>1
  <2>2. f \in [A -> B] /\ \A y \in B : \E x \in A : f[x] = y OBVIOUS
  <2> HIDE DEF A, B
  <2>3. IsInjective(f) BY <2>1 DEF IsInjective
  <2> HIDE DEF f
  <2>4. f \in Bijection(A, B) BY <2>2, <2>3 DEF Bijection, Injection, Surjection
  <2> QED BY <2>4 DEF ExistsBijection
<1>3. IsFiniteSet(B) /\ Cardinality(B) = Cardinality(A) BY <1>1, <1>2, FS_Bijection
<1>4. A \cap B = {}
  <2>1. ASSUME NEW x \in A PROVE n + 1 \in f[x] /\ n + 1 \notin x OBVIOUS
  <2> QED BY <2>1
<1>5. SUBSET (1 .. n + 1) = A \union B
  <2>1. ASSUME NEW x \in SUBSET (1 .. n + 1) PROVE x \in A \union B
    <3>1. CASE n + 1 \notin x
      <4>1. ASSUME NEW i \in x PROVE i \in 1 .. n
        <5>1. i \in 1 .. n + 1 /\ i # n + 1 BY <2>1, <3>1
        <5> QED BY <5>1
      <4> QED BY <4>1
    <3>2. CASE n + 1 \in x
      <4>1. x \ {n + 1} \in A OBVIOUS
      <4>2. f[x \ {n + 1}] = x BY <3>2, <4>1
      <4> QED BY <4>1, <4>2
    <3> QED BY <3>1, <3>2
  <2>2. ASSUME NEW x \in A PROVE x \in SUBSET (1 .. n + 1) /\ f[x] \in SUBSET (1 .. n + 1) OBVIOUS
  <2>3. ASSUME NEW y \in B PROVE y \in SUBSET (1 .. n + 1)
    <3>1. PICK x \in A : y = f[x] OBVIOUS
    <3> HIDE DEF A, B, f
    <3> QED BY <2>2, <3>1
  <2> HIDE DEF A, B
  <2> QED BY <2>1, <2>2, <2>3
<1>6. Cardinality(A \union B) = Cardinality(A) + Cardinality(B) - Cardinality(A \cap B)
  BY <1>1, <1>3, FS_Union
<1> HIDE DEF A, B
<1>7. Cardinality(A \cap B) = 0 BY <1>4, FS_EmptySet
<1>8. Cardinality(A) = 2 ^ n /\ Cardinality(A) \in Nat \ {0} BY <1>1 DEF A
<1>9. n + 1 \in Nat /\ Cardinality(A \union B) = 2 ^ (n + 1) BY <1>1, <1>5
<1> QED BY <1>3, <1>6, <1>7, <1>8, <1>9

\* A power of two is no less than its exponent.
LEMMA PowBounds ==
  ASSUME NEW n \in Nat
  PROVE  2 ^ n >= n
<1> DEFINE T == {i \in Nat : ~(2 ^ i >= i)}
<1>1. T = {}
  <2> SUFFICES ASSUME T # {} PROVE FALSE OBVIOUS
  <2>1. PICK i \in T : \A j \in T : i <= j BY LeastNatural
  <2>2. i # 0
    <3>1. 2 ^ i \in Nat BY Pow2
    <3>2. PICK a \in Nat : a = 2 ^ i BY <3>1
    <3>3. ~(a >= i) BY <2>1, <3>2
    <3> QED BY <3>3
  <2>3. PICK j \in Nat : i = j + 1 BY <2>2
  <2>4. j \notin T BY <2>1, <2>3
  <2>5. PICK a \in Nat \ {0} : a = 2 ^ j /\ 2 ^ (j + 1) = 2 * a BY Pow2
  <2> QED BY <2>3, <2>4, <2>5
<1> QED BY <1>1

-----------------------------------------------------------------------------
(* Sums, as a loop computes them.                                          *)

\* The sum of f over 0 .. n - 1, as a loop computes it.
SumTo(f, n) ==
    LET upTo[i \in 0 .. n] == IF i = 0 THEN 0 ELSE upTo[i - 1] + f[i - 1] IN upTo[n]

\* The values that loop goes through.
Partial(s, f, n) ==
    s \in [0 .. n -> Int] /\ s[0] = 0 /\ \A i \in 1 .. n : s[i] = s[i - 1] + f[i - 1]

\* The summands.
Summands(f, n) == \A i \in 0 .. n - 1 : f[i] \in Int

\* Two sequences of partial sums of the same summands are equal.
LEMMA PartialUnique ==
  ASSUME NEW N \in Nat, NEW f, NEW g, NEW s, NEW u, Partial(s, f, N), Partial(u, g, N),
         \A i \in 0 .. N - 1 : f[i] = g[i]
  PROVE  \A i \in 0 .. N : s[i] = u[i]
<1> DEFINE T == {i \in 0 .. N : s[i] = u[i]}
<1>1. 0 \in T BY DEF Partial
<1>2. ASSUME NEW i \in 1 .. N, i - 1 \in T PROVE i \in T
  <2>1. i - 1 \in 0 .. N - 1 OBVIOUS
  <2>2. s[i] = s[i - 1] + f[i - 1] /\ u[i] = u[i - 1] + g[i - 1] BY DEF Partial
  <2> QED BY <1>2, <2>1, <2>2
<1> HIDE DEF T
<1>3. \A i \in 0 .. N : i \in T BY <1>1, <1>2, UpTo
<1> QED BY <1>3 DEF T

\* The loop goes through partial sums, and ends with the sum.
LEMMA SumIsPartial ==
  ASSUME NEW N \in Nat, NEW f, Summands(f, N)
  PROVE  \E s : Partial(s, f, N) /\ SumTo(f, N) = s[N]
<1>1. PICK G : G = [i \in 1 .. N |-> [x \in Int |-> x + f[i - 1]]] OBVIOUS
<1>2. StepsWithin(N, Int, G)
  <2>1. ASSUME NEW i \in 1 .. N PROVE f[i - 1] \in Int
    <3>1. i - 1 \in 0 .. N - 1 OBVIOUS
    <3> QED BY <3>1 DEF Summands
  <2>2. ASSUME NEW i \in 1 .. N PROVE G[i] \in [Int -> Int] BY <1>1, <2>1
  <2> QED BY <1>1, <2>2 DEF StepsWithin
<1>3. PICK s : Unfolds(s, N, Int, 0, G) BY <1>2, RecursionDefines
<1>4. Partial(s, f, N)
  <2>1. s \in [0 .. N -> Int] /\ s[0] = 0 /\ \A n \in 1 .. N : s[n] = G[n][s[n - 1]] BY <1>3 DEF Unfolds
  <2>2. ASSUME NEW i \in 1 .. N PROVE s[i] = s[i - 1] + f[i - 1]
    <3>1. i - 1 \in 0 .. N /\ s[i - 1] \in Int BY <2>1
    <3>2. G[i][s[i - 1]] = s[i - 1] + f[i - 1] BY <1>1, <3>1
    <3> QED BY <2>1, <3>2
  <2> QED BY <2>1, <2>2 DEF Partial
<1> DEFINE Loop(u) == u = [i \in 0 .. N |-> IF i = 0 THEN 0 ELSE u[i - 1] + f[i - 1]]
<1>5. Loop(s)
  <2>1. PICK t : t = [i \in 0 .. N |-> IF i = 0 THEN 0 ELSE s[i - 1] + f[i - 1]] OBVIOUS
  <2>2. ASSUME NEW i \in 0 .. N PROVE s[i] = t[i]
    <3>1. CASE i = 0 BY <1>4, <2>1, <3>1 DEF Partial
    <3>2. CASE i # 0
      <4>1. i \in 1 .. N BY <3>2
      <4> QED BY <1>4, <2>1, <3>2, <4>1 DEF Partial
    <3> QED BY <3>1, <3>2
  <2>3. DOMAIN s = 0 .. N /\ DOMAIN t = 0 .. N /\ s = [i \in DOMAIN s |-> s[i]] BY <1>4, <2>1 DEF Partial
  <2>4. s = t BY <2>1, <2>2, <2>3
  <2> QED BY <2>1, <2>4
<1>6. PICK c : c = CHOOSE u : Loop(u) OBVIOUS
<1>7. Loop(c) BY <1>5, <1>6
<1>8. SumTo(f, N) = c[N] BY <1>6 DEF SumTo
<1>9. Partial(c, f, N)
  <2>1. DOMAIN c = 0 .. N /\ c[0] = 0 /\ c = [i \in DOMAIN c |-> c[i]] BY <1>7
  <2>2. ASSUME NEW i \in 1 .. N PROVE c[i] = c[i - 1] + f[i - 1] BY <1>7
  <2> DEFINE T == {i \in 0 .. N : c[i] \in Int}
  <2>3. 0 \in T BY <2>1
  <2>4. ASSUME NEW i \in 1 .. N, i - 1 \in T PROVE i \in T
    <3>1. i - 1 \in 0 .. N - 1 OBVIOUS
    <3>2. f[i - 1] \in Int BY <3>1 DEF Summands
    <3> QED BY <2>2, <2>4, <3>2
  <2> HIDE DEF T
  <2>5. \A i \in 0 .. N : i \in T BY <2>3, <2>4, UpTo
  <2>6. \A i \in 0 .. N : c[i] \in Int BY <2>5 DEF T
  <2> HIDE DEF Loop
  <2>7. c \in [0 .. N -> Int] BY <2>1, <2>6
  <2> QED BY <2>1, <2>2, <2>7 DEF Partial
<1> QED BY <1>8, <1>9

\* A sum is a number.
LEMMA SumInt ==
  ASSUME NEW N \in Nat, NEW f, Summands(f, N)
  PROVE  SumTo(f, N) \in Int
<1>1. PICK s : Partial(s, f, N) /\ SumTo(f, N) = s[N] BY SumIsPartial
<1>2. N \in 0 .. N OBVIOUS
<1> QED BY <1>1, <1>2 DEF Partial

\* Nothing is added up in no steps.
LEMMA SumNone ==
  ASSUME NEW f
  PROVE  SumTo(f, 0) = 0
<1>1. Summands(f, 0) BY DEF Summands
<1>2. PICK s : Partial(s, f, 0) /\ SumTo(f, 0) = s[0] BY <1>1, SumIsPartial
<1> QED BY <1>2 DEF Partial

\* A sum depends on its summands only.
LEMMA SumSame ==
  ASSUME NEW N \in Nat, NEW f, NEW g, Summands(f, N), \A i \in 0 .. N - 1 : f[i] = g[i]
  PROVE  SumTo(f, N) = SumTo(g, N)
<1>1. Summands(g, N) BY DEF Summands
<1>2. PICK s : Partial(s, f, N) /\ SumTo(f, N) = s[N] BY SumIsPartial
<1>3. PICK u : Partial(u, g, N) /\ SumTo(g, N) = u[N] BY <1>1, SumIsPartial
<1>4. \A i \in 0 .. N : s[i] = u[i] BY <1>2, <1>3, PartialUnique
<1>5. N \in 0 .. N OBVIOUS
<1> QED BY <1>2, <1>3, <1>4, <1>5

\* One more summand.
LEMMA SumNext ==
  ASSUME NEW N \in Nat, NEW f, Summands(f, N + 1)
  PROVE  SumTo(f, N + 1) = SumTo(f, N) + f[N]
<1>1. N + 1 \in Nat /\ Summands(f, N) BY DEF Summands
<1>2. PICK s : Partial(s, f, N + 1) /\ SumTo(f, N + 1) = s[N + 1] BY <1>1, SumIsPartial
<1>3. PICK u : Partial(u, f, N) /\ SumTo(f, N) = u[N] BY <1>1, SumIsPartial
<1>4. PICK r : r = [i \in 0 .. N |-> s[i]] OBVIOUS
<1>5. Partial(r, f, N)
  <2>1. s \in [0 .. N + 1 -> Int] /\ s[0] = 0 /\ \A i \in 1 .. N + 1 : s[i] = s[i - 1] + f[i - 1]
    BY <1>2 DEF Partial
  <2>2. r \in [0 .. N -> Int] /\ r[0] = 0 BY <1>4, <2>1
  <2>3. ASSUME NEW i \in 1 .. N PROVE r[i] = r[i - 1] + f[i - 1]
    <3>1. i \in 0 .. N /\ i - 1 \in 0 .. N /\ i \in 1 .. N + 1 OBVIOUS
    <3> QED BY <1>4, <2>1, <3>1
  <2> QED BY <2>2, <2>3 DEF Partial
<1>6. N \in 0 .. N /\ r[N] = u[N] BY <1>3, <1>5, PartialUnique
<1>7. s[N + 1] = s[N] + f[N]
  <2>1. N + 1 \in 1 .. N + 1 /\ (N + 1) - 1 = N OBVIOUS
  <2> QED BY <1>2, <2>1 DEF Partial
<1> QED BY <1>2, <1>3, <1>4, <1>6, <1>7

\* A change of one summand changes the sum by as much.
LEMMA SumChange ==
  ASSUME NEW N \in Nat, NEW f, NEW g, Summands(f, N), NEW e \in 0 .. N - 1, g[e] \in Int,
         \A i \in 0 .. N - 1 : i # e => g[i] = f[i]
  PROVE  SumTo(g, N) = SumTo(f, N) + g[e] - f[e]
<1>1. Summands(g, N) BY DEF Summands
<1>2. PICK s : Partial(s, f, N) /\ SumTo(f, N) = s[N] BY SumIsPartial
<1>3. PICK u : Partial(u, g, N) /\ SumTo(g, N) = u[N] BY <1>1, SumIsPartial
<1>4. PICK d \in Int : d = g[e] - f[e] BY DEF Summands
<1> DEFINE T == {i \in 0 .. N : u[i] = s[i] + (IF i <= e THEN 0 ELSE d)}
<1>5. 0 \in T BY <1>2, <1>3 DEF Partial
<1>6. ASSUME NEW i \in 1 .. N, i - 1 \in T PROVE i \in T
  <2>1. i - 1 \in 0 .. N - 1 /\ i \in 0 .. N /\ i - 1 \in 0 .. N OBVIOUS
  <2>2. s[i] = s[i - 1] + f[i - 1] /\ u[i] = u[i - 1] + g[i - 1] BY <1>2, <1>3 DEF Partial
  <2>3. s[i - 1] \in Int /\ f[i - 1] \in Int BY <1>2, <2>1 DEF Partial, Summands
  <2>4. CASE i - 1 = e
    <3>1. u[i - 1] = s[i - 1] BY <1>6, <2>3, <2>4
    <3>2. g[i - 1] = f[i - 1] + d BY <1>4, <2>3, <2>4
    <3>3. u[i] = s[i] + d BY <1>4, <2>2, <2>3, <3>1, <3>2
    <3>4. ~(i <= e) BY <2>4
    <3> QED BY <2>1, <3>3, <3>4
  <2>5. CASE i - 1 < e
    <3>1. u[i - 1] = s[i - 1] BY <1>6, <2>3, <2>5
    <3>2. g[i - 1] = f[i - 1] BY <2>1, <2>5
    <3>3. u[i] = s[i] + 0 BY <2>2, <2>3, <3>1, <3>2
    <3>4. i <= e BY <2>5
    <3> QED BY <2>1, <3>3, <3>4
  <2>6. CASE i - 1 > e
    <3>1. u[i - 1] = s[i - 1] + d BY <1>6, <2>3, <2>6
    <3>2. g[i - 1] = f[i - 1] BY <2>1, <2>6
    <3>3. u[i] = s[i] + d BY <1>4, <2>2, <2>3, <3>1, <3>2
    <3>4. ~(i <= e) BY <2>6
    <3> QED BY <2>1, <3>3, <3>4
  <2> QED BY <2>4, <2>5, <2>6
<1> HIDE DEF T
<1>7. \A i \in 0 .. N : i \in T BY <1>5, <1>6, UpTo
<1>8. N \in 0 .. N /\ ~(N <= e) OBVIOUS
<1>9. u[N] = s[N] + d BY <1>7, <1>8 DEF T
<1>10. s[N] \in Int /\ f[e] \in Int BY <1>2, <1>8 DEF Partial, Summands
<1> QED BY <1>2, <1>3, <1>4, <1>9, <1>10

\* A sum of nothing but zeros.
LEMMA SumZeros ==
  ASSUME NEW N \in Nat, NEW f, \A i \in 0 .. N - 1 : f[i] = 0
  PROVE  SumTo(f, N) = 0
<1>1. Summands(f, N) BY DEF Summands
<1>2. PICK s : Partial(s, f, N) /\ SumTo(f, N) = s[N] BY <1>1, SumIsPartial
<1>3. PICK u : u = [i \in 0 .. N |-> 0] OBVIOUS
<1>4. Partial(u, f, N)
  <2>1. ASSUME NEW i \in 1 .. N PROVE u[i] = u[i - 1] + f[i - 1]
    <3>1. i - 1 \in 0 .. N - 1 OBVIOUS
    <3> QED BY <1>3, <3>1
  <2> QED BY <1>3, <2>1 DEF Partial
<1>5. N \in 0 .. N /\ s[N] = u[N] BY <1>2, <1>4, PartialUnique
<1> QED BY <1>2, <1>3, <1>5

\* A sum of natural numbers is one, and no summand is larger.
LEMMA SumBounds ==
  ASSUME NEW N \in Nat, NEW f, \A i \in 0 .. N - 1 : f[i] \in Nat
  PROVE  SumTo(f, N) \in Nat /\ \A e \in 0 .. N - 1 : f[e] <= SumTo(f, N)
<1>1. ASSUME NEW g, \A i \in 0 .. N - 1 : g[i] \in Nat PROVE SumTo(g, N) \in Nat
  <2>1. Summands(g, N) BY <1>1 DEF Summands
  <2>2. PICK s : Partial(s, g, N) /\ SumTo(g, N) = s[N] BY <2>1, SumIsPartial
  <2> DEFINE T == {i \in 0 .. N : s[i] \in Nat}
  <2>3. 0 \in T BY <2>2 DEF Partial
  <2>4. ASSUME NEW i \in 1 .. N, i - 1 \in T PROVE i \in T
    <3>1. i - 1 \in 0 .. N - 1 OBVIOUS
    <3>2. s[i] = s[i - 1] + g[i - 1] BY <2>2 DEF Partial
    <3>3. g[i - 1] \in Nat BY <1>1, <3>1
    <3> QED BY <2>4, <3>2, <3>3
  <2> HIDE DEF T
  <2>5. \A i \in 0 .. N : i \in T BY <2>3, <2>4, UpTo
  <2>6. N \in 0 .. N OBVIOUS
  <2> QED BY <2>2, <2>5, <2>6 DEF T
<1>2. ASSUME NEW e \in 0 .. N - 1 PROVE f[e] <= SumTo(f, N)
  <2>1. PICK g : g = [i \in 0 .. N - 1 |-> IF i = e THEN 0 ELSE f[i]] OBVIOUS
  <2>2. SumTo(g, N) \in Nat
    <3>1. \A i \in 0 .. N - 1 : g[i] \in Nat BY <2>1
    <3> QED BY <1>1, <3>1
  <2>3. Summands(f, N) /\ g[e] = 0 /\ \A i \in 0 .. N - 1 : i # e => g[i] = f[i]
    BY <2>1 DEF Summands
  <2>4. SumTo(g, N) = SumTo(f, N) + g[e] - f[e] BY <2>3, SumChange
  <2>5. SumTo(f, N) \in Nat /\ f[e] \in Nat BY <1>1
  <2> QED BY <2>2, <2>3, <2>4, <2>5
<1> QED BY <1>1, <1>2

\* An account that is kept up to date when one summand changes stays exact.
LEMMA SumFollows ==
  ASSUME NEW N \in Nat, NEW f, NEW g, \A i \in 0 .. N - 1 : f[i] \in Int /\ g[i] \in Int,
         NEW e \in 0 .. N - 1, \A i \in 0 .. N - 1 : i # e => g[i] = f[i],
         NEW k \in Int, NEW x, x = k + SumTo(f, N), NEW y, y = x + g[e] - f[e]
  PROVE  y = k + SumTo(g, N)
<1>1. Summands(f, N) BY DEF Summands
<1>2. PICK a \in Int, b \in Int : a = f[e] /\ b = g[e] OBVIOUS
<1>3. PICK c \in Int : c = SumTo(f, N) BY <1>1, SumInt
<1>4. SumTo(g, N) = c + b - a BY <1>1, <1>2, <1>3, SumChange
<1>5. y = (k + c) + b - a BY <1>2, <1>3
<1> QED BY <1>4, <1>5
-----------------------------------------------------------------------------
(* Open addressing with linear probing, the scheme of the symbol table and *)
(* of the handle remap table.  A table maps positions 0 .. cap - 1 to      *)
(* keys, or to e where it is empty; home maps a key to its hash.           *)

\* The position after k steps of a probe that starts at hash h.
Pos(h, k, cap) == (h + k) % cap

\* A probe from h comes to p without meeting an empty position before.
Reaches(tab, cap, e, h, p) ==
    \E k \in 0 .. cap - 1 :
        Pos(h, k, cap) = p /\ \A j \in 0 .. k - 1 : tab[Pos(h, j, cap)] # e

\* The table is one that probing can read: every key is entered once, at a
\* position a probe from its hash comes to.
ProbeTable(tab, cap, e, home) ==
    /\ DOMAIN tab = 0 .. cap - 1
    /\ \A p \in 0 .. cap - 1 : tab[p] # e =>
        tab[p] \in DOMAIN home /\ Reaches(tab, cap, e, home[tab[p]], p)
    /\ \A p, q \in 0 .. cap - 1 : tab[p] # e /\ tab[p] = tab[q] => p = q

\* The probe from h stops after k steps, at the first empty position or x.
Stops(tab, cap, e, h, x, k) ==
    /\ tab[Pos(h, k, cap)] \in {e, x}
    /\ \A j \in 0 .. k - 1 : tab[Pos(h, j, cap)] \notin {e, x}

\* A probe stays within the table.
LEMMA PosInTable ==
  ASSUME NEW cap \in Nat \ {0}, NEW h \in Nat, NEW k \in Nat
  PROVE  Pos(h, k, cap) \in 0 .. cap - 1
<1>1. PICK x \in Int : x = h + k OBVIOUS
<1> QED BY <1>1, ModType DEF Pos

\* A probe comes to every position.
LEMMA PosOnto ==
  ASSUME NEW cap \in Nat \ {0}, NEW h \in Nat, NEW p \in 0 .. cap - 1
  PROVE  \E k \in 0 .. cap - 1 : Pos(h, k, cap) = p
<1>1. PICK d \in Int, q \in 0 .. cap - 1 : q = h % cap /\ h = cap * d + q BY DivMod
<1>2. CASE q <= p
  <2>1. PICK k \in 0 .. cap - 1 : k = p - q BY <1>2
  <2>2. PICK y \in Int : y = h + k OBVIOUS
  <2>3. PICK m \in Int : m = cap * d OBVIOUS
  <2>4. y = m + p
    <3>1. h = m + q BY <1>1, <2>3
    <3> QED BY <2>1, <2>2, <3>1
  <2>5. y % cap = p BY <2>3, <2>4, ModIs
  <2> QED BY <2>2, <2>5 DEF Pos
<1>3. CASE p < q
  <2>1. PICK k \in 0 .. cap - 1 : k = p + cap - q BY <1>3
  <2>2. PICK d1 \in Int : d1 = d + 1 OBVIOUS
  <2>3. PICK m \in Int : m = cap * d1 OBVIOUS
  <2>4. PICK y \in Int : y = h + k OBVIOUS
  <2>5. y = m + p
    <3>1. h + cap = m + q BY <1>1, <2>2, <2>3
    <3> QED BY <2>1, <2>4, <3>1
  <2>6. y % cap = p BY <2>3, <2>5, ModIs
  <2> QED BY <2>4, <2>6 DEF Pos
<1> QED BY <1>2, <1>3

\* A probe that can stop does, at one place.
LEMMA ProbeStops ==
  ASSUME NEW cap \in Nat \ {0}, NEW h \in Nat, NEW tab, NEW e, NEW x,
         NEW p \in 0 .. cap - 1, tab[p] \in {e, x}
  PROVE  /\ \E k \in 0 .. cap - 1 : Stops(tab, cap, e, h, x, k)
         /\ \A k, m \in 0 .. cap - 1 : Stops(tab, cap, e, h, x, k) /\ Stops(tab, cap, e, h, x, m) => k = m
<1> DEFINE T == {k \in 0 .. cap - 1 : tab[Pos(h, k, cap)] \in {e, x}}
<1>1. T \in SUBSET Nat /\ T # {}
  <2>1. PICK k \in 0 .. cap - 1 : Pos(h, k, cap) = p BY PosOnto
  <2>2. k \in T BY <2>1
  <2> QED BY <2>2
<1>2. PICK k \in T : \A m \in T : k <= m BY <1>1, LeastNatural
<1>3. ASSUME NEW j \in 0 .. k - 1 PROVE tab[Pos(h, j, cap)] \notin {e, x}
  <2>1. j \in 0 .. cap - 1 /\ ~(k <= j) OBVIOUS
  <2> QED BY <1>2, <2>1
<1>4. Stops(tab, cap, e, h, x, k) BY <1>3 DEF Stops
<1>5. ASSUME NEW i \in 0 .. cap - 1, NEW m \in 0 .. cap - 1,
             Stops(tab, cap, e, h, x, i), Stops(tab, cap, e, h, x, m), i < m
      PROVE  FALSE
  <2>1. i \in 0 .. m - 1 BY <1>5
  <2> QED BY <1>5, <2>1 DEF Stops
<1>6. ASSUME NEW i \in 0 .. cap - 1, NEW m \in 0 .. cap - 1,
             Stops(tab, cap, e, h, x, i), Stops(tab, cap, e, h, x, m)
      PROVE  i = m
  <2>1. ~(i < m) /\ ~(m < i) BY <1>5, <1>6
  <2> QED BY <2>1
<1> QED BY <1>4, <1>6

\* The probe for a key that is entered stops where it is.
LEMMA ProbeFinds ==
  ASSUME NEW cap \in Nat \ {0}, NEW tab, NEW e, NEW home, ProbeTable(tab, cap, e, home),
         NEW p \in 0 .. cap - 1, tab[p] # e,
         NEW k \in 0 .. cap - 1, Stops(tab, cap, e, home[tab[p]], tab[p], k),
         home[tab[p]] \in Nat
  PROVE  Pos(home[tab[p]], k, cap) = p
<1> DEFINE h == home[tab[p]]
<1>1. PICK m \in 0 .. cap - 1 : Pos(h, m, cap) = p /\ \A j \in 0 .. m - 1 : tab[Pos(h, j, cap)] # e
  BY DEF ProbeTable, Reaches
<1>2. k <= m
  <2>1. SUFFICES ASSUME m < k PROVE FALSE OBVIOUS
  <2>2. m \in 0 .. k - 1 BY <2>1
  <2> QED BY <1>1, <2>2 DEF Stops
<1>3. CASE k = m BY <1>1, <1>3
<1>4. CASE k # m
  <2>1. k \in 0 .. m - 1 BY <1>2, <1>4
  <2>2. tab[Pos(h, k, cap)] = tab[p] BY <1>1, <2>1 DEF Stops
  <2>3. h \in Nat /\ k \in Nat OBVIOUS
  <2>4. Pos(h, k, cap) \in 0 .. cap - 1 BY <2>3, PosInTable
  <2> QED BY <2>2, <2>4 DEF ProbeTable
<1> QED BY <1>3, <1>4

\* A key entered at the empty position its probe stops at keeps the table one
\* that probing can read.
LEMMA ProbeInsert ==
  ASSUME NEW cap \in Nat \ {0}, NEW tab, NEW e, NEW home, ProbeTable(tab, cap, e, home),
         NEW x \in DOMAIN home, x # e, \A y \in DOMAIN home : home[y] \in Nat,
         \A p \in 0 .. cap - 1 : tab[p] # x,
         NEW k \in 0 .. cap - 1, tab[Pos(home[x], k, cap)] = e,
         \A j \in 0 .. k - 1 : tab[Pos(home[x], j, cap)] # e
  PROVE  ProbeTable([tab EXCEPT ![Pos(home[x], k, cap)] = x], cap, e, home)
<1>1. PICK q \in 0 .. cap - 1 : q = Pos(home[x], k, cap) BY PosInTable
<1>2. PICK new : new = [tab EXCEPT ![q] = x] OBVIOUS
<1>3. DOMAIN new = 0 .. cap - 1 /\ new[q] = x /\ \A p \in 0 .. cap - 1 : p # q => new[p] = tab[p]
  BY <1>2 DEF ProbeTable
<1>4. \A p \in 0 .. cap - 1 : tab[p] # e => new[p] # e BY <1>3
<1>5. ASSUME NEW p \in 0 .. cap - 1, new[p] # e
      PROVE  new[p] \in DOMAIN home /\ Reaches(new, cap, e, home[new[p]], p)
  <2>1. CASE p = q
    <3>1. ASSUME NEW j \in 0 .. k - 1 PROVE new[Pos(home[x], j, cap)] # e
      <4>1. j \in Nat /\ home[x] \in Nat OBVIOUS
      <4>2. Pos(home[x], j, cap) \in 0 .. cap - 1 BY <4>1, PosInTable
      <4> QED BY <1>4, <4>2
    <3> QED BY <1>1, <1>3, <2>1, <3>1 DEF Reaches
  <2>2. CASE p # q
    <3>1. new[p] = tab[p] /\ tab[p] # e BY <1>3, <1>5, <2>2
    <3>2. Reaches(tab, cap, e, home[tab[p]], p) /\ tab[p] \in DOMAIN home BY <3>1 DEF ProbeTable
    <3>3. PICK m \in 0 .. cap - 1 : /\ Pos(home[tab[p]], m, cap) = p
                                   /\ \A j \in 0 .. m - 1 : tab[Pos(home[tab[p]], j, cap)] # e
      BY <3>2 DEF Reaches
    <3>4. ASSUME NEW j \in 0 .. m - 1 PROVE new[Pos(home[tab[p]], j, cap)] # e
      <4>1. j \in Nat /\ home[tab[p]] \in Nat BY <3>2
      <4>2. Pos(home[tab[p]], j, cap) \in 0 .. cap - 1 BY <4>1, PosInTable
      <4> QED BY <1>4, <3>3, <4>2
    <3> QED BY <3>1, <3>2, <3>3, <3>4 DEF Reaches
  <2> QED BY <2>1, <2>2
<1>6. \A p, r \in 0 .. cap - 1 : new[p] # e /\ new[p] = new[r] => p = r BY <1>3 DEF ProbeTable
<1> QED BY <1>1, <1>2, <1>3, <1>5, <1>6 DEF ProbeTable
=============================================================================
