--------------------------- MODULE NumericRunProofs ---------------------------
(***************************************************************************)
(* Both back ends show what an expression over numbers means, for any      *)
(* widths of words that are powers of two, any numbers and any number of   *)
(* operators, conversions and assignments, except where NumericRun says    *)
(* that they do not.  The argument is one of low bits: a register holds    *)
(* a number congruent to the meant one, and the width it is read with      *)
(* decides whether that is the same.                                       *)
(***************************************************************************)
EXTENDS NumericRun, FiniteSetTheorems, TLAPS

-----------------------------------------------------------------------------
\* Numbers: least elements, induction, recursion and powers of two.

\* Every non-empty set of natural numbers has a least element, so that induction over
\* numbers is the search for the least counterexample.
LEMMA Least ==
    ASSUME NEW T, T \subseteq Nat, T # {}
    PROVE  \E x \in T : \A y \in T : x <= y
<1> DEFINE Sets == {1 .. n : n \in T}
<1>1. Sets \subseteq FiniteSubsetsOf(Nat)
  <2>1. SUFFICES ASSUME NEW n \in T PROVE 1 .. n \in FiniteSubsetsOf(Nat)
    OBVIOUS
  <2>2. n \in Int /\ 1 .. n \subseteq Nat
    OBVIOUS
  <2>3. IsFiniteSet(1 .. n)
    BY <2>2, FS_Interval
  <2>4. QED
    BY <2>2, <2>3 DEF FiniteSubsetsOf
<1>2. Sets # {}
  OBVIOUS
<1>3. IsWellFoundedOn(StrictSubsetOrdering(Nat), FiniteSubsetsOf(Nat))
  BY FS_StrictSubsetOrderingWellFounded
<1>4. PICK x \in Sets : \A y \in Sets : ~ (<<y, x>> \in StrictSubsetOrdering(Nat))
  <2> HIDE DEF Sets
  <2> QED
    BY <1>1, <1>2, <1>3, WFMin
<1>5. PICK n \in T : x = 1 .. n
  OBVIOUS
<1>6. ASSUME NEW m \in T, m < n
      PROVE  FALSE
  <2>1. 1 .. m \subseteq 1 .. n /\ 1 .. n \subseteq Nat /\ n \in 1 .. n /\ n \notin 1 .. m
    BY <1>6
  <2>2. <<1 .. m, 1 .. n>> \in StrictSubsetOrdering(Nat)
    BY <2>1 DEF StrictSubsetOrdering
  <2>3. QED
    BY <1>4, <1>5, <2>2
<1>7. QED
  BY <1>6

\* A set with 0 and the successor of each of its members has all natural numbers.
LEMMA Induction ==
    ASSUME NEW S, 0 \in S, \A n \in Nat : n \in S => n + 1 \in S
    PROVE  Nat \subseteq S
<1>1. SUFFICES ASSUME Nat \ S # {} PROVE FALSE
  OBVIOUS
<1>2. PICK n \in Nat \ S : \A m \in Nat \ S : n <= m
  BY <1>1, Least
<1>3. n # 0 /\ n - 1 \in Nat /\ ~(n <= n - 1)
  OBVIOUS
<1>4. n - 1 \in S
  BY <1>2, <1>3
<1>5. (n - 1) + 1 \in S
  BY <1>3, <1>4
<1>6. QED
  BY <1>2, <1>5

\* A definition by recursion over numbers: there is a function that takes each step.
Iterates(f, first, step) == f[0] = first /\ \A n \in Nat : f[n + 1] = step[n][f[n]]

\* There is one, for any first value and any step.
LEMMA Recursion ==
    ASSUME NEW D, NEW first \in D, NEW step \in [Nat -> [D -> D]]
    PROVE  \E f \in [Nat -> D] : Iterates(f, first, step)
<1> DEFINE IsUpTo(g, n) == g[0] = first /\ \A k \in 0 .. n - 1 : g[k + 1] = step[k][g[k]]
           Start(n) == \E g \in [0 .. n -> D] : IsUpTo(g, n)
           Agree(n) == \A m \in Nat : n <= m => \A g \in [0 .. n -> D], h \in [0 .. m -> D] :
                           IsUpTo(g, n) /\ IsUpTo(h, m) => g[n] = h[n]
<1>1. \A n \in Nat : Start(n)
  <2>1. Start(0)
    <3>1. [k \in 0 .. 0 |-> first] \in [0 .. 0 -> D] /\ IsUpTo([k \in 0 .. 0 |-> first], 0)
      OBVIOUS
    <3>2. QED
      BY <3>1
  <2>2. ASSUME NEW n \in Nat, Start(n) PROVE Start(n + 1)
    <3>1. PICK g \in [0 .. n -> D] : IsUpTo(g, n)
      BY <2>2
    <3> DEFINE h == [k \in 0 .. n + 1 |-> IF k = n + 1 THEN step[n][g[n]] ELSE g[k]]
    <3>2. step[n][g[n]] \in D
      OBVIOUS
    <3>3. h \in [0 .. n + 1 -> D]
      BY <3>2
    <3>4. h[0] = first
      BY <3>1
    <3>5. ASSUME NEW k \in 0 .. n PROVE h[k + 1] = step[k][h[k]]
      <4>1. CASE k = n
        BY <4>1
      <4>2. CASE k # n
        <5>1. k \in 0 .. n - 1 /\ k + 1 \in 0 .. n
          BY <4>2
        <5>2. QED
          BY <5>1, <3>1
      <4>3. QED
        BY <4>1, <4>2
    <3>6. (n + 1) - 1 = n
      OBVIOUS
    <3>7. IsUpTo(h, n + 1)
      <4> HIDE DEF h
      <4> QED BY <3>4, <3>5, <3>6
    <3>8. QED
      <4> HIDE DEF h, IsUpTo
      <4> QED BY <3>3, <3>7
  <2>3. QED
    <3> DEFINE S == {n \in Nat : Start(n)}
    <3> HIDE DEF Start
    <3>1. 0 \in S /\ \A n \in Nat : n \in S => n + 1 \in S
      BY <2>1, <2>2
    <3>2. Nat \subseteq S
      <4> HIDE DEF S
      <4> QED BY <3>1, Induction
    <3>3. QED
      BY <3>2
<1>2. \A n \in Nat : Agree(n)
  <2>1. Agree(0)
    OBVIOUS
  <2>2. ASSUME NEW n \in Nat, Agree(n) PROVE Agree(n + 1)
    <3>1. SUFFICES ASSUME NEW m \in Nat, n + 1 <= m, NEW g \in [0 .. n + 1 -> D], NEW h \in [0 .. m -> D],
                          IsUpTo(g, n + 1), IsUpTo(h, m)
                   PROVE  g[n + 1] = h[n + 1]
      OBVIOUS
    <3> DEFINE part == [k \in 0 .. n |-> g[k]]
    <3>2. part \in [0 .. n -> D] /\ part[n] = g[n] /\ part[0] = g[0]
      OBVIOUS
    <3>3. \A k \in 0 .. n - 1 : part[k + 1] = g[k + 1] /\ part[k] = g[k] /\ g[k + 1] = step[k][g[k]]
      BY <3>1
    <3>4. IsUpTo(part, n)
      BY <3>1, <3>2, <3>3
    <3>5. part[n] = h[n]
      <4>1. n <= m
        BY <3>1
      <4> HIDE DEF part, IsUpTo
      <4>2. QED
        BY <2>2, <3>1, <3>2, <3>4, <4>1
    <3>6. g[n + 1] = step[n][g[n]] /\ h[n + 1] = step[n][h[n]]
      BY <3>1
    <3>7. QED
      BY <3>2, <3>5, <3>6
  <2>3. QED
    <3> DEFINE S == {n \in Nat : Agree(n)}
    <3> HIDE DEF Agree
    <3>1. 0 \in S /\ \A n \in Nat : n \in S => n + 1 \in S
      BY <2>1, <2>2
    <3>2. Nat \subseteq S
      <4> HIDE DEF S
      <4> QED BY <3>1, Induction
    <3>3. QED
      BY <3>2
<1> DEFINE upTo == [n \in Nat |-> CHOOSE g \in [0 .. n -> D] : IsUpTo(g, n)]
           f == [n \in Nat |-> upTo[n][n]]
<1>3. ASSUME NEW n \in Nat PROVE upTo[n] \in [0 .. n -> D] /\ IsUpTo(upTo[n], n)
  <2>1. upTo[n] = CHOOSE g \in [0 .. n -> D] : IsUpTo(g, n)
    OBVIOUS
  <2>2. Start(n)
    BY <1>1
  <2> HIDE DEF IsUpTo, upTo
  <2>3. QED
    BY <2>1, <2>2
<1>4. \A n \in Nat : f[n] \in D /\ f[n] = upTo[n][n]
  <2> HIDE DEF upTo, IsUpTo
  <2> QED BY <1>3
<1>5. f[0] = first
  <2> HIDE DEF upTo
  <2> QED BY <1>3
<1>6. ASSUME NEW n \in Nat PROVE f[n + 1] = step[n][f[n]]
  <2> HIDE DEF upTo, f
  <2>1. n + 1 \in Nat /\ n <= n + 1 /\ n \in 0 .. (n + 1) - 1
    OBVIOUS
  <2>2. IsUpTo(upTo[n + 1], n + 1)
    BY <1>3, <2>1
  <2>3. upTo[n + 1][n + 1] = step[n][upTo[n + 1][n]]
    BY <2>1, <2>2
  <2>4. upTo[n][n] = upTo[n + 1][n]
    <3> HIDE DEF IsUpTo
    <3> QED BY <1>2, <1>3, <2>1
  <2>5. QED
    BY <1>4, <2>1, <2>3, <2>4
<1>7. f \in [Nat -> D]
  BY <1>4
<1>8. QED
  <2> HIDE DEF f
  <2>1. Iterates(f, first, step)
    BY <1>5, <1>6 DEF Iterates
  <2>2. QED
    BY <1>7, <2>1

\* The powers of two are what their recursive definition says.
LEMMA Powers ==
    /\ TwoTo[0] = 1
    /\ \A n \in Nat : TwoTo[n] \in Nat \ {0} /\ TwoTo[n + 1] = 2 * TwoTo[n]
<1> DEFINE R(g) == g = [n \in Nat |-> IF n = 0 THEN 1 ELSE 2 * g[n - 1]]
           twice == [n \in Nat |-> [x \in Nat |-> 2 * x]]
<1>1. twice \in [Nat -> [Nat -> Nat]] /\ \A n \in Nat, x \in Nat : twice[n][x] = 2 * x
  OBVIOUS
<1>2. PICK f \in [Nat -> Nat] : Iterates(f, 1, twice)
  <2>1. 1 \in Nat /\ twice \in [Nat -> [Nat -> Nat]]
    BY <1>1
  <2> HIDE DEF twice
  <2>2. QED
    BY <2>1, Recursion
<1>3. \A n \in Nat : n # 0 => n - 1 \in Nat /\ (n - 1) + 1 = n
  OBVIOUS
<1>4. \A n \in Nat : f[n] = IF n = 0 THEN 1 ELSE 2 * f[n - 1]
  <2> HIDE DEF twice
  <2>1. SUFFICES ASSUME NEW n \in Nat PROVE f[n] = IF n = 0 THEN 1 ELSE 2 * f[n - 1]
    OBVIOUS
  <2>2. CASE n = 0
    BY <1>2, <2>2 DEF Iterates
  <2>3. CASE n # 0
    <3>1. f[(n - 1) + 1] = twice[n - 1][f[n - 1]] /\ f[n - 1] \in Nat
      BY <1>2, <1>3, <2>3 DEF Iterates
    <3>2. QED
      BY <1>1, <1>3, <2>3, <3>1
  <2>4. QED
    BY <2>2, <2>3
<1>5. R(f)
  BY <1>4
<1>6. TwoTo = CHOOSE g : R(g)
  BY DEF TwoTo
<1>7. R(TwoTo)
  <2> HIDE DEF R
  <2> QED BY <1>5, <1>6
<1>8. TwoTo[0] = 1 /\ \A n \in Nat : TwoTo[n + 1] = 2 * TwoTo[n]
  <2>1. \A n \in Nat : TwoTo[n] = IF n = 0 THEN 1 ELSE 2 * TwoTo[n - 1]
    BY <1>7
  <2>2. \A n \in Nat : n + 1 \in Nat /\ n + 1 # 0 /\ (n + 1) - 1 = n
    OBVIOUS
  <2>3. QED
    BY <2>1, <2>2
<1> DEFINE S == {n \in Nat : TwoTo[n] \in Nat \ {0}}
<1>9. 0 \in S /\ \A n \in Nat : n \in S => n + 1 \in S
  BY <1>8
<1>10. Nat \subseteq S
  <2> HIDE DEF S
  <2> QED BY <1>9, Induction
<1>11. QED
  BY <1>8, <1>10

\* A power of a sum is a product of powers.
LEMMA PowerSum == \A m, n \in Nat : TwoTo[m + n] = TwoTo[m] * TwoTo[n]
<1>1. SUFFICES ASSUME NEW m \in Nat PROVE \A n \in Nat : TwoTo[m + n] = TwoTo[m] * TwoTo[n]
  OBVIOUS
<1> DEFINE S == {n \in Nat : TwoTo[m + n] = TwoTo[m] * TwoTo[n]}
<1>2. 0 \in S
  BY Powers
<1>3. ASSUME NEW n \in Nat, n \in S PROVE n + 1 \in S
  <2>1. m + n \in Nat /\ (m + n) + 1 = m + (n + 1)
    OBVIOUS
  <2>2. TwoTo[m + (n + 1)] = 2 * TwoTo[m + n] /\ TwoTo[n + 1] = 2 * TwoTo[n]
    BY <2>1, Powers
  <2>3. TwoTo[m] \in Nat /\ TwoTo[n] \in Nat
    BY Powers
  <2>4. TwoTo[m + n] = TwoTo[m] * TwoTo[n]
    BY <1>3
  <2>5. 2 * (TwoTo[m] * TwoTo[n]) = TwoTo[m] * (2 * TwoTo[n])
    BY <2>3
  <2>6. QED
    BY <2>2, <2>4, <2>5
<1>4. Nat \subseteq S
  <2> HIDE DEF S
  <2> QED BY <1>2, <1>3, Induction
<1>5. QED
  BY <1>4

\* A larger power is a multiple of a smaller one.
LEMMA PowerDivides ==
    ASSUME NEW m \in Nat, NEW n \in Nat, m <= n
    PROVE  /\ \E k \in Nat \ {0} : TwoTo[n] = k * TwoTo[m]
           /\ TwoTo[m] <= TwoTo[n]
<1>1. n - m \in Nat /\ m + (n - m) = n
  OBVIOUS
<1>2. TwoTo[n] = TwoTo[m] * TwoTo[n - m]
  BY <1>1, PowerSum
<1>3. PICK p, k \in Nat \ {0} : p = TwoTo[m] /\ k = TwoTo[n - m]
  BY <1>1, Powers
<1>4. p * k = k * p /\ p <= k * p
  OBVIOUS
<1>5. QED
  BY <1>2, <1>3, <1>4

-----------------------------------------------------------------------------
\* Congruence.
Congruent(a, b, m) == \E k \in Int : a = b + k * m

\* A number is congruent to itself,
LEMMA CongruentAlways ==
    ASSUME NEW a \in Int, NEW m \in Int
    PROVE  Congruent(a, a, m)
<1>1. 0 \in Int /\ a = a + 0 * m
  OBVIOUS
<1>2. QED
  BY <1>1 DEF Congruent

\* to what is congruent to it,
LEMMA CongruentBack ==
    ASSUME NEW a \in Int, NEW b \in Int, NEW m \in Int, Congruent(a, b, m)
    PROVE  Congruent(b, a, m)
<1>1. PICK k \in Int : a = b + k * m
  BY DEF Congruent
<1>2. -k \in Int /\ b = a + (-k) * m
  BY <1>1
<1>3. QED
  BY <1>2 DEF Congruent

\* and to what that is congruent to.
LEMMA CongruentOn ==
    ASSUME NEW a \in Int, NEW b \in Int, NEW c \in Int, NEW m \in Int, Congruent(a, b, m), Congruent(b, c, m)
    PROVE  Congruent(a, c, m)
<1>1. PICK k \in Int : a = b + k * m
  BY DEF Congruent
<1>2. PICK j \in Int : b = c + j * m
  BY DEF Congruent
<1>3. k + j \in Int /\ a = c + (k + j) * m
  BY <1>1, <1>2
<1>4. QED
  BY <1>3 DEF Congruent

\* Sums and differences of congruent numbers are congruent,
LEMMA CongruentSum ==
    ASSUME NEW a \in Int, NEW b \in Int, NEW c \in Int, NEW d \in Int, NEW m \in Int,
           Congruent(a, c, m), Congruent(b, d, m)
    PROVE  Congruent(a + b, c + d, m) /\ Congruent(a - b, c - d, m)
<1>1. PICK k \in Int : a = c + k * m
  BY DEF Congruent
<1>2. PICK j \in Int : b = d + j * m
  BY DEF Congruent
<1>3. k + j \in Int /\ a + b = c + d + (k + j) * m /\ k - j \in Int /\ a - b = c - d + (k - j) * m
  BY <1>1, <1>2
<1>4. QED
  BY <1>3 DEF Congruent

\* and so are their products.
LEMMA CongruentProduct ==
    ASSUME NEW a \in Int, NEW b \in Int, NEW c \in Int, NEW d \in Int, NEW m \in Int,
           Congruent(a, c, m), Congruent(b, d, m)
    PROVE  Congruent(a * b, c * d, m)
<1>1. PICK k \in Int : a = c + k * m
  BY DEF Congruent
<1>2. PICK j \in Int : b = d + j * m
  BY DEF Congruent
<1>3. a * b = c * d + (c * j + d * k + k * j * m) * m
  BY <1>1, <1>2
<1>4. c * j + d * k + k * j * m \in Int
  OBVIOUS
<1>5. QED
  BY <1>3, <1>4 DEF Congruent

\* Congruence for a multiple of m is congruence for m.
LEMMA CongruentFiner ==
    ASSUME NEW a \in Int, NEW b \in Int, NEW m \in Int, NEW k \in Int, Congruent(a, b, k * m)
    PROVE  Congruent(a, b, m)
<1>1. PICK j \in Int : a = b + j * (k * m)
  BY DEF Congruent
<1>2. j * k \in Int /\ j * (k * m) = (j * k) * m
  OBVIOUS
<1>3. QED
  BY <1>1, <1>2 DEF Congruent

\* A remainder is below the divisor and congruent to the number.
LEMMA Remainders ==
    ASSUME NEW a \in Int, NEW m \in Nat \ {0}
    PROVE  /\ a % m \in Nat /\ a % m < m /\ a \div m \in Int
           /\ Congruent(a % m, a, m)
           /\ 0 <= a /\ a < m => a % m = a
<1>1. a % m \in 0 .. m - 1 /\ a \div m \in Int
  OBVIOUS
<1>2. a = (a \div m) * m + (a % m)
  OBVIOUS
<1>3. -(a \div m) \in Int /\ a % m = a + (-(a \div m)) * m
  BY <1>1, <1>2
<1>4. 0 <= a /\ a < m => a % m = a
  OBVIOUS
<1>5. Congruent(a % m, a, m)
  BY <1>3 DEF Congruent
<1>6. QED
  BY <1>1, <1>4, <1>5

\* Congruent numbers have the same remainder.
LEMMA SameRemainder ==
    ASSUME NEW a \in Int, NEW b \in Int, NEW m \in Nat \ {0}, Congruent(a, b, m)
    PROVE  a % m = b % m
<1>1. PICK k \in Int : a = b + k * m
  BY DEF Congruent
<1>2. b = (b \div m) * m + (b % m) /\ b \div m \in Int /\ b % m \in 0 .. m - 1
  OBVIOUS
<1>3. (b \div m) + k \in Int /\ a = ((b \div m) + k) * m + (b % m)
  BY <1>1, <1>2
<1>4. \A q \in Int, r \in 0 .. m - 1 : a = q * m + r => a % m = r
  OBVIOUS
<1>5. QED
  BY <1>2, <1>3, <1>4

-----------------------------------------------------------------------------
\* Words.

\* A word has one bit or more: twice as many patterns as without its highest bit.
LEMMA Words ==
    ASSUME NEW w \in Nat \ {0}
    PROVE  /\ w - 1 \in Nat /\ TwoTo[w] \in Nat \ {0} /\ TwoTo[w - 1] \in Nat \ {0}
           /\ TwoTo[w] = 2 * TwoTo[w - 1]
<1>1. w - 1 \in Nat /\ (w - 1) + 1 = w
  OBVIOUS
<1>2. QED
  BY <1>1, Powers

\* The low bits of a number, read without a sign.
LEMMA PatternIs ==
    ASSUME NEW n \in Int, NEW w \in Nat
    PROVE  /\ Pattern(n, w) \in Nat /\ Pattern(n, w) < TwoTo[w]
           /\ Congruent(Pattern(n, w), n, TwoTo[w])
           /\ 0 <= n /\ n < TwoTo[w] => Pattern(n, w) = n
BY Powers, Remainders DEF Pattern

\* Numbers with the same low bits have the same pattern.
LEMMA SamePattern ==
    ASSUME NEW a \in Int, NEW b \in Int, NEW w \in Nat, Congruent(a, b, TwoTo[w])
    PROVE  Pattern(a, w) = Pattern(b, w)
BY Powers, SameRemainder DEF Pattern

\* The low bits of a number, read with a sign.
LEMMA SignedIs ==
    ASSUME NEW n \in Int, NEW w \in Nat \ {0}
    PROVE  /\ Signed(n, w) \in Int /\ -TwoTo[w - 1] <= Signed(n, w) /\ Signed(n, w) < TwoTo[w - 1]
           /\ Congruent(Signed(n, w), n, TwoTo[w])
           /\ -TwoTo[w - 1] <= n /\ n < TwoTo[w - 1] => Signed(n, w) = n
<1>w. w \in Nat /\ Pattern(n, w) \in Nat /\ Pattern(n, w) < TwoTo[w] /\ Congruent(Pattern(n, w), n, TwoTo[w])
  BY PatternIs
<1>1. PICK h \in Nat \ {0}, p \in Nat : h = TwoTo[w - 1] /\ p = Pattern(n, w) /\ TwoTo[w] = 2 * h
  BY <1>w, Words
<1>2. p < 2 * h /\ Congruent(p, n, 2 * h)
  BY <1>w, <1>1
<1>3. Signed(n, w) = IF p >= h THEN p - 2 * h ELSE p
  BY <1>1 DEF Signed
<1>4. Signed(n, w) \in Int /\ -h <= Signed(n, w) /\ Signed(n, w) < h
  BY <1>2, <1>3
<1>5. Congruent(Signed(n, w), p, 2 * h)
  <2>1. CASE p >= h
    <3>1. -1 \in Int /\ p - 2 * h = p + (-1) * (2 * h)
      OBVIOUS
    <3>2. QED
      BY <1>3, <2>1, <3>1 DEF Congruent
  <2>2. CASE ~(p >= h)
    BY <1>3, <2>2, CongruentAlways
  <2>3. QED
    BY <2>1, <2>2
<1>6. Congruent(Signed(n, w), n, 2 * h)
  <2>1. 2 * h \in Int
    OBVIOUS
  <2>2. QED
    BY <1>2, <1>4, <1>5, <2>1, CongruentOn
<1>7. ASSUME -h <= n, n < h
      PROVE  Signed(n, w) = n
  <2>1. PICK k \in Int : p = n + k * (2 * h)
    BY <1>2 DEF Congruent
  <2>2. k = 0 \/ k = 1
    BY <1>2, <1>7, <2>1
  <2>3. QED
    BY <1>2, <1>3, <1>7, <2>1, <2>2
<1>8. QED
  BY <1>1, <1>4, <1>6, <1>7

\* Numbers with the same low bits mean the same with a sign.
LEMMA SameSigned ==
    ASSUME NEW a \in Int, NEW b \in Int, NEW w \in Nat, Congruent(a, b, TwoTo[w])
    PROVE  Signed(a, w) = Signed(b, w)
BY SamePattern DEF Signed

-----------------------------------------------------------------------------
\* Kinds and their ranges.

\* The bits of the register a number of kind t is in.
Register(t) == RegisterBits(Is128BitInteger(t))

\* What the assumption on the widths says of each kind.
LEMMA Widths ==
    /\ NarrowBits \in Nat /\ WordBits \in Nat /\ WideBits \in Nat
    /\ 1 < NarrowBits /\ NarrowBits < WordBits /\ WordBits < WideBits
    /\ Bits["bool"] = 1
    /\ \A t \in {"i8", "u8"} : Bits[t] = NarrowBits /\ Register(t) = WordBits
    /\ \A t \in {"i64", "u64"} : Bits[t] = WordBits /\ Register(t) = WordBits
    /\ \A t \in {"i128", "u128"} : Bits[t] = WideBits /\ Register(t) = WideBits
    /\ Register("bool") = WordBits
<1>1. NarrowBits \in Nat /\ WordBits \in Nat /\ WideBits \in Nat
      /\ 1 < NarrowBits /\ NarrowBits < WordBits /\ WordBits < WideBits
  BY WidthsAssumption
<1>2. \A t \in IntegerKinds \cup {"bool"} :
          Bits[t] = CASE t = "bool" -> 1
                      [] t \in {"i8", "u8"} -> NarrowBits
                      [] t \in {"i64", "u64"} -> WordBits
                      [] t \in {"i128", "u128"} -> WideBits
  BY DEF Bits
<1>3. {"i8", "u8", "i64", "u64", "i128", "u128", "bool"} = IntegerKinds \cup {"bool"}
  BY DEF IntegerKinds, SignedKinds, UnsignedKinds
<1>4. Bits["bool"] = 1
  BY <1>2
<1>5. \A t \in {"i8", "u8"} : Bits[t] = NarrowBits
  BY <1>2, <1>3
<1>6. \A t \in {"i64", "u64"} : Bits[t] = WordBits
  BY <1>2, <1>3
<1>7. \A t \in {"i128", "u128"} : Bits[t] = WideBits
  BY <1>2, <1>3
<1>8. /\ \A t \in {"i8", "u8", "i64", "u64", "bool"} : Register(t) = WordBits
      /\ \A t \in {"i128", "u128"} : Register(t) = WideBits
  BY DEF Register, RegisterBits, Is128BitInteger
<1>9. QED
  BY <1>1, <1>4, <1>5, <1>6, <1>7, <1>8

\* The bits of a kind go into its register; those of a narrow kind leave room.
LEMMA KindBits ==
    ASSUME NEW t \in IntegerKinds \cup {"bool"}
    PROVE  /\ Bits[t] \in Nat \ {0} /\ Register(t) \in Nat \ {0}
           /\ Bits[t] <= Register(t)
           /\ t # "bool" /\ ~Narrow(t) => Bits[t] = Register(t)
           /\ Narrow(t) => Bits[t] + 1 <= Register(t) /\ ~Is128BitInteger(t)
<1>1. t \in {"i8", "u8", "i64", "u64", "i128", "u128", "bool"}
  BY DEF IntegerKinds, SignedKinds, UnsignedKinds
<1>2. QED
  BY <1>1, Widths DEF Narrow, Is128BitInteger

\* The range of a kind in a register of at least its width: what is read from the
\* register is the number, read without a sign when the kind has none.
LEMMA SignedRange ==
    ASSUME NEW t \in SignedKinds, NEW n \in Int, Fits(n, t), NEW w \in Nat, Bits[t] <= w
    PROVE  /\ Signed(n, w) = n
           /\ 0 <= n => Pattern(n, w) = n
<1>1. t \in IntegerKinds /\ t # "bool"
  BY DEF IntegerKinds, SignedKinds
<1>2. Bits[t] \in Nat \ {0} /\ w \in Nat \ {0}
  BY <1>1, KindBits
<1>3. Bits[t] - 1 \in Nat /\ w - 1 \in Nat /\ Bits[t] - 1 <= w - 1
  BY <1>2
<1>4. TwoTo[Bits[t] - 1] <= TwoTo[w - 1] /\ TwoTo[w] = 2 * TwoTo[w - 1]
  BY <1>2, <1>3, PowerDivides, Words
<1>5. -TwoTo[Bits[t] - 1] <= n /\ n <= TwoTo[Bits[t] - 1] - 1
  BY DEF Fits, Lowest, Highest
<1>6. PICK p, q, v \in Nat : p = TwoTo[Bits[t] - 1] /\ q = TwoTo[w - 1] /\ v = TwoTo[w]
  BY <1>2, <1>3, Powers
<1>7. -q <= n /\ n < q /\ n < v
  BY <1>4, <1>5, <1>6
<1>8. QED
  BY <1>2, <1>6, <1>7, SignedIs, PatternIs

\* The same for a kind without a sign, read without one.
LEMMA UnsignedRange ==
    ASSUME NEW t \in UnsignedKinds, NEW n \in Int, Fits(n, t), NEW w \in Nat, Bits[t] <= w
    PROVE  /\ 0 <= n /\ Pattern(n, w) = n /\ Pattern(Signed(n, w), w) = n
           /\ Bits[t] < w => Signed(n, w) = n
<1>1. t \in IntegerKinds /\ t \notin SignedKinds /\ t # "bool"
  BY DEF IntegerKinds, SignedKinds, UnsignedKinds
<1>2. Bits[t] \in Nat \ {0} /\ w \in Nat \ {0}
  BY <1>1, KindBits
<1>3. 0 <= n /\ n <= TwoTo[Bits[t]] - 1
  BY <1>1 DEF Fits, Lowest, Highest
<1>4. PICK p, q, h \in Nat : p = TwoTo[Bits[t]] /\ q = TwoTo[w] /\ h = TwoTo[w - 1]
  BY <1>2, Powers, Words
<1>5. p <= q /\ (Bits[t] < w => p <= h)
  <2>1. Bits[t] < w => Bits[t] <= w - 1
    BY <1>2
  <2>2. QED
    BY <1>2, <1>4, <2>1, PowerDivides, Words
<1>6. n < q /\ (Bits[t] < w => -h <= n /\ n < h)
  BY <1>3, <1>4, <1>5
<1>7. Pattern(n, w) = n
  BY <1>3, <1>4, <1>6, PatternIs
<1>8. Pattern(Signed(n, w), w) = Pattern(n, w)
  BY <1>2, SignedIs, SamePattern
<1>9. Bits[t] < w => Signed(n, w) = n
  BY <1>2, <1>4, <1>6, SignedIs
<1>10. QED
  BY <1>3, <1>7, <1>8, <1>9

\* Reducing a number to a kind gives one that fits it and has the same low bits.
LEMMA ReducedIs ==
    ASSUME NEW t \in IntegerKinds, NEW n \in Int
    PROVE  /\ Reduced(n, t) \in Int /\ Fits(Reduced(n, t), t)
           /\ Congruent(Reduced(n, t), n, TwoTo[Bits[t]])
           /\ Fits(n, t) => Reduced(n, t) = n
<1>1. Bits[t] \in Nat \ {0}
  BY KindBits
<1>2. CASE t \in SignedKinds
  <2>1. Reduced(n, t) = Signed(n, Bits[t])
    BY <1>2 DEF Reduced
  <2>2. PICK h \in Nat : h = TwoTo[Bits[t] - 1]
    BY <1>1, Words
  <2>3. /\ Signed(n, Bits[t]) \in Int /\ -h <= Signed(n, Bits[t]) /\ Signed(n, Bits[t]) < h
        /\ Congruent(Signed(n, Bits[t]), n, TwoTo[Bits[t]])
    BY <1>1, <2>2, SignedIs
  <2>4. Signed(n, Bits[t]) <= h - 1
    BY <2>3
  <2>5. Fits(n, t) => Signed(n, Bits[t]) = n
    BY <1>1, <1>2, SignedRange
  <2>6. QED
    BY <1>2, <2>1, <2>2, <2>3, <2>4, <2>5 DEF Fits, Lowest, Highest
<1>3. CASE t \notin SignedKinds
  <2>1. Reduced(n, t) = Pattern(n, Bits[t]) /\ t \in UnsignedKinds
    BY <1>3 DEF Reduced, IntegerKinds
  <2>2. PICK p \in Nat : p = TwoTo[Bits[t]]
    BY <1>1, Powers
  <2>3. /\ Pattern(n, Bits[t]) \in Nat /\ Pattern(n, Bits[t]) < p
        /\ Congruent(Pattern(n, Bits[t]), n, TwoTo[Bits[t]])
    BY <1>1, <2>2, PatternIs
  <2>4. Pattern(n, Bits[t]) <= p - 1 /\ 0 <= Pattern(n, Bits[t])
    BY <2>2, <2>3
  <2>5. Fits(n, t) => Pattern(n, Bits[t]) = n
    BY <1>1, <2>1, UnsignedRange
  <2>6. QED
    BY <1>3, <2>1, <2>2, <2>3, <2>4, <2>5 DEF Fits, Lowest, Highest
<1>4. QED
  BY <1>2, <1>3

\* What fits a kind fits all that it may be widened to.
LEMMA WideningKeeps ==
    ASSUME NEW s \in IntegerKinds, NEW t \in IntegerKinds, WideningIntOK(s, t), NEW n \in Int, Fits(n, s)
    PROVE  Fits(n, t)
<1>1. Bits[s] \in Nat \ {0} /\ Bits[t] \in Nat \ {0} /\ Bits[s] <= Bits[t]
  BY KindBits DEF WideningIntOK
<1>2. CASE s \in SignedKinds
  <2>1. t \in SignedKinds
    BY <1>2 DEF WideningIntOK, SignedKinds, UnsignedKinds
  <2>2. Signed(n, Bits[t]) = n
    BY <1>1, <1>2, SignedRange
  <2>3. Reduced(n, t) = n
    BY <2>1, <2>2 DEF Reduced
  <2>4. QED
    BY <2>3, ReducedIs
<1>3. CASE s \in UnsignedKinds
  <2>1. Pattern(n, Bits[t]) = n /\ (Bits[s] < Bits[t] => Signed(n, Bits[t]) = n)
    BY <1>1, <1>3, UnsignedRange
  <2>2. s \notin SignedKinds
    BY <1>3 DEF SignedKinds, UnsignedKinds
  <2>3. t \in SignedKinds => Bits[s] < Bits[t]
    BY <1>1, <2>2 DEF WideningIntOK
  <2>4. Reduced(n, t) = n
    BY <2>1, <2>3 DEF Reduced
  <2>5. QED
    BY <2>4, ReducedIs
<1>4. QED
  BY <1>2, <1>3 DEF IntegerKinds

-----------------------------------------------------------------------------
\* Ratios.

\* The fields of a whole number.
LEMMA WholeIs == \A n : Whole(n).num = n /\ Whole(n).den = 1
BY DEF Whole

\* Quotients and remainders of integers are integers.
LEMMA QuotientIs ==
    ASSUME NEW a \in Int, NEW b \in Int
    PROVE  Quotient(a, b) \in Int /\ Remainder(a, b) \in Int /\ Quotient(a, 1) = a
<1>1. \A n \in Int : Abs(n) \in Nat /\ Sign(n) \in {-1, 1} /\ (n # 0 => Abs(n) # 0) /\ Sign(n) * Abs(n) = n
  BY DEF Abs, Sign
<1>2. b # 0 => Abs(a) \div Abs(b) \in Int
  BY <1>1
<1>3. Quotient(a, b) \in Int
  BY <1>1, <1>2 DEF Quotient
<1>4. Abs(1) = 1 /\ Sign(1) = 1
  BY DEF Abs, Sign
<1>5. \A n \in Nat : n \div 1 = n
  OBVIOUS
<1>6. Quotient(a, 1) = Sign(a) * 1 * Abs(a)
  BY <1>1, <1>4, <1>5 DEF Quotient
<1>7. QED
  BY <1>1, <1>3, <1>6 DEF Remainder

\* A truncated ratio is an integer, and a whole number stays what it is.
LEMMA TruncatedIs ==
    ASSUME NEW x, x.num \in Int, x.den \in Int
    PROVE  Truncated(x) \in Int /\ (x.den = 1 => Truncated(x) = x.num)
BY QuotientIs DEF Truncated

\* A ratio has an integer over a positive one, whatever its divisor; over one it is whole.
LEMMA RatioIs ==
    ASSUME NEW n \in Int, NEW d \in Int
    PROVE  Ratio(n, d).num \in Int /\ Ratio(n, d).den \in Nat \ {0} /\ Ratio(n, 1) = Whole(n)
<1> DEFINE dens == {k \in 1 .. Abs(d) : (n * k) % Abs(d) = 0}
           den == CHOOSE k \in dens : \A j \in dens : k <= j
<1>1. ASSUME d = 0
      PROVE  Ratio(n, d).num \in Int /\ Ratio(n, d).den \in Nat \ {0}
  <2>1. Ratio(n, d) = Whole(0)
    BY <1>1 DEF Ratio
  <2>2. QED
    BY <2>1, WholeIs
<1>2. ASSUME d # 0
      PROVE  Ratio(n, d).num \in Int /\ Ratio(n, d).den \in Nat \ {0}
  <2>1. Abs(d) \in Nat \ {0} /\ Sign(d) \in Int
    BY <1>2 DEF Abs, Sign
  <2>2. Abs(d) \in dens
    <3>1. \A m \in Nat \ {0} : (n * m) % m = 0
      <4>1. SUFFICES ASSUME NEW m \in Nat \ {0} PROVE (n * m) % m = 0
        OBVIOUS
      <4>2. n * m = 0 + n * m /\ 0 \in Int /\ n * m \in Int
        OBVIOUS
      <4>3. Congruent(n * m, 0, m)
        BY <4>2 DEF Congruent
      <4>4. 0 % m = 0
        BY Remainders
      <4>5. QED
        BY <4>2, <4>3, <4>4, SameRemainder
    <3>2. QED
      BY <2>1, <3>1
  <2>3. dens \subseteq Nat /\ dens # {}
    BY <2>1, <2>2
  <2>4. \E k \in dens : \A j \in dens : k <= j
    <3> HIDE DEF dens
    <3> QED BY <2>3, Least
  <2>5. den \in dens
    <3> HIDE DEF dens
    <3> QED BY <2>4
  <2>6. den \in 1 .. Abs(d)
    <3> HIDE DEF den
    <3> QED BY <2>5
  <2>7. Ratio(n, d) = [num |-> Sign(d) * ((n * den) \div Abs(d)), den |-> den]
    BY <1>2 DEF Ratio
  <2>8. (n * den) \div Abs(d) \in Int
    <3> HIDE DEF den
    <3>1. n * den \in Int
      BY <2>1, <2>6
    <3>2. QED
      BY <2>1, <3>1, Remainders
  <2>9. QED
    <3> HIDE DEF den
    <3> QED BY <2>1, <2>6, <2>7, <2>8
<1>3. Ratio(n, 1) = Whole(n)
  <2> DEFINE ones == {k \in 1 .. 1 : (n * k) % 1 = 0}
  <2>1. Abs(1) = 1 /\ Sign(1) = 1
    BY DEF Abs, Sign
  <2>2. \A m \in Int : m % 1 = 0 /\ m \div 1 = m
    OBVIOUS
  <2>3. ones = {1}
    BY <2>2
  <2>4. (CHOOSE k \in ones : \A j \in ones : k <= j) = 1
    BY <2>3
  <2>5. Ratio(n, 1) = [num |-> 1 * ((n * 1) \div 1), den |-> 1]
    BY <2>1, <2>4 DEF Ratio
  <2>6. 1 * ((n * 1) \div 1) = n
    BY <2>2
  <2>7. QED
    BY <2>5, <2>6 DEF Whole
<1>4. QED
  BY <1>1, <1>2, <1>3

-----------------------------------------------------------------------------
\* A value is what it means, a number that fits its type; it is right in a back
\* end when the back end keeps that number as it keeps numbers of the type.

Meant(x) ==
    /\ x.type \in Types /\ x.literal \in BOOLEAN
    /\ x.means.num \in Int /\ x.means.den \in Nat \ {0}
    /\ x.type \in IntegerKinds => x.means = Whole(x.means.num) /\ Fits(x.means.num, x.type)
    /\ x.type = "bool" => ~x.literal /\ x.means \in {Whole(0), Whole(1)}

VmRight(x) ==
    /\ x.type \in IntegerKinds => x.vm = Signed(x.means.num, Register(x.type))
    /\ x.type = "bool" => x.vm \in Int /\ (x.vm = 0 <=> x.means.num = 0)
    /\ x.type = "f64" => x.vm = x.means

LlvmRight(x) ==
    /\ x.type \in IntegerKinds \cup {"bool"} => x.llvm = Signed(x.means.num, Bits[x.type])
    /\ x.type = "f64" => x.llvm = x.means

\* A literal of the program fits the integers that the lexer reads.
ShortLiteral(x) == x.literal /\ x.type \in IntegerKinds => Fits(x.means.num, "i64")

\* Kinds of integers, truth values and floating numbers are different types.
LEMMA KindsDiffer ==
    /\ "bool" \notin IntegerKinds /\ "f64" \notin IntegerKinds /\ "bool" # "f64"
    /\ SignedKinds \subseteq IntegerKinds /\ UnsignedKinds \subseteq IntegerKinds
    /\ \A t \in IntegerKinds : t \in SignedKinds <=> t \notin UnsignedKinds
    /\ Types = IntegerKinds \cup {"bool", "f64"}
BY DEF IntegerKinds, SignedKinds, UnsignedKinds, Types

\* The fields of a value.
LEMMA ValueIs ==
    \A t, literal, means, vm, llvm :
        LET x == Value(t, literal, means, vm, llvm)
        IN  x.type = t /\ x.literal = literal /\ x.means = means /\ x.vm = vm /\ x.llvm = llvm
BY DEF Value

\* An integer that fits its kind is kept right in both back ends.
LEMMA IntegerValueIs ==
    ASSUME NEW t \in IntegerKinds, NEW n \in Int, Fits(n, t), NEW literal \in BOOLEAN
    PROVE  LET x == IntegerValue(t, n, literal)
           IN  /\ x.type = t /\ x.literal = literal /\ x.means = Whole(n)
               /\ Meant(x) /\ VmRight(x) /\ LlvmRight(x)
<1> DEFINE x == IntegerValue(t, n, literal)
<1>1. /\ x.type = t /\ x.literal = literal /\ x.means = Whole(n)
      /\ x.vm = Signed(n, IF Is128BitInteger(t) THEN WideBits ELSE WordBits) /\ x.llvm = Signed(n, Bits[t])
  BY KindsDiffer, ValueIs DEF IntegerValue
<1>2. x.means.num = n /\ x.means.den = 1 /\ 1 \in Nat \ {0}
  BY <1>1, WholeIs
<1>3. Meant(x)
  BY <1>1, <1>2, KindsDiffer DEF Meant
<1>4. VmRight(x)
  BY <1>1, <1>2, KindsDiffer DEF VmRight, Register, RegisterBits
<1>5. LlvmRight(x)
  BY <1>1, <1>2, KindsDiffer DEF LlvmRight
<1>6. QED
  BY <1>1, <1>3, <1>4, <1>5

\* What both back ends make of the truth value.
LEMMA TruthIs ==
    /\ \A b \in BOOLEAN : Truth(b) \in {0, 1} /\ (Truth(b) # 0 <=> b) /\ Whole(Truth(b)) \in {Whole(0), Whole(1)}
    /\ Signed(0, 1) = 0 /\ Signed(1, 1) = -1 /\ Signed(0, 1) # Signed(1, 1)
<1>1. TwoTo[0] = 1 /\ TwoTo[1] = 2
  <2>1. TwoTo[0 + 1] = 2 * TwoTo[0] /\ TwoTo[0] = 1
    BY Powers
  <2>2. QED
    BY <2>1
<1>2. Pattern(0, 1) = 0 /\ Pattern(1, 1) = 1
  BY <1>1 DEF Pattern
<1>3. Signed(0, 1) = 0 /\ Signed(1, 1) = -1
  BY <1>1, <1>2 DEF Signed
<1>4. QED
  BY <1>3 DEF Truth

\* A number that fits its type is zero where the bits of it are.
LEMMA ZeroIsZero ==
    ASSUME NEW t \in IntegerKinds, NEW n \in Int, Fits(n, t), NEW w \in Nat \ {0}, Bits[t] <= w
    PROVE  Signed(n, w) = 0 <=> n = 0
<1>1. Signed(0, w) = 0 /\ Pattern(0, w) = 0
  <2>1. PICK h, p \in Nat \ {0} : h = TwoTo[w - 1] /\ p = TwoTo[w]
    BY Words
  <2>2. -h <= 0 /\ 0 < h /\ 0 < p /\ 0 <= 0 /\ 0 \in Int /\ w \in Nat
    BY <2>1
  <2>3. QED
    BY <2>1, <2>2, SignedIs, PatternIs
<1>2. ASSUME Signed(n, w) = 0 PROVE n = 0
  <2>1. CASE t \in SignedKinds
    BY <1>2, <2>1, SignedRange
  <2>2. CASE t \in UnsignedKinds
    BY <1>1, <1>2, <2>2, UnsignedRange
  <2>3. QED
    BY <2>1, <2>2, KindsDiffer
<1>3. QED
  BY <1>1, <1>2

-----------------------------------------------------------------------------
\* Conversions.

\* Truncating leaves all but floating numbers as they are.
LEMMA TruncatedMeans ==
    ASSUME NEW x, Meant(x)
    PROVE  /\ Truncated(x.means) \in Int
           /\ x.type # "f64" => Truncated(x.means) = x.means.num /\ x.means = Whole(x.means.num)
<1>1. x.means.num \in Int /\ x.means.den \in Int
  BY DEF Meant
<1>2. x.type # "f64" => x.means = Whole(x.means.num)
  BY KindsDiffer, WholeIs DEF Meant
<1>3. QED
  BY <1>1, <1>2, WholeIs, TruncatedIs

\* A cast means a value of the type it is to.
LEMMA CastMeans ==
    ASSUME NEW x, Meant(x), NEW t \in Types
    PROVE  /\ t = "bool" => MeansCast(x, t) = Whole(Truth(x.means.num # 0))
           /\ t = "f64" => MeansCast(x, t) = x.means
           /\ t \in IntegerKinds => MeansCast(x, t) = Whole(Reduced(Truncated(x.means), t))
           /\ Meant(Cast(x, t))
<1>1. /\ t = "bool" => MeansCast(x, t) = Whole(Truth(x.means.num # 0))
      /\ t = "f64" => MeansCast(x, t) = x.means
      /\ t \in IntegerKinds => MeansCast(x, t) = Whole(Reduced(Truncated(x.means), t))
  BY KindsDiffer DEF MeansCast
<1>2. Cast(x, t).type = t /\ Cast(x, t).literal = FALSE /\ Cast(x, t).means = MeansCast(x, t)
  BY DEF Cast, Value
<1> DEFINE y == Cast(x, t)
<1>3. CASE t = "bool"
  <2>1. PICK b \in {0, 1} : b = Truth(x.means.num # 0)
    BY TruthIs
  <2>2. y.means = Whole(b) /\ y.means.num = b /\ y.means.den = 1
    BY <1>1, <1>2, <1>3, <2>1, WholeIs
  <2>3. y.means.num \in Int /\ y.means.den \in Nat \ {0} /\ y.means \in {Whole(0), Whole(1)}
    BY <2>2
  <2>4. QED
    <3> HIDE DEF y
    <3>1. y.type = "bool" /\ y.literal = FALSE
      BY <1>2, <1>3 DEF y
    <3>2. Meant(y)
      BY <2>3, <3>1, KindsDiffer DEF Meant
    <3>3. QED
      BY <1>1, <1>3, <3>2 DEF y
<1>4. CASE t = "f64"
  BY <1>1, <1>2, <1>4, KindsDiffer DEF Meant
<1>5. CASE t \in IntegerKinds
  <2>1. PICK n \in Int : n = Reduced(Truncated(x.means), t) /\ Fits(n, t)
    BY <1>5, TruncatedMeans, ReducedIs
  <2>2. y.means = Whole(n) /\ y.means.num = n /\ y.means.den = 1
    BY <1>1, <1>2, <1>5, <2>1, WholeIs
  <2>3. y.means.num \in Int /\ y.means.den \in Nat \ {0} /\ y.means = Whole(y.means.num) /\ Fits(y.means.num, t)
    BY <2>1, <2>2
  <2>4. QED
    <3> HIDE DEF y
    <3>1. y.type = t /\ y.literal = FALSE
      BY <1>2 DEF y
    <3>2. Meant(y)
      BY <1>5, <2>3, <3>1, KindsDiffer DEF Meant
    <3>3. QED
      BY <1>1, <1>5, <3>2, KindsDiffer DEF y
<1>6. QED
  BY <1>1, <1>3, <1>4, <1>5, KindsDiffer

\* The bits of a number that is reduced to a kind, in a register of the interpreter
\* (which does not reduce to narrow kinds), and in compiled code.
LEMMA ReducedBits ==
    ASSUME NEW t \in IntegerKinds, NEW n \in Int
    PROVE  /\ ~Uncut(n, t) => Signed(Reduced(n, t), Register(t)) = Signed(n, Register(t))
           /\ Signed(Reduced(n, t), Bits[t]) = Signed(n, Bits[t])
<1>1. Signed(Reduced(n, t), Bits[t]) = Signed(n, Bits[t])
  BY KindBits, ReducedIs, SameSigned
<1>2. Narrow(t) /\ ~Uncut(n, t) => Reduced(n, t) = n
  BY ReducedIs DEF Uncut
<1>3. ~Narrow(t) => Bits[t] = Register(t)
  BY KindBits, KindsDiffer
<1>4. QED
  BY <1>1, <1>2, <1>3

\* The number in a register, read as its kind is.
LEMMA ReadBack ==
    ASSUME NEW t \in IntegerKinds, NEW n \in Int, Fits(n, t), NEW w \in Nat, Bits[t] <= w
    PROVE  /\ ReadAs(t \in UnsignedKinds, Signed(n, w), w) = n
           /\ t \notin UnsignedKinds => Signed(n, w) = n
           /\ Bits[t] < w => Signed(n, w) = n
BY SignedRange, UnsignedRange, KindsDiffer DEF ReadAs

\* A literal is below all registers, so that each holds the number itself.
LEMMA LiteralBits ==
    ASSUME NEW t \in IntegerKinds, NEW n \in Int, Fits(n, t), Fits(n, "i64"), NEW w \in Nat, WordBits <= w
    PROVE  Signed(n, w) = n /\ (0 <= n => Pattern(n, w) = n)
<1>1. "i64" \in SignedKinds /\ Bits["i64"] = WordBits
  BY Widths DEF SignedKinds
<1>2. QED
  BY <1>1, SignedRange

\* A move between kinds of integers in the interpreter.
LEMMA VmMovRight ==
    ASSUME NEW x, Meant(x), ShortLiteral(x), VmRight(x), x.type \in IntegerKinds,
           NEW t \in IntegerKinds, ~VmCastDiffers(x, t)
    PROVE  VmMov(x, t) = Signed(Reduced(x.means.num, t), Register(t))
<1> DEFINE s == x.type
<1>1. PICK n \in Int : n = x.means.num /\ Fits(n, s)
  BY DEF Meant
<1>2. x.vm = Signed(n, Register(s))
  BY <1>1 DEF VmRight
<1>3. Signed(Reduced(n, t), Register(t)) = Signed(n, Register(t))
  BY <1>1, ReducedBits DEF VmCastDiffers
<1>4. /\ WordBits \in Nat \ {0} /\ WideBits \in Nat \ {0} /\ WordBits < WideBits
      /\ \A k \in IntegerKinds : Register(k) = IF Is128BitInteger(k) THEN WideBits ELSE WordBits
      /\ \A k \in IntegerKinds : ~Is128BitInteger(k) => Bits[k] <= WordBits
  BY Widths, KindBits DEF Register, RegisterBits
<1>5. x.literal => Fits(n, "i64")
  BY <1>1 DEF ShortLiteral
<1>6. ASSUME x.literal
      PROVE  x.vm = n /\ Signed(n, Register(t)) = n /\ (0 <= n => Pattern(n, WordBits) = n)
  <2>1. WordBits <= WideBits /\ WordBits <= WordBits
    BY <1>4
  <2>2. QED
    BY <1>1, <1>2, <1>4, <1>5, <1>6, <2>1, LiteralBits
<1>7. CASE Is128BitInteger(t)
  <2>1. VmMov(x, t) = VmMovWide(x, t)
    BY <1>7 DEF VmMov
  <2>2. CASE x.literal
    <3>1. t \in UnsignedKinds => t = "u128"
      BY <1>7 DEF Is128BitInteger, UnsignedKinds
    <3>2. t \in UnsignedKinds => 0 <= n
      BY <1>1, <2>2, <3>1 DEF VmCastDiffers, NegativeLiteral
    <3>3. VmMovWide(x, t) = ReadAs(t \in UnsignedKinds, x.vm, WordBits)
      BY <2>2 DEF VmMovWide
    <3>4. VmMovWide(x, t) = n
      BY <1>6, <2>2, <3>2, <3>3 DEF ReadAs
    <3>5. QED
      BY <1>1, <1>3, <1>6, <2>1, <2>2, <3>4
  <2>3. CASE ~x.literal /\ Is128BitInteger(s)
    <3>1. VmMovWide(x, t) = x.vm
      BY <2>3 DEF VmMovWide
    <3>2. Register(s) = WideBits /\ Register(t) = WideBits
      BY <1>4, <1>7, <2>3
    <3>3. QED
      BY <1>1, <1>2, <1>3, <2>1, <3>1, <3>2
  <2>4. CASE ~x.literal /\ ~Is128BitInteger(s)
    <3>1. VmMovWide(x, t) = ReadAs(s \in UnsignedKinds, x.vm, WordBits)
      BY <2>4 DEF VmMovWide
    <3>2. Register(s) = WordBits /\ Register(t) = WideBits /\ Bits[s] <= WordBits /\ Bits[s] < WideBits
          /\ Bits[s] <= WideBits
      BY <1>4, <1>7, <2>4, KindBits
    <3>3. VmMovWide(x, t) = n
      BY <1>1, <1>2, <1>4, <3>1, <3>2, ReadBack
    <3>4. Signed(n, WideBits) = n
      BY <1>1, <1>4, <3>2, ReadBack
    <3>5. QED
      BY <1>1, <1>3, <2>1, <3>2, <3>3, <3>4
  <2>5. QED
    BY <2>2, <2>3, <2>4
<1>8. CASE ~Is128BitInteger(t)
  <2>1. Register(t) = WordBits
    BY <1>4, <1>8
  <2>2. CASE Is128BitInteger(s) /\ ~x.literal
    <3>1. VmMov(x, t) = Signed(x.vm, WordBits) /\ Register(s) = WideBits
      BY <1>4, <1>8, <2>2 DEF VmMov
    <3>2. Congruent(Signed(n, WideBits), n, TwoTo[WideBits]) /\ Signed(n, WideBits) \in Int
      BY <1>4, SignedIs
    <3>3. PICK k \in Int : TwoTo[WideBits] = k * TwoTo[WordBits]
      BY <1>4, PowerDivides
    <3>4. Congruent(Signed(n, WideBits), n, TwoTo[WordBits])
      BY <1>4, <3>2, <3>3, CongruentFiner, Powers
    <3>5. Signed(Signed(n, WideBits), WordBits) = Signed(n, WordBits)
      BY <1>4, <3>2, <3>4, SameSigned
    <3>6. QED
      BY <1>1, <1>2, <1>3, <2>1, <3>1, <3>5
  <2>3. CASE x.literal
    <3>1. VmMov(x, t) = x.vm
      BY <1>8, <2>3 DEF VmMov
    <3>2. QED
      BY <1>1, <1>3, <1>6, <2>3, <3>1
  <2>4. CASE ~Is128BitInteger(s) /\ ~x.literal
    <3>1. VmMov(x, t) = x.vm /\ Register(s) = WordBits
      BY <1>4, <1>8, <2>4 DEF VmMov
    <3>2. QED
      BY <1>1, <1>2, <1>3, <2>1, <3>1
  <2>5. QED
    BY <2>2, <2>3, <2>4
<1>9. QED
  BY <1>7, <1>8

\* Zero and one fit every kind and every register.
LEMMA BitFits ==
    ASSUME NEW t \in IntegerKinds, NEW b \in {0, 1}, NEW w \in Nat, Bits[t] <= w
    PROVE  Fits(b, t) /\ Signed(b, w) = b
<1>1. 1 < Bits[t] /\ Bits[t] \in Nat
  BY Widths DEF IntegerKinds, SignedKinds, UnsignedKinds
<1>2. TwoTo[0] = 1 /\ TwoTo[0 + 1] = 2 * TwoTo[0] /\ TwoTo[1] = 2
  BY Powers
<1>3. Bits[t] - 1 \in Nat /\ 1 <= Bits[t] - 1 /\ w \in Nat \ {0} /\ w - 1 \in Nat /\ 1 <= w - 1 /\ 1 <= Bits[t]
  BY <1>1
<1>4. PICK h, p, q \in Nat : h = TwoTo[Bits[t] - 1] /\ p = TwoTo[Bits[t]] /\ q = TwoTo[w - 1]
  BY <1>1, <1>3, Powers
<1>5. 2 <= h /\ 2 <= p /\ 2 <= q
  BY <1>1, <1>2, <1>3, <1>4, PowerDivides
<1>6. Fits(b, t)
  BY <1>4, <1>5 DEF Fits, Lowest, Highest
<1>7. -q <= b /\ b < q /\ b \in Int
  BY <1>5
<1>8. QED
  BY <1>3, <1>4, <1>6, <1>7, SignedIs

\* Zero truncates to zero.
LEMMA TruncatedZero ==
    ASSUME NEW x, Meant(x), x.means.num = 0
    PROVE  Truncated(x.means) = 0
<1>1. x.means.den \in Nat \ {0} /\ Abs(x.means.den) = x.means.den /\ Sign(x.means.den) = 1
  BY DEF Meant, Abs, Sign
<1>2. Abs(0) = 0 /\ Sign(0) = 1
  BY DEF Abs, Sign
<1>3. \A d \in Nat \ {0} : 0 \div d = 0
  OBVIOUS
<1>4. QED
  BY <1>1, <1>2, <1>3 DEF Truncated, Quotient

\* A truth value in a register, when it is kept in one bit.
LEMMA OneBit ==
    ASSUME NEW x, Meant(x), x.type = "bool"
    PROVE  /\ x.means.num \in {0, 1} /\ x.means = Whole(x.means.num) /\ ~x.literal
           /\ VmRight(x) /\ ~NotOneBit(x) => x.vm = x.means.num
<1>1. x.means.num \in {0, 1} /\ x.means = Whole(x.means.num) /\ ~x.literal
  BY WholeIs DEF Meant
<1>2. QED
  BY <1>1 DEF VmRight, NotOneBit

\* Every conversion in the interpreter, but for the cases the module names.
LEMMA VmCastRight ==
    ASSUME NEW x, Meant(x), ShortLiteral(x), VmRight(x),
           NEW t \in Types, t # x.type, Representable(x, t), ~VmCastDiffers(x, t)
    PROVE  VmRight(Cast(x, t))
<1> DEFINE y == Cast(x, t)
<1>1. y.type = t /\ y.means = MeansCast(x, t) /\ y.vm = VmCast(x, t)
  BY DEF Cast, Value
<1>2. /\ x.type \in Types /\ x.means.num \in Int
      /\ x.type \in IntegerKinds => Fits(x.means.num, x.type) /\ x.vm = Signed(x.means.num, Register(x.type))
                                    /\ Register(x.type) \in Nat \ {0} /\ Bits[x.type] <= Register(x.type)
      /\ x.type = "f64" => x.vm = x.means
  BY KindBits DEF Meant, VmRight
<1>3. CASE t \in IntegerKinds
  <2>1. y.means.num = Reduced(Truncated(x.means), t)
    BY <1>1, <1>3, CastMeans, WholeIs
  <2>2. Bits[t] \in Nat /\ Register(t) \in Nat /\ Bits[t] <= Register(t)
    BY <1>3, KindBits
  <2>3. VmCast(x, t) = Signed(Reduced(Truncated(x.means), t), Register(t))
    <3>1. CASE x.type \in IntegerKinds
      <4>1. CastInstruction(x.type, t) = "mov" /\ VmCast(x, t) = VmMov(x, t)
        BY <1>3, <3>1, KindsDiffer DEF CastInstruction, VmCast
      <4>2. Truncated(x.means) = x.means.num
        BY <3>1, KindsDiffer, TruncatedMeans
      <4>3. QED
        BY <1>3, <3>1, <4>1, <4>2, VmMovRight
    <3>2. CASE x.type = "bool"
      <4>1. CastInstruction(x.type, t) = "mov" /\ VmCast(x, t) = VmMov(x, t)
        BY <1>3, <3>2, KindsDiffer DEF CastInstruction, VmCast
      <4>2. PICK b \in {0, 1} : b = x.means.num /\ x.vm = b /\ ~x.literal
        BY <1>3, <3>2, KindsDiffer, OneBit DEF VmCastDiffers
      <4>3. ~Is128BitInteger("bool") /\ "bool" \notin UnsignedKinds
        BY KindsDiffer DEF Is128BitInteger
      <4>4. VmMov(x, t) = b
        BY <3>2, <4>2, <4>3 DEF VmMov, VmMovWide, ReadAs
      <4>5. Truncated(x.means) = b
        BY <3>2, <4>2, KindsDiffer, TruncatedMeans
      <4>6. Fits(b, t) /\ Signed(b, Register(t)) = b
        BY <1>3, <2>2, BitFits
      <4>7. Reduced(b, t) = b
        BY <1>3, <4>6, ReducedIs
      <4>8. QED
        BY <4>1, <4>4, <4>5, <4>6, <4>7
    <3>3. CASE x.type = "f64"
      <4>1. CastInstruction(x.type, t) = "f2i" /\ VmCast(x, t) = Truncated(x.means)
        BY <1>2, <1>3, <3>3, KindsDiffer DEF CastInstruction, VmCast
      <4>2. PICK n \in Int : n = Truncated(x.means)
        BY TruncatedMeans
      <4>3. Fits(n, t) /\ Fits(n, IF Is128BitInteger(t) THEN "i128" ELSE "i64")
        BY <1>3, <3>3, <4>2, KindsDiffer DEF Representable
      <4>4. {"i128", "i64"} \subseteq SignedKinds
        BY DEF SignedKinds
      <4>5. /\ Bits["i128"] = WideBits /\ Bits["i64"] = WordBits
            /\ Register(t) = IF Is128BitInteger(t) THEN WideBits ELSE WordBits
        BY Widths DEF Register, RegisterBits
      <4>6. Signed(n, Register(t)) = n
        BY <2>2, <4>3, <4>4, <4>5, SignedRange
      <4>7. Reduced(n, t) = n
        BY <1>3, <4>3, ReducedIs
      <4>8. QED
        BY <4>1, <4>2, <4>6, <4>7
    <3>4. QED
      BY <1>2, <3>1, <3>2, <3>3, KindsDiffer
  <2>4. QED
    BY <1>1, <1>3, <2>1, <2>3, KindsDiffer DEF VmRight
<1>4. CASE t = "bool"
  <2>1. y.means.num = Truth(x.means.num # 0)
    BY <1>1, <1>4, CastMeans, WholeIs
  <2>2. y.means.num = 0 <=> x.means.num = 0
    BY <2>1, TruthIs
  <2>3. VmCast(x, t) \in Int /\ (VmCast(x, t) = 0 <=> x.means.num = 0)
    <3>1. CASE x.type \in IntegerKinds
      <4>1. VmCast(x, t) = IF Is128BitInteger(x.type) THEN Truth(x.vm # 0) ELSE x.vm
        BY <1>4, <3>1, KindsDiffer DEF CastInstruction, VmCast
      <4>2. x.vm \in Int /\ (x.vm = 0 <=> x.means.num = 0)
        BY <1>2, <3>1, ZeroIsZero, SignedIs
      <4>3. Truth(x.vm # 0) \in {0, 1} /\ (Truth(x.vm # 0) # 0 <=> x.vm # 0)
        BY TruthIs
      <4>4. QED
        BY <4>1, <4>2, <4>3
    <3>2. CASE x.type = "f64"
      <4>1. VmCast(x, t) = Truncated(x.means)
        BY <1>2, <1>4, <3>2, KindsDiffer DEF CastInstruction, VmCast
      <4>2. x.means.num # 0 => Truncated(x.means) # 0
        BY <1>4, <3>2 DEF VmCastDiffers, Fraction
      <4>3. QED
        BY <4>1, <4>2, TruncatedMeans, TruncatedZero
    <3>3. QED
      BY <1>2, <1>4, <3>1, <3>2, KindsDiffer
  <2>4. QED
    BY <1>1, <1>4, <2>2, <2>3, KindsDiffer DEF VmRight
<1>5. CASE t = "f64"
  <2>1. y.means = x.means /\ x.type # "f64" /\ x.means = Whole(x.means.num)
    BY <1>1, <1>5, CastMeans, TruncatedMeans
  <2>2. VmCast(x, t) = Whole(ReadAs(x.type = "u128", x.vm, WideBits))
    BY <1>2, <1>5, <2>1, KindsDiffer DEF CastInstruction, VmCast, VmIntegerToFloat
  <2>3. ReadAs(x.type = "u128", x.vm, WideBits) = x.means.num
    <3>1. CASE x.type = "bool"
      BY <1>5, <3>1, OneBit, KindsDiffer DEF ReadAs, VmCastDiffers
    <3>2. CASE x.type = "u128"
      <4>1. x.type \in UnsignedKinds /\ x.type \in IntegerKinds /\ Bits[x.type] = WideBits /\ Register(x.type) = WideBits
            /\ WideBits \in Nat /\ Bits[x.type] <= WideBits
        BY <3>2, Widths, KindsDiffer DEF UnsignedKinds
      <4>2. QED
        BY <1>2, <3>2, <4>1, UnsignedRange DEF ReadAs
    <3>3. CASE x.type \in IntegerKinds /\ x.type # "u128"
      <4>1. ReadAs(x.type = "u128", x.vm, WideBits) = Signed(x.means.num, Register(x.type))
        BY <1>2, <3>3 DEF ReadAs
      <4>2. CASE x.type \notin UnsignedKinds
        BY <1>2, <3>3, <4>1, <4>2, ReadBack
      <4>3. CASE x.type = "u8"
        <5>1. Bits[x.type] < Register(x.type)
          BY <4>3, Widths
        <5>2. QED
          BY <1>2, <3>3, <4>1, <5>1, ReadBack
      <4>4. CASE x.type = "u64"
        <5>1. Fits(x.means.num, "i64")
          BY <1>5, <4>4 DEF VmCastDiffers, UnsignedToFloat
        <5>2. Register(x.type) = WordBits /\ WordBits \in Nat /\ WordBits <= WordBits
          BY <4>4, Widths
        <5>3. QED
          BY <1>2, <3>3, <4>1, <5>1, <5>2, LiteralBits
      <4>5. QED
        BY <3>3, <4>2, <4>3, <4>4 DEF UnsignedKinds
    <3>4. QED
      BY <1>2, <2>1, <3>1, <3>2, <3>3, KindsDiffer
  <2>4. QED
    BY <1>1, <1>5, <2>1, <2>2, <2>3, KindsDiffer DEF VmRight
<1>6. QED
  BY <1>3, <1>4, <1>5, KindsDiffer

\* Every conversion in compiled code, but for truth values that become numbers.
LEMMA LlvmCastRight ==
    ASSUME NEW x, Meant(x), LlvmRight(x),
           NEW t \in Types, t # x.type, Representable(x, t), ~SignedTruth(x, t)
    PROVE  LlvmRight(Cast(x, t))
<1> DEFINE y == Cast(x, t)
<1>1. y.type = t /\ y.means = MeansCast(x, t) /\ y.llvm = LlvmCast(x, t)
  BY DEF Cast, Value
<1>2. /\ x.type \in Types /\ x.means.num \in Int
      /\ x.type \in IntegerKinds => Fits(x.means.num, x.type) /\ x.llvm = Signed(x.means.num, Bits[x.type])
                                    /\ Bits[x.type] \in Nat \ {0} /\ Bits[x.type] <= Bits[x.type]
      /\ x.type = "bool" => x.means.num \in {0, 1} /\ x.llvm = Signed(x.means.num, 1)
      /\ x.type = "f64" => x.llvm = x.means
  BY KindBits, Widths, OneBit DEF Meant, LlvmRight
<1>3. x.type \in IntegerKinds =>
          (IF SignedType(x.type) THEN x.llvm ELSE Pattern(x.llvm, Bits[x.type])) = x.means.num
  BY <1>2, ReadBack DEF SignedType, ReadAs
<1>4. x.type = "bool" /\ IsNumber(t) => x.llvm = 0 /\ x.means.num = 0 /\ SignedType("bool")
  BY <1>2, TruthIs, KindsDiffer DEF SignedTruth, SignedType
<1>5. CASE t \in IntegerKinds
  <2>1. y.means.num = Reduced(Truncated(x.means), t) /\ Truncated(x.means) \in Int
    BY <1>1, <1>5, CastMeans, WholeIs, TruncatedMeans
  <2>2. Signed(Reduced(Truncated(x.means), t), Bits[t]) = Signed(Truncated(x.means), Bits[t])
    BY <1>5, <2>1, ReducedBits
  <2>3. LlvmCast(x, t) = Signed(Truncated(x.means), Bits[t])
    <3>1. CASE x.type \in IntegerKinds
      <4>1. CastInstruction(x.type, t) = "mov"
        BY <1>5, <3>1, KindsDiffer DEF CastInstruction
      <4>2. LlvmCast(x, t) = Signed(x.means.num, Bits[t])
        BY <1>3, <3>1, <4>1 DEF LlvmCast, IntCast
      <4>3. QED
        BY <3>1, <4>2, KindsDiffer, TruncatedMeans
    <3>2. CASE x.type = "bool"
      <4>1. CastInstruction(x.type, t) = "mov" /\ IsNumber(t)
        BY <1>5, <3>2, KindsDiffer DEF CastInstruction, IsNumber
      <4>2. LlvmCast(x, t) = Signed(0, Bits[t])
        BY <1>4, <3>2, <4>1 DEF LlvmCast, IntCast
      <4>3. QED
        BY <1>4, <3>2, <4>1, <4>2, KindsDiffer, TruncatedMeans
    <3>3. CASE x.type = "f64"
      BY <1>2, <1>5, <3>3, KindsDiffer DEF CastInstruction, LlvmCast
    <3>4. QED
      BY <1>2, <3>1, <3>2, <3>3, KindsDiffer
  <2>4. QED
    BY <1>1, <1>5, <2>1, <2>2, <2>3, KindsDiffer DEF LlvmRight
<1>6. CASE t = "bool"
  <2>1. y.means.num = Truth(x.means.num # 0)
    BY <1>1, <1>6, CastMeans, WholeIs
  <2>2. LlvmCast(x, t) = Signed(Truth(x.means.num # 0), 1)
    <3>1. CASE x.type \in IntegerKinds
      <4>1. x.llvm = 0 <=> x.means.num = 0
        BY <1>2, <3>1, ZeroIsZero
      <4>2. LlvmCast(x, t) = Signed(Truth(x.llvm # 0), 1)
        BY <1>6, <3>1, KindsDiffer DEF CastInstruction, LlvmCast
      <4>3. QED
        BY <4>1, <4>2 DEF Truth
    <3>2. CASE x.type = "f64"
      BY <1>2, <1>6, <3>2, KindsDiffer DEF CastInstruction, LlvmCast
    <3>3. QED
      BY <1>2, <1>6, <3>1, <3>2, KindsDiffer
  <2>3. QED
    BY <1>1, <1>6, <2>1, <2>2, Widths, KindsDiffer DEF LlvmRight
<1>7. CASE t = "f64"
  <2>1. y.means = x.means /\ x.type # "f64" /\ x.means = Whole(x.means.num)
    BY <1>1, <1>7, CastMeans, TruncatedMeans
  <2>2. LlvmCast(x, t) = Whole(IF SignedType(x.type) THEN x.llvm ELSE Pattern(x.llvm, Bits[x.type]))
    BY <1>2, <1>7, <2>1, KindsDiffer DEF CastInstruction, LlvmCast
  <2>3. IsNumber(t)
    BY <1>7 DEF IsNumber
  <2>4. LlvmCast(x, t) = Whole(x.means.num)
    BY <1>2, <1>3, <1>4, <2>1, <2>2, <2>3, KindsDiffer
  <2>5. QED
    BY <1>1, <1>7, <2>1, <2>4, KindsDiffer DEF LlvmRight
<1>8. QED
  BY <1>5, <1>6, <1>7, KindsDiffer

\* A conversion that is allowed where none is written: it changes no integer, and
\* makes a truth value of nothing but a truth value a number.
Allowed(x, t) ==
    /\ x.type = "bool" => t = "bool"
    /\ x.type \in IntegerKinds /\ t \in IntegerKinds => Fits(x.means.num, t)

\* Such a conversion leaves a right value of the new type, with the same meaning.
LEMMA ConvertRight ==
    ASSUME NEW x, Meant(x), ShortLiteral(x), NEW t \in Types, Allowed(x, t), Representable(x, t)
    PROVE  LET y == Convert(x, t)
           IN  /\ y.type = t /\ Meant(y)
               /\ t = "bool" => y.means = Whole(Truth(x.means.num # 0))
               /\ (t # "bool" /\ x.type # "f64") \/ t = "f64" => y.means = x.means
               /\ VmRight(x) /\ ~VmCastDiffers(x, t) => VmRight(y)
               /\ LlvmRight(x) => LlvmRight(y)
<1> DEFINE y == Convert(x, t)
<1>0. x.type \in Types /\ x.literal \in BOOLEAN /\ x.means.num \in Int /\ x.means.den \in Nat \ {0}
      /\ (x.literal => x.type # "bool")
  BY DEF Meant
<1>1. CASE x.type = t
  <2>1. y = x
    BY <1>1 DEF Convert
  <2>2. t = "bool" => x.means = Whole(Truth(x.means.num # 0))
    <3>1. t = "bool" => x.means.num \in {0, 1} /\ x.means = Whole(x.means.num)
      BY <1>1, OneBit
    <3>2. QED
      BY <3>1 DEF Truth
  <2>3. QED
    BY <1>1, <2>1, <2>2
<1>2. CASE x.type # t /\ x.literal /\ t \in IntegerKinds
  <2>1. PICK n \in Int : n = Truncated(x.means)
    BY TruncatedMeans
  <2>2. y = IntegerValue(t, n, TRUE)
    BY <1>2, <2>1, KindsDiffer DEF Convert
  <2>3. Fits(n, t)
    <3>1. CASE x.type = "f64"
      BY <1>2, <2>1, <3>1, KindsDiffer DEF Representable
    <3>2. CASE x.type \in IntegerKinds
      BY <1>2, <2>1, <3>2, TruncatedMeans, KindsDiffer DEF Allowed
    <3>3. QED
      BY <1>0, <1>2, <3>1, <3>2, KindsDiffer
  <2>4. y.type = t /\ y.means = Whole(n) /\ Meant(y) /\ VmRight(y) /\ LlvmRight(y)
    <3> HIDE DEF y
    <3>1. TRUE \in BOOLEAN
      OBVIOUS
    <3>2. QED
      BY <1>2, <2>2, <2>3, <3>1, IntegerValueIs
  <2>5. x.type # "f64" => y.means = x.means
    <3> HIDE DEF y
    <3> QED BY <2>1, <2>4, TruncatedMeans
  <2>6. QED
    BY <1>2, <2>4, <2>5, KindsDiffer
<1>3. CASE x.type # t /\ x.literal /\ t = "f64"
  <2>1. y = FloatValue(x.means, TRUE)
    BY <1>3, KindsDiffer DEF Convert
  <2>2. y.type = "f64" /\ y.literal = TRUE /\ y.means = x.means /\ y.vm = x.means /\ y.llvm = x.means
    BY <2>1 DEF FloatValue, Value
  <2>3. Meant(y) /\ VmRight(y) /\ LlvmRight(y)
    <3> HIDE DEF y
    <3> QED BY <1>0, <2>2, KindsDiffer DEF Meant, VmRight, LlvmRight
  <2>4. QED
    BY <1>3, <2>2, <2>3
<1>4. CASE x.type # t /\ ~(x.literal /\ t \in IntegerKinds \cup {"f64"})
  <2>1. y = Cast(x, t)
    BY <1>4, KindsDiffer DEF Convert
  <2>2. y.type = t /\ Meant(y)
    BY <2>1, CastMeans DEF Cast, Value
  <2>3. y.means = MeansCast(x, t)
    BY <2>1 DEF Cast, Value
  <2>4. t = "bool" => y.means = Whole(Truth(x.means.num # 0))
    BY <2>3, CastMeans
  <2>5. t = "f64" => y.means = x.means
    BY <2>3, CastMeans
  <2>6. t \in IntegerKinds /\ x.type # "f64" => y.means = x.means
    <3>1. SUFFICES ASSUME t \in IntegerKinds, x.type # "f64" PROVE y.means = x.means
      OBVIOUS
    <3>2. x.type \in IntegerKinds
      BY <1>0, <3>1, KindsDiffer DEF Allowed
    <3>3. Fits(x.means.num, t) /\ Truncated(x.means) = x.means.num /\ x.means = Whole(x.means.num)
      BY <3>1, <3>2, TruncatedMeans DEF Allowed
    <3>4. Reduced(x.means.num, t) = x.means.num
      BY <1>0, <3>1, <3>3, ReducedIs
    <3>5. QED
      BY <2>3, <3>1, <3>3, <3>4, CastMeans
  <2>7. ~SignedTruth(x, t)
    BY <1>4 DEF SignedTruth, Allowed
  <2>8. VmRight(x) /\ ~VmCastDiffers(x, t) => VmRight(y)
    BY <1>4, <2>1, VmCastRight
  <2>9. LlvmRight(x) => LlvmRight(y)
    BY <1>4, <2>1, <2>7, LlvmCastRight
  <2>10. QED
    <3> HIDE DEF y
    <3>1. (t # "bool" /\ x.type # "f64") \/ t = "f64" => y.means = x.means
      BY <2>5, <2>6, KindsDiffer
    <3>2. QED
      BY <2>2, <2>4, <2>8, <2>9, <3>1 DEF y
<1>5. QED
  BY <1>1, <1>2, <1>3, <1>4

-----------------------------------------------------------------------------
\* Bits.

\* The operators that work bit by bit.
BitwiseOperators == {"&", "|", "^"}

\* A bit, and a bitwise operator on two of them, is zero or one.
LEMMA BitsAre ==
    ASSUME NEW op \in BitwiseOperators, NEW a \in Int, NEW b \in Int, NEW i \in Nat
    PROVE  Bit(a, i) \in {0, 1} /\ BitOf(op, Bit(a, i), Bit(b, i)) \in {0, 1}
<1>1. \A n \in Int : Bit(n, i) \in {0, 1}
  <2>1. SUFFICES ASSUME NEW n \in Int PROVE Bit(n, i) \in {0, 1}
    OBVIOUS
  <2>2. PICK q \in Int : q = n \div TwoTo[i]
    BY Powers, Remainders
  <2>3. q % 2 \in {0, 1}
    OBVIOUS
  <2>4. QED
    BY <2>2, <2>3 DEF Bit
<1>2. \A x, y \in {0, 1} : BitOf(op, x, y) \in {0, 1}
  BY DEF BitOf, BitwiseOperators
<1>3. QED
  BY <1>1, <1>2

\* The function that BitByBit defines exists and takes each step.
LEMMA BitByBitIs ==
    ASSUME NEW op \in BitwiseOperators, NEW a \in Int, NEW b \in Int
    PROVE  LET low == BitByBit(op, a, b)
           IN  /\ low[0] = 0
               /\ \A w \in Nat : /\ low[w] \in Int
                                 /\ low[w + 1] = low[w] + BitOf(op, Bit(a, w), Bit(b, w)) * TwoTo[w]
<1> DEFINE R(g) == g = [w \in Nat |-> IF w = 0 THEN 0
                                      ELSE g[w - 1] + BitOf(op, Bit(a, w - 1), Bit(b, w - 1)) * TwoTo[w - 1]]
           part(w) == BitOf(op, Bit(a, w), Bit(b, w)) * TwoTo[w]
           add == [w \in Nat |-> [x \in Int |-> x + part(w)]]
           low == BitByBit(op, a, b)
<1>1. \A w \in Nat : part(w) \in Int
  <2>1. SUFFICES ASSUME NEW w \in Nat PROVE part(w) \in Int
    OBVIOUS
  <2>2. PICK x \in Int : x = BitOf(op, Bit(a, w), Bit(b, w))
    BY BitsAre
  <2>3. PICK y \in Int : y = TwoTo[w]
    BY Powers
  <2>4. QED
    BY <2>2, <2>3
<1>2. add \in [Nat -> [Int -> Int]] /\ \A w \in Nat, x \in Int : add[w][x] = x + part(w)
  <2> HIDE DEF part
  <2> QED BY <1>1
<1>3. PICK f \in [Nat -> Int] : Iterates(f, 0, add)
  <2>1. 0 \in Int /\ add \in [Nat -> [Int -> Int]]
    BY <1>2
  <2> HIDE DEF add
  <2>2. QED
    BY <2>1, Recursion
<1>4. \A w \in Nat : f[w] = IF w = 0 THEN 0 ELSE f[w - 1] + part(w - 1)
  <2> HIDE DEF add, part
  <2>1. SUFFICES ASSUME NEW w \in Nat PROVE f[w] = IF w = 0 THEN 0 ELSE f[w - 1] + part(w - 1)
    OBVIOUS
  <2>2. CASE w = 0
    BY <1>3, <2>2 DEF Iterates
  <2>3. CASE w # 0
    <3>1. PICK v \in Nat : v = w - 1 /\ v + 1 = w
      BY <2>3
    <3>2. f[v + 1] = add[v][f[v]] /\ f[v] \in Int
      BY <1>3 DEF Iterates
    <3>3. QED
      BY <1>2, <2>3, <3>1, <3>2
  <2>4. QED
    BY <2>2, <2>3
<1>5. R(f)
  BY <1>4
<1>6. low = CHOOSE g : R(g)
  BY DEF BitByBit
<1>7. R(low)
  <2> HIDE DEF R, low
  <2> QED BY <1>5, <1>6
<1>8. \A w \in Nat : low[w] = IF w = 0 THEN 0 ELSE low[w - 1] + part(w - 1)
  <2> HIDE DEF low
  <2> QED BY <1>7
<1>9. low[0] = 0 /\ \A w \in Nat : low[w + 1] = low[w] + part(w)
  <2> HIDE DEF low, part
  <2>1. \A w \in Nat : w + 1 \in Nat /\ w + 1 # 0 /\ (w + 1) - 1 = w
    OBVIOUS
  <2>2. QED
    BY <1>8, <2>1
<1> DEFINE S == {w \in Nat : low[w] \in Int}
<1>10. 0 \in S /\ \A w \in Nat : w \in S => w + 1 \in S
  <2> HIDE DEF low, part
  <2> QED BY <1>1, <1>9
<1>11. Nat \subseteq S
  <2> HIDE DEF S
  <2> QED BY <1>10, Induction
<1>12. /\ low[0] = 0
       /\ \A w \in Nat : /\ low[w] \in Int
                         /\ low[w + 1] = low[w] + BitOf(op, Bit(a, w), Bit(b, w)) * TwoTo[w]
  <2> HIDE DEF low
  <2> QED BY <1>9, <1>11
<1>13. QED
  BY <1>12, Zenon

\* Numbers with the same low bits have the same bits there.
LEMMA SameBits ==
    ASSUME NEW a \in Int, NEW c \in Int, NEW w \in Nat, Congruent(a, c, TwoTo[w]), NEW i \in Nat, i < w
    PROVE  Bit(a, i) = Bit(c, i)
<1>1. PICK k \in Int : a = c + k * TwoTo[w]
  BY DEF Congruent
<1>2. w - i \in Nat \ {0} /\ i + (w - i) = w
  OBVIOUS
<1>3. PICK p \in Nat \ {0}, h \in Nat : p = TwoTo[i] /\ h = TwoTo[w - i - 1] /\ TwoTo[w - i] = 2 * h
  BY <1>2, Words, Powers
<1>4. TwoTo[w] = p * (2 * h)
  BY <1>2, <1>3, PowerSum
<1>5. k * (p * (2 * h)) = (k * h * 2) * p /\ k * h * 2 \in Int /\ k * h \in Int
  OBVIOUS
<1>6. \A q \in Int : (c + q * p) \div p = (c \div p) + q
  <2>1. SUFFICES ASSUME NEW q \in Int PROVE (c + q * p) \div p = (c \div p) + q
    OBVIOUS
  <2>2. c = (c \div p) * p + (c % p) /\ c \div p \in Int /\ c % p \in 0 .. p - 1
    OBVIOUS
  <2>3. c + q * p = ((c \div p) + q) * p + (c % p)
    BY <2>2
  <2>4. \A x \in Int, r \in 0 .. p - 1 : (x * p + r) \div p = x
    OBVIOUS
  <2>5. (c \div p) + q \in Int
    BY <2>2
  <2>6. QED
    BY <2>2, <2>3, <2>4, <2>5
<1>7. a \div p = (c \div p) + k * h * 2
  BY <1>1, <1>4, <1>5, <1>6
<1>8. a \div p \in Int /\ c \div p \in Int
  OBVIOUS
<1>9. Congruent(a \div p, c \div p, 2)
  BY <1>5, <1>7 DEF Congruent
<1>10. (a \div p) % 2 = (c \div p) % 2
  BY <1>8, <1>9, SameRemainder
<1>11. QED
  BY <1>3, <1>10 DEF Bit

\* The low bits of the result are those of the low bits of the operands.
LEMMA LowBits ==
    ASSUME NEW op \in BitwiseOperators, NEW a \in Int, NEW b \in Int, NEW w \in Nat, NEW v \in Nat, w <= v
    PROVE  Congruent(BitByBit(op, a, b)[v], BitByBit(op, a, b)[w], TwoTo[w])
<1>1. PICK low : low = BitByBit(op, a, b) /\ \A i \in Nat : /\ low[i] \in Int
                            /\ low[i + 1] = low[i] + BitOf(op, Bit(a, i), Bit(b, i)) * TwoTo[i]
  BY BitByBitIs
<1>2. PICK m \in Nat : m = TwoTo[w]
  BY Powers
<1> DEFINE S == {j \in Nat : Congruent(low[w + j], low[w], m)}
<1>3. 0 \in S
  BY <1>1, CongruentAlways
<1>4. ASSUME NEW j \in Nat, j \in S PROVE j + 1 \in S
  <2>1. w + j \in Nat /\ (w + j) + 1 = w + (j + 1)
    OBVIOUS
  <2>2. PICK x \in Int, p \in Int : x = BitOf(op, Bit(a, w + j), Bit(b, w + j)) /\ p = TwoTo[j]
    BY <2>1, BitsAre, Powers
  <2>3. TwoTo[w + j] = m * p
    BY <1>2, <2>2, PowerSum
  <2>4. low[w + (j + 1)] = low[w + j] + x * (m * p)
    BY <1>1, <2>1, <2>2, <2>3
  <2>5. x * (m * p) = (x * p) * m /\ x * p \in Int
    OBVIOUS
  <2>6. Congruent(low[w + (j + 1)], low[w + j], m)
    BY <2>4, <2>5 DEF Congruent
  <2>7. low[w + (j + 1)] \in Int /\ low[w + j] \in Int /\ low[w] \in Int /\ m \in Int /\ j + 1 \in Nat
    BY <1>1, <2>1
  <2>8. Congruent(low[w + (j + 1)], low[w], m)
    BY <1>4, <2>6, <2>7, CongruentOn
  <2>9. QED
    BY <2>7, <2>8
<1>5. Nat \subseteq S
  <2> HIDE DEF S
  <2> QED BY <1>3, <1>4, Induction
<1>6. v - w \in Nat /\ w + (v - w) = v
  OBVIOUS
<1>7. v - w \in S
  <2> HIDE DEF S
  <2> QED BY <1>5, <1>6
<1>8. QED
  BY <1>1, <1>2, <1>6, <1>7

\* Operands with the same low bits have results with the same low bits,
LEMMA LocalBits ==
    ASSUME NEW op \in BitwiseOperators, NEW a \in Int, NEW b \in Int, NEW c \in Int, NEW d \in Int, NEW w \in Nat,
           Congruent(a, c, TwoTo[w]), Congruent(b, d, TwoTo[w])
    PROVE  BitByBit(op, a, b)[w] = BitByBit(op, c, d)[w]
<1>1. PICK f : f = BitByBit(op, a, b) /\ f[0] = 0 /\ \A i \in Nat : /\ f[i] \in Int
                            /\ f[i + 1] = f[i] + BitOf(op, Bit(a, i), Bit(b, i)) * TwoTo[i]
  BY BitByBitIs
<1>2. PICK g : g = BitByBit(op, c, d) /\ g[0] = 0 /\ \A i \in Nat : /\ g[i] \in Int
                            /\ g[i + 1] = g[i] + BitOf(op, Bit(c, i), Bit(d, i)) * TwoTo[i]
  BY BitByBitIs
<1> DEFINE S == {j \in Nat : j <= w => f[j] = g[j]}
<1>3. 0 \in S
  BY <1>1, <1>2
<1>4. ASSUME NEW j \in Nat, j \in S PROVE j + 1 \in S
  <2>1. SUFFICES ASSUME j + 1 <= w PROVE f[j + 1] = g[j + 1]
    OBVIOUS
  <2>2. j < w /\ j <= w
    BY <2>1
  <2>3. Bit(a, j) = Bit(c, j) /\ Bit(b, j) = Bit(d, j)
    BY <2>2, SameBits
  <2>4. QED
    BY <1>1, <1>2, <1>4, <2>2, <2>3
<1>5. Nat \subseteq S
  <2> HIDE DEF S
  <2> QED BY <1>3, <1>4, Induction
<1>6. w \in S
  <2> HIDE DEF S
  <2> QED BY <1>5
<1>7. QED
  BY <1>1, <1>2, <1>6

\* also when each result is computed in a word of its own width.
LEMMA BitwiseLocal ==
    ASSUME NEW op \in BitwiseOperators, NEW a \in Int, NEW b \in Int, NEW c \in Int, NEW d \in Int,
           NEW w \in Nat \ {0}, NEW v \in Nat \ {0}, w <= v,
           Congruent(a, c, TwoTo[w]), Congruent(b, d, TwoTo[w])
    PROVE  /\ IntegerOp(op, a, b, w) \in Int /\ IntegerOp(op, c, d, v) \in Int
           /\ Congruent(IntegerOp(op, a, b, w), IntegerOp(op, c, d, v), TwoTo[w])
<1>1. /\ IntegerOp(op, a, b, w) = Signed(BitByBit(op, a, b)[w], w)
      /\ IntegerOp(op, c, d, v) = Signed(BitByBit(op, c, d)[v], v)
  BY DEF IntegerOp, BitwiseOperators
<1>w. w \in Nat /\ v \in Nat
  OBVIOUS
<1>2. PICK x \in Int : x = BitByBit(op, a, b)[w] /\ x = BitByBit(op, c, d)[w]
  <2>1. BitByBit(op, a, b)[w] \in Int
    BY <1>w, BitByBitIs
  <2>2. BitByBit(op, a, b)[w] = BitByBit(op, c, d)[w]
    BY <1>w, LocalBits
  <2>3. QED
    BY <2>1, <2>2
<1>3. PICK y \in Int : y = BitByBit(op, c, d)[v] /\ Congruent(y, x, TwoTo[w])
  <2>1. BitByBit(op, c, d)[v] \in Int
    BY <1>w, BitByBitIs
  <2>2. Congruent(BitByBit(op, c, d)[v], BitByBit(op, c, d)[w], TwoTo[w])
    BY <1>w, LowBits
  <2>3. QED
    BY <1>2, <2>1, <2>2
<1>4. PICK m, n \in Nat \ {0} : m = TwoTo[w] /\ n = TwoTo[v] /\ \E k \in Int : n = k * m
  <2>1. TwoTo[w] \in Nat \ {0} /\ TwoTo[v] \in Nat \ {0}
    BY <1>w, Powers
  <2>2. \E k \in Nat \ {0} : TwoTo[v] = k * TwoTo[w]
    BY <1>w, PowerDivides
  <2>3. QED
    BY <2>1, <2>2
<1>5. Signed(x, w) \in Int /\ Congruent(Signed(x, w), x, m) /\ Signed(y, v) \in Int /\ Congruent(Signed(y, v), y, n)
  BY <1>4, SignedIs
<1>6. Congruent(Signed(y, v), y, m)
  BY <1>4, <1>5, CongruentFiner
<1>7. Congruent(x, y, m) /\ Congruent(y, Signed(y, v), m)
  BY <1>3, <1>4, <1>5, <1>6, CongruentBack
<1>8. Congruent(Signed(x, w), Signed(y, v), m)
  BY <1>5, <1>7, CongruentOn
<1>9. QED
  BY <1>1, <1>2, <1>3, <1>4, <1>5, <1>8

-----------------------------------------------------------------------------
\* Operators on integers.

\* Sums, differences and products respect congruence.
LEMMA RingOperator ==
    ASSUME NEW op \in {"+", "-", "*"}, NEW a \in Int, NEW b \in Int, NEW c \in Int, NEW d \in Int, NEW m \in Int,
           Congruent(a, c, m), Congruent(b, d, m), NEW v, NEW w
    PROVE  /\ IntegerOp(op, a, b, v) \in Int /\ IntegerOp(op, c, d, w) \in Int
           /\ Congruent(IntegerOp(op, a, b, v), IntegerOp(op, c, d, w), m)
<1>1. CASE op = "+"
  BY <1>1, CongruentSum DEF IntegerOp
<1>2. CASE op = "-"
  BY <1>2, CongruentSum DEF IntegerOp
<1>3. CASE op = "*"
  BY <1>3, CongruentProduct DEF IntegerOp
<1>4. QED
  BY <1>1, <1>2, <1>3

\* Quotients and remainders do not depend on the width.
LEMMA DivisionOperator ==
    ASSUME NEW op \in {"//", "%"}, NEW a \in Int, NEW b \in Int, NEW v, NEW w
    PROVE  IntegerOp(op, a, b, v) \in Int /\ IntegerOp(op, a, b, v) = IntegerOp(op, a, b, w)
<1>1. CASE op = "//"
  BY <1>1, QuotientIs DEF IntegerOp
<1>2. CASE op = "%"
  BY <1>2, QuotientIs DEF IntegerOp
<1>3. QED
  BY <1>1, <1>2

\* What a back end leaves when it computes a number with the same low bits.
LEMMA ResultBits ==
    ASSUME NEW t \in IntegerKinds, NEW n \in Int, NEW raw \in Int
    PROVE  /\ ~Uncut(n, t) /\ Congruent(raw, n, TwoTo[Register(t)])
                  => Signed(raw, Register(t)) = Signed(Reduced(n, t), Register(t))
           /\ Congruent(raw, n, TwoTo[Bits[t]]) => Signed(raw, Bits[t]) = Signed(Reduced(n, t), Bits[t])
<1>1. Register(t) \in Nat /\ Bits[t] \in Nat
  BY KindBits
<1>2. QED
  BY <1>1, ReducedBits, SameSigned

\* Arithmetic of integers in the interpreter: what fits the kind is exact.
LEMMA VmArithmeticRight ==
    ASSUME NEW op \in {"+", "-", "*", "//", "%"}, NEW t \in IntegerKinds, NEW l, NEW r, NEW stale, NEW v,
           Meant(l), VmRight(l), l.type = t, Meant(r), VmRight(r), r.type = t
    PROVE  LET n == IntegerOp(op, l.means.num, r.means.num, v)
           IN  /\ n \in Int
               /\ ~Uncut(n, t) => VmInteger(op, t, l, r, stale) = Signed(Reduced(n, t), Register(t))
<1>1. PICK a, b \in Int : a = l.means.num /\ b = r.means.num /\ Fits(a, t) /\ Fits(b, t)
  BY DEF Meant
<1>2. PICK w \in Nat \ {0} : w = Register(t) /\ Bits[t] <= w
  BY KindBits
<1>3. l.vm = Signed(a, w) /\ r.vm = Signed(b, w)
  BY <1>1, <1>2 DEF VmRight
<1>4. ReadOperand(l, Is128BitInteger(t), stale) = Signed(a, w) /\ ReadOperand(r, Is128BitInteger(t), stale) = Signed(b, w)
  BY <1>3 DEF ReadOperand
<1> DEFINE unsigned == UnsignedInstruction(op, t)
           raw == IntegerOp(op, ReadAs(unsigned, Signed(a, w), w), ReadAs(unsigned, Signed(b, w), w), w)
<1>5. VmInteger(op, t, l, r, stale) = Signed(raw, w)
  BY <1>2, <1>4 DEF VmInteger, Register
<1>6. PICK n : n = IntegerOp(op, a, b, v)
  OBVIOUS
<1>7. PICK m \in Nat \ {0} : m = TwoTo[w]
  BY Powers
<1>8. /\ Signed(a, w) \in Int /\ Signed(b, w) \in Int
      /\ Congruent(Signed(a, w), a, m) /\ Congruent(Signed(b, w), b, m)
  BY <1>7, SignedIs
<1>9. n \in Int /\ raw \in Int /\ Congruent(raw, n, m)
  <2>1. CASE op \in {"+", "-", "*"}
    <3>1. ~unsigned
      BY <2>1 DEF UnsignedInstruction
    <3>2. raw = IntegerOp(op, Signed(a, w), Signed(b, w), w)
      BY <3>1 DEF ReadAs
    <3>3. PICK x, y \in Int : x = Signed(a, w) /\ y = Signed(b, w) /\ Congruent(x, a, m) /\ Congruent(y, b, m)
      BY <1>8
    <3>4. m \in Int
      OBVIOUS
    <3>5. /\ IntegerOp(op, x, y, w) \in Int /\ IntegerOp(op, a, b, v) \in Int
          /\ Congruent(IntegerOp(op, x, y, w), IntegerOp(op, a, b, v), m)
      BY <2>1, <3>3, <3>4, RingOperator
    <3>6. QED
      <4> HIDE DEF raw
      <4> QED BY <1>6, <3>2, <3>3, <3>5
  <2>2. CASE op \in {"//", "%"}
    <3>1. unsigned <=> t \in UnsignedKinds
      BY <2>2 DEF UnsignedInstruction
    <3>2. ReadAs(unsigned, Signed(a, w), w) = a /\ ReadAs(unsigned, Signed(b, w), w) = b
      BY <1>1, <1>2, <3>1, ReadBack DEF ReadAs
    <3>3. raw = n /\ raw \in Int
      BY <1>6, <2>2, <3>2, DivisionOperator
    <3>4. QED
      BY <3>3, CongruentAlways
  <2>3. QED
    BY <2>1, <2>2
<1>10. ~Uncut(n, t) => Signed(raw, w) = Signed(Reduced(n, t), w)
  <2> HIDE DEF raw
  <2> QED BY <1>2, <1>7, <1>9, ResultBits
<1>11. QED
  <2> HIDE DEF raw
  <2> QED BY <1>1, <1>2, <1>5, <1>6, <1>9, <1>10

\* Arithmetic of integers in compiled code: all results are cut to the kind.
LEMMA LlvmArithmeticRight ==
    ASSUME NEW op \in {"+", "-", "*", "//", "%"}, NEW t \in IntegerKinds, NEW l, NEW r, NEW v,
           Meant(l), LlvmRight(l), l.type = t, Meant(r), LlvmRight(r), r.type = t
    PROVE  LET n == IntegerOp(op, l.means.num, r.means.num, v)
           IN  /\ n \in Int
               /\ LlvmInteger(op, t, l, r) = Signed(Reduced(n, t), Bits[t])
<1>1. PICK a, b \in Int : a = l.means.num /\ b = r.means.num /\ Fits(a, t) /\ Fits(b, t)
  BY DEF Meant
<1>2. PICK w \in Nat \ {0} : w = Bits[t] /\ Bits[t] <= w
  BY KindBits
<1>3. PICK m \in Nat \ {0} : m = TwoTo[w]
  BY Powers
<1>4. /\ Signed(a, w) \in Int /\ Signed(b, w) \in Int
      /\ Congruent(Signed(a, w), a, m) /\ Congruent(Signed(b, w), b, m)
      /\ Signed(Signed(a, w), w) = Signed(a, w) /\ Signed(Signed(b, w), w) = Signed(b, w)
  BY <1>3, SignedIs, SameSigned
<1>5. IntCast(l.llvm, l.type, t, TRUE) = Signed(a, w) /\ IntCast(r.llvm, r.type, t, TRUE) = Signed(b, w)
  BY <1>1, <1>2, <1>4 DEF LlvmRight, IntCast
<1> DEFINE unsigned == ~SignedType(t) /\ op \in {"//", "%", ">>"}
           raw == IntegerOp(op, ReadAs(unsigned, Signed(a, w), w), ReadAs(unsigned, Signed(b, w), w), w)
<1>6. LlvmInteger(op, t, l, r) = Signed(raw, w)
  BY <1>2, <1>5 DEF LlvmInteger, ReadAs
<1>7. PICK n : n = IntegerOp(op, a, b, v)
  OBVIOUS
<1>8. n \in Int /\ raw \in Int /\ Congruent(raw, n, m)
  <2>1. CASE op \in {"+", "-", "*"}
    <3>1. ~unsigned
      BY <2>1
    <3>2. raw = IntegerOp(op, Signed(a, w), Signed(b, w), w)
      BY <3>1 DEF ReadAs
    <3>3. PICK x, y \in Int : x = Signed(a, w) /\ y = Signed(b, w) /\ Congruent(x, a, m) /\ Congruent(y, b, m)
      BY <1>4
    <3>4. m \in Int
      OBVIOUS
    <3>5. /\ IntegerOp(op, x, y, w) \in Int /\ IntegerOp(op, a, b, v) \in Int
          /\ Congruent(IntegerOp(op, x, y, w), IntegerOp(op, a, b, v), m)
      BY <2>1, <3>3, <3>4, RingOperator
    <3>6. QED
      <4> HIDE DEF raw
      <4> QED BY <1>7, <3>2, <3>3, <3>5
  <2>2. CASE op \in {"//", "%"}
    <3>1. unsigned <=> t \in UnsignedKinds
      BY <2>2 DEF SignedType
    <3>2. ReadAs(unsigned, Signed(a, w), w) = a /\ ReadAs(unsigned, Signed(b, w), w) = b
      BY <1>1, <1>2, <3>1, ReadBack DEF ReadAs
    <3>3. raw = n /\ raw \in Int
      BY <1>7, <2>2, <3>2, DivisionOperator
    <3>4. QED
      BY <3>3, CongruentAlways
  <2>3. QED
    BY <2>1, <2>2
<1>9. Signed(raw, w) = Signed(Reduced(n, t), w)
  <2> HIDE DEF raw
  <2> QED BY <1>2, <1>3, <1>8, ResultBits
<1>10. QED
  <2> HIDE DEF raw
  <2> QED BY <1>1, <1>2, <1>6, <1>7, <1>8, <1>9

-----------------------------------------------------------------------------
\* Bitwise operators and shifts.

\* Whatever agrees with the count in as many bits as a word has, counts the same.
LEMMA SameCount ==
    ASSUME NEW w \in {NarrowBits, WordBits, WideBits}, NEW a \in Int, NEW b \in Int, Congruent(a, b, TwoTo[w])
    PROVE  a % w = b % w /\ a % w \in Nat
<1>1. w \in Nat \ {0} /\ TwoTo[w] % w = 0
  BY WidthsAssumption
<1>2. PICK p \in Nat, k \in Int : p = TwoTo[w] /\ p = k * w
  <2>1. \A p \in Nat : p = (p \div w) * w + (p % w) /\ p \div w \in Int
    BY <1>1
  <2>2. TwoTo[w] \in Nat
    BY <1>1, Powers
  <2>3. PICK p \in Nat : p = TwoTo[w] /\ p % w = 0
    BY <1>1, <2>2
  <2>4. p = (p \div w) * w /\ p \div w \in Int
    BY <1>1, <2>1, <2>3
  <2>5. QED
    BY <2>3, <2>4
<1>3. Congruent(a, b, w)
  <2>1. w \in Int /\ Congruent(a, b, k * w)
    BY <1>1, <1>2
  <2>2. QED
    BY <2>1, CongruentFiner
<1>4. QED
  BY <1>1, <1>3, SameRemainder, Remainders

\* The exact result of a bitwise operator or of a shift.
ExactBits(op, t, a, b) ==
    IF op \in {"<<", ">>"} THEN IntegerOp(op, a, b % Bits[t], WideBits) ELSE IntegerOp(op, a, b, WideBits + 1)

\* The same low bits of both operands, the left one exactly where it is shifted to the
\* right, and the same count give the same low bits of the result.
LEMMA BitsRight ==
    ASSUME NEW op \in BitOperators, NEW t \in IntegerKinds, NEW a \in Int, NEW b \in Int, NEW c \in Int, NEW d \in Int,
           NEW w \in Nat \ {0}, w <= WideBits, Congruent(a, c, TwoTo[w]), Congruent(b, d, TwoTo[w]),
           op = ">>" => a = c, op \in {"<<", ">>"} => b % w = d % Bits[t]
    PROVE  LET raw == IntegerOp(op, a, IF op \in {"<<", ">>"} THEN b % w ELSE b, w)
           IN  raw \in Int /\ ExactBits(op, t, c, d) \in Int /\ Congruent(raw, ExactBits(op, t, c, d), TwoTo[w])
<1>1. PICK m \in Nat \ {0} : m = TwoTo[w]
  BY Powers
<1>2. b % w \in Nat
  BY Remainders
<1>3. CASE op \in BitwiseOperators
  <2>1. WideBits + 1 \in Nat \ {0} /\ w <= WideBits + 1
    BY Widths
  <2>2. op \notin {"<<", ">>"}
    BY <1>3 DEF BitwiseOperators
  <2>3. QED
    BY <1>3, <2>1, <2>2, BitwiseLocal DEF ExactBits
<1>4. CASE op = "<<"
  <2>1. PICK p \in Nat : p = TwoTo[b % w] /\ p = TwoTo[d % Bits[t]]
    BY <1>2, <1>4, Powers
  <2>2. IntegerOp(op, a, b % w, w) = a * p /\ ExactBits(op, t, c, d) = c * p
    BY <1>4, <2>1 DEF IntegerOp, ExactBits
  <2>3. Congruent(a * p, c * p, m)
    <3>1. p \in Int /\ m \in Int /\ Congruent(a, c, m)
      BY <1>1
    <3>2. Congruent(p, p, m)
      BY <3>1, CongruentAlways
    <3>3. QED
      BY <3>1, <3>2, CongruentProduct
  <2>4. QED
    BY <1>1, <1>4, <2>2, <2>3
<1>5. CASE op = ">>"
  <2>1. PICK p \in Nat \ {0} : p = TwoTo[b % w] /\ p = TwoTo[d % Bits[t]]
    BY <1>2, <1>5, Powers
  <2>2. IntegerOp(op, a, b % w, w) = c \div p /\ ExactBits(op, t, c, d) = c \div p
    BY <1>5, <2>1 DEF IntegerOp, ExactBits
  <2>3. c \div p \in Int
    BY Remainders
  <2>4. QED
    BY <1>1, <1>5, <2>2, <2>3, CongruentAlways
<1>6. QED
  BY <1>3, <1>4, <1>5 DEF BitOperators, BitwiseOperators

\* The count of a shift, in any register that agrees with it.
LEMMA CountRight ==
    ASSUME NEW t \in IntegerKinds, NEW b \in Int, NEW d \in Int, NEW w \in {NarrowBits, WordBits, WideBits},
           Bits[t] <= w, Bits[t] # w => Narrow(t) /\ d \in 0 .. Bits[t] - 1,
           Congruent(b, d, TwoTo[w])
    PROVE  b % w = d % Bits[t]
<1>1. b % w = d % w
  BY SameCount
<1>2. ASSUME Bits[t] # w
      PROVE  d % w = d % Bits[t]
  <2>1. PICK k \in Nat \ {0}, v \in Nat \ {0} : k = Bits[t] /\ v = w
    BY KindBits, Widths
  <2>2. d \in Nat /\ d < k /\ d < v
    BY <1>2, <2>1
  <2>3. d \in Int /\ 0 <= d
    BY <2>2
  <2>4. d % k = d
    BY <2>2, <2>3, Remainders
  <2>5. d % v = d
    BY <2>2, <2>3, Remainders
  <2>6. QED
    BY <2>1, <2>4, <2>5
<1>3. QED
  BY <1>1, <1>2

\* Bitwise operators and shifts in the interpreter, but for the cases the module names.
LEMMA VmBitsRight ==
    ASSUME NEW op \in BitOperators, NEW t \in IntegerKinds, NEW l, NEW r, NEW stale,
           Meant(l), VmRight(l), l.type = t,
           Meant(r), VmRight(r), ShortLiteral(r), r.type \in IntegerKinds,
           ~OtherFile(op, l, r), ~LongCount(op, t, r)
    PROVE  LET n == ExactBits(op, t, l.means.num, r.means.num)
           IN  /\ n \in Int
               /\ ~Uncut(n, t) => VmInteger(op, t, l, r, stale) = Signed(Reduced(n, t), Register(t))
<1>1. PICK a, b \in Int : a = l.means.num /\ b = r.means.num /\ Fits(a, t) /\ Fits(b, r.type)
  BY DEF Meant
<1>2. PICK w \in Nat \ {0} : w = Register(t) /\ Bits[t] <= w /\ w <= WideBits /\ w \in {WordBits, WideBits}
  BY KindBits, Widths DEF Register, RegisterBits
<1>3. PICK m \in Nat \ {0} : m = TwoTo[w]
  BY Powers
<1>4. ReadOperand(l, Is128BitInteger(t), stale) = Signed(a, w)
  BY <1>1, <1>2 DEF VmRight, ReadOperand
<1>5. PICK y \in Int : y = ReadOperand(r, Is128BitInteger(t), stale) /\ Congruent(y, b, m)
  <2>1. ReadOperand(r, Is128BitInteger(t), stale) = r.vm /\ r.vm = Signed(b, Register(r.type))
    BY <1>1 DEF ReadOperand, OtherFile, VmRight
  <2>2. CASE r.literal
    <3>1. Fits(b, "i64") /\ Register(r.type) \in Nat /\ WordBits <= Register(r.type)
      BY <1>1, <2>2, KindBits, Widths DEF ShortLiteral, Register, RegisterBits
    <3>2. Signed(b, Register(r.type)) = b
      BY <1>1, <3>1, LiteralBits
    <3>3. QED
      BY <2>1, <3>2, CongruentAlways
  <2>3. CASE ~r.literal
    <3>1. Register(r.type) = w
      BY <1>2, <2>3 DEF OtherFile, Register
    <3>2. QED
      BY <1>3, <2>1, <3>1, SignedIs
  <2>4. QED
    BY <2>2, <2>3
<1>6. PICK x \in Int : x = ReadAs(UnsignedInstruction(op, t), Signed(a, w), w) /\ Congruent(x, a, m) /\ (op = ">>" => x = a)
  <2>1. CASE op = ">>"
    <3>1. UnsignedInstruction(op, t) <=> t \in UnsignedKinds
      BY <2>1 DEF UnsignedInstruction
    <3>2. ReadAs(UnsignedInstruction(op, t), Signed(a, w), w) = a
      BY <1>1, <1>2, <3>1, ReadBack DEF ReadAs
    <3>3. QED
      BY <3>2, CongruentAlways
  <2>2. CASE op # ">>"
    <3>1. ~UnsignedInstruction(op, t)
      BY <2>2 DEF UnsignedInstruction, BitOperators
    <3>2. QED
      BY <1>3, <2>2, <3>1, SignedIs DEF ReadAs
  <2>3. QED
    BY <2>1, <2>2
<1>7. op \in {"<<", ">>"} => y % w = b % Bits[t]
  <2>1. SUFFICES ASSUME op \in {"<<", ">>"} PROVE y % w = b % Bits[t]
    OBVIOUS
  <2>2. Bits[t] # w => Narrow(t) /\ b \in 0 .. Bits[t] - 1
    BY <1>1, <1>2, <2>1, KindBits, KindsDiffer DEF LongCount
  <2>3. w \in {NarrowBits, WordBits, WideBits} /\ Congruent(y, b, TwoTo[w])
    BY <1>2, <1>3, <1>5
  <2>4. QED
    BY <1>2, <2>2, <2>3, CountRight
<1>8. op \notin {"<<", ">>"} => ReadAs(UnsignedInstruction(op, t), y, w) = y
  BY DEF UnsignedInstruction, ReadAs, BitOperators
<1> DEFINE raw == IntegerOp(op, x, IF op \in {"<<", ">>"} THEN y % w ELSE y, w)
           n == ExactBits(op, t, a, b)
<1>9. VmInteger(op, t, l, r, stale) = Signed(raw, w)
  BY <1>2, <1>4, <1>5, <1>6, <1>8 DEF VmInteger, Register
<1>10. raw \in Int /\ n \in Int /\ Congruent(raw, n, TwoTo[w])
  BY <1>2, <1>3, <1>5, <1>6, <1>7, BitsRight
<1>11. QED
  <2> HIDE DEF raw, n
  <2>1. ~Uncut(n, t) => Signed(raw, w) = Signed(Reduced(n, t), w)
    BY <1>2, <1>10, ResultBits
  <2>2. n = ExactBits(op, t, l.means.num, r.means.num)
    BY <1>1 DEF n
  <2>3. QED
    BY <1>2, <1>9, <1>10, <2>1, <2>2

\* Bitwise operators and shifts in compiled code, but for operands extended with their sign.
LEMMA LlvmBitsRight ==
    ASSUME NEW op \in BitOperators, NEW t \in IntegerKinds, NEW l, NEW r,
           Meant(l), LlvmRight(l), l.type = t,
           Meant(r), LlvmRight(r), r.type \in IntegerKinds, ~SignExtended(op, l, r)
    PROVE  LET n == ExactBits(op, t, l.means.num, r.means.num)
           IN  /\ n \in Int
               /\ LlvmInteger(op, t, l, r) = Signed(Reduced(n, t), Bits[t])
<1>1. PICK a, b \in Int : a = l.means.num /\ b = r.means.num /\ Fits(a, t) /\ Fits(b, r.type)
  BY DEF Meant
<1>2. PICK w \in Nat \ {0} : w = Bits[t] /\ Bits[t] <= w /\ w <= WideBits /\ w \in {NarrowBits, WordBits, WideBits}
  BY KindBits, Widths DEF IntegerKinds, SignedKinds, UnsignedKinds
<1>3. PICK m \in Nat \ {0} : m = TwoTo[w]
  BY Powers
<1>4. IntCast(l.llvm, l.type, t, TRUE) = Signed(a, w)
  <2>1. l.llvm = Signed(a, w)
    BY <1>1, <1>2 DEF LlvmRight
  <2>2. Signed(Signed(a, w), w) = Signed(a, w)
    BY <1>3, SignedIs, SameSigned
  <2>3. QED
    BY <1>2, <2>1, <2>2 DEF IntCast
<1>5. PICK y \in Int : y = IntCast(r.llvm, r.type, t, TRUE) /\ Congruent(y, b, m)
  <2>1. PICK v \in Nat \ {0} : v = Bits[r.type] /\ Bits[r.type] <= v
    BY KindBits
  <2>2. r.llvm = Signed(b, v)
    BY <1>1, <2>1 DEF LlvmRight
  <2>3. PICK z \in Int : z = r.llvm /\ Congruent(z, b, m)
    <3>1. CASE w <= v
      <4>1. PICK k \in Nat \ {0}, p \in Nat \ {0} : p = TwoTo[v] /\ p = k * m
        <5>1. PICK k \in Nat \ {0} : TwoTo[v] = k * TwoTo[w]
          BY <3>1, PowerDivides
        <5>2. TwoTo[v] \in Nat \ {0}
          BY Powers
        <5>3. QED
          BY <1>3, <5>1, <5>2
      <4>2. PICK z \in Int : z = Signed(b, v) /\ Congruent(z, b, k * m)
        <5>1. Signed(b, v) \in Int /\ Congruent(Signed(b, v), b, TwoTo[v])
          BY SignedIs
        <5>2. QED
          BY <4>1, <5>1
      <4>3. m \in Int /\ k \in Int
        OBVIOUS
      <4>4. Congruent(z, b, m)
        BY <4>2, <4>3, CongruentFiner
      <4>5. QED
        BY <2>2, <4>2, <4>4
    <3>2. CASE v < w
      <4>1. Signed(b, v) = b
        <5>1. CASE r.type \in SignedKinds
          BY <1>1, <2>1, <5>1, SignedRange
        <5>2. CASE r.type \in UnsignedKinds
          <6>1. 0 <= b
            BY <1>1, <2>1, <5>2, UnsignedRange
          <6>2. PICK h \in Nat \ {0} : h = TwoTo[v - 1]
            BY <2>1, Words
          <6>3. b < h
            BY <1>1, <1>2, <2>1, <3>2, <5>2, <6>2 DEF SignExtended
          <6>4. QED
            <7>1. -TwoTo[v - 1] <= b /\ b < TwoTo[v - 1]
              BY <6>1, <6>2, <6>3
            <7>2. QED
              BY <7>1, SignedIs
        <5>3. QED
          BY <5>1, <5>2 DEF IntegerKinds
      <4>2. QED
        BY <2>2, <4>1, CongruentAlways
    <3>3. QED
      BY <3>1, <3>2
  <2>4. IntCast(r.llvm, r.type, t, TRUE) = Signed(z, w)
    BY <1>2, <2>3 DEF IntCast
  <2>5. PICK y \in Int : y = Signed(z, w) /\ Congruent(y, z, m)
    BY <1>3, SignedIs
  <2>6. Congruent(y, b, m)
    BY <2>3, <2>5, CongruentOn
  <2>7. QED
    BY <2>4, <2>5, <2>6
<1> DEFINE unsigned == ~SignedType(t) /\ op \in {"//", "%", ">>"}
<1>6. PICK x \in Int : x = ReadAs(unsigned, Signed(a, w), w) /\ Congruent(x, a, m) /\ (op = ">>" => x = a)
  <2>1. CASE op = ">>"
    <3>1. unsigned <=> t \in UnsignedKinds
      BY <2>1 DEF SignedType
    <3>2. ReadAs(unsigned, Signed(a, w), w) = a
      BY <1>1, <1>2, <3>1, ReadBack DEF ReadAs
    <3>3. QED
      BY <3>2, CongruentAlways
  <2>2. CASE op # ">>"
    <3>1. ~unsigned
      BY <2>2 DEF BitOperators
    <3>2. QED
      BY <1>3, <2>2, <3>1, SignedIs DEF ReadAs
  <2>3. QED
    BY <2>1, <2>2
<1>7. op \in {"<<", ">>"} => y % w = b % Bits[t]
  <2>1. Congruent(y, b, TwoTo[w]) /\ Bits[t] = w
    BY <1>2, <1>3, <1>5
  <2>2. QED
    BY <1>2, <2>1, SameCount
<1>8. op \notin {"<<", ">>"} => ReadAs(unsigned, y, w) = y
  BY DEF ReadAs, BitOperators
<1> DEFINE raw == IntegerOp(op, x, IF op \in {"<<", ">>"} THEN y % w ELSE y, w)
           n == ExactBits(op, t, a, b)
<1>9. LlvmInteger(op, t, l, r) = Signed(raw, w)
  BY <1>2, <1>4, <1>5, <1>6, <1>8 DEF LlvmInteger, ReadAs
<1>10. raw \in Int /\ n \in Int /\ Congruent(raw, n, TwoTo[w])
  <2>1. w <= WideBits /\ Congruent(x, a, TwoTo[w]) /\ Congruent(y, b, TwoTo[w])
    BY <1>2, <1>3, <1>5, <1>6
  <2>2. QED
    BY <1>6, <1>7, <2>1, BitsRight
<1>11. QED
  <2> HIDE DEF raw, n
  <2>1. Signed(raw, w) = Signed(Reduced(n, t), w)
    BY <1>2, <1>10, ResultBits
  <2>2. n = ExactBits(op, t, l.means.num, r.means.num)
    BY <1>1 DEF n
  <2>3. QED
    BY <1>2, <1>9, <1>10, <2>1, <2>2

-----------------------------------------------------------------------------
\* Comparisons, connectives and ratios.

\* A comparison of ratios is true or false.
LEMMA CompareIs ==
    ASSUME NEW op \in Comparisons, NEW x, x.num \in Int, x.den \in Int,
           NEW y, y.num \in Int, y.den \in Int
    PROVE  Compare(op, x, y) \in BOOLEAN
<1>1. Less(x, y) \in BOOLEAN /\ Less(y, x) \in BOOLEAN
  <2>1. PICK a \in Int, b \in Int : a = x.num * y.den /\ b = y.num * x.den
    OBVIOUS
  <2>2. (a < b) \in BOOLEAN /\ (b < a) \in BOOLEAN
    OBVIOUS
  <2>3. QED
    BY <2>1, <2>2 DEF Less
<1>2. CASE op = "<"
  BY <1>1, <1>2 DEF Compare
<1>3. CASE op = "<="
  BY <1>1, <1>3 DEF Compare
<1>4. CASE op = ">"
  BY <1>1, <1>4 DEF Compare
<1>5. CASE op = ">="
  BY <1>1, <1>5 DEF Compare
<1>6. CASE op = "=="
  BY <1>6 DEF Compare
<1>7. CASE op = "!="
  BY <1>7 DEF Compare
<1>8. QED
  BY <1>2, <1>3, <1>4, <1>5, <1>6, <1>7 DEF Comparisons

\* The interpreter compares what operands of one type mean, and so does
LEMMA VmComparisonRight ==
    ASSUME NEW op, NEW l, NEW r, NEW stale, Meant(l), VmRight(l), ~NotOneBit(l),
           Meant(r), VmRight(r), ~NotOneBit(r), l.type = r.type
    PROVE  VmComparison(op, l, r, stale) = Truth(Compare(op, l.means, r.means))
<1> DEFINE wide == Is128BitInteger(l.type) \/ Is128BitInteger(r.type)
           Read(x) == Whole(ReadAs(l.type \in UnsignedKinds, ReadOperand(x, wide, stale), RegisterBits(wide)))
<1>0. "f64" \notin {l.type, r.type} => VmComparison(op, l, r, stale) = Truth(Compare(op, Read(l), Read(r)))
  BY Zenon DEF VmComparison
<1>1. CASE l.type = "f64"
  <2>1. l.vm = l.means /\ r.vm = r.means
    BY <1>1 DEF VmRight
  <2>2. QED
    BY <1>1, <2>1 DEF VmComparison
<1>2. CASE l.type \in IntegerKinds
  <2>1. PICK t \in IntegerKinds : t = l.type /\ t = r.type
    BY <1>2
  <2>2. PICK w \in Nat \ {0} : w = Register(t) /\ Bits[t] <= w /\ w = RegisterBits(Is128BitInteger(t))
    BY KindBits DEF Register
  <2>3. ASSUME NEW x, Meant(x), VmRight(x), x.type = t
        PROVE  Whole(ReadAs(t \in UnsignedKinds, ReadOperand(x, Is128BitInteger(t), stale), w)) = x.means
    <3>1. PICK n \in Int : n = x.means.num /\ Fits(n, t) /\ x.means = Whole(n) /\ x.vm = Signed(n, w)
      BY <2>2, <2>3 DEF Meant, VmRight
    <3>2. ReadOperand(x, Is128BitInteger(t), stale) = Signed(n, w)
      BY <2>3, <3>1 DEF ReadOperand
    <3>3. ReadAs(t \in UnsignedKinds, Signed(n, w), w) = n
      BY <2>2, <3>1, ReadBack
    <3>4. QED
      BY <3>1, <3>2, <3>3
  <2>4. "f64" \notin {l.type, r.type}
    BY <2>1, KindsDiffer
  <2>5. /\ Whole(ReadAs(t \in UnsignedKinds, ReadOperand(l, Is128BitInteger(t), stale), w)) = l.means
        /\ Whole(ReadAs(t \in UnsignedKinds, ReadOperand(r, Is128BitInteger(t), stale), w)) = r.means
    BY <2>1, <2>3
  <2>6. wide = Is128BitInteger(t)
    BY <2>1 DEF Is128BitInteger
  <2>7. Read(l) = l.means /\ Read(r) = r.means
    BY <2>1, <2>2, <2>5, <2>6
  <2>8. QED
    BY <1>0, <2>4, <2>7
<1>3. CASE l.type = "bool"
  <2>1. l.vm = l.means.num /\ r.vm = r.means.num /\ l.means = Whole(l.means.num) /\ r.means = Whole(r.means.num)
    BY <1>3, OneBit
  <2>2. ~Is128BitInteger("bool") /\ "bool" \notin UnsignedKinds /\ "f64" \notin {l.type, r.type}
    BY <1>3 DEF Is128BitInteger, UnsignedKinds
  <2>3. QED
    <3>1. ReadOperand(l, wide, stale) = l.vm /\ ReadOperand(r, wide, stale) = r.vm
      <4>1. Is128BitInteger(l.type) = wide /\ Is128BitInteger(r.type) = wide
        BY <1>3 DEF Is128BitInteger
      <4>2. QED
        BY <4>1 DEF ReadOperand
    <3>2. Read(l) = Whole(l.vm) /\ Read(r) = Whole(r.vm)
      BY <1>3, <2>2, <3>1 DEF ReadAs
    <3>3. Read(l) = l.means /\ Read(r) = r.means
      BY <2>1, <3>2
    <3>4. QED
      BY <1>0, <2>2, <3>3
<1>4. QED
  BY <1>1, <1>2, <1>3, KindsDiffer DEF Meant

\* compiled code, except for the order of truth values.
LEMMA LlvmComparisonRight ==
    ASSUME NEW op \in Comparisons, NEW l, NEW r, Meant(l), LlvmRight(l), ~OrderedTruth(op, l),
           Meant(r), LlvmRight(r), l.type = r.type
    PROVE  LlvmComparison(op, l, r) = Signed(Truth(Compare(op, l.means, r.means)), 1)
<1>1. CASE l.type = "f64"
  <2>1. l.llvm = l.means /\ r.llvm = r.means
    BY <1>1 DEF LlvmRight
  <2>2. QED
    BY <1>1, <2>1 DEF LlvmComparison
<1>2. CASE l.type \in IntegerKinds
  <2>1. PICK t \in IntegerKinds : t = l.type /\ t = r.type
    BY <1>2
  <2>2. PICK w \in Nat \ {0} : w = Bits[t] /\ Bits[t] <= w
    BY KindBits
  <2>3. ASSUME NEW x, Meant(x), LlvmRight(x), x.type = t
        PROVE  /\ Whole(ReadAs(t \in UnsignedKinds, x.llvm, w)) = x.means
               /\ Signed(x.llvm, w) = x.llvm
    <3>1. PICK n \in Int : n = x.means.num /\ Fits(n, t) /\ x.means = Whole(n) /\ x.llvm = Signed(n, w)
      BY <2>2, <2>3 DEF Meant, LlvmRight
    <3>2. Signed(Signed(n, w), w) = Signed(n, w)
      BY SignedIs, SameSigned
    <3>3. ReadAs(t \in UnsignedKinds, Signed(n, w), w) = n
      BY <2>2, <3>1, ReadBack
    <3>4. QED
      BY <3>1, <3>2, <3>3
  <2>4. l.type # "f64" /\ (SignedType(t) <=> t \notin UnsignedKinds)
    BY <2>1, KindsDiffer DEF SignedType
  <2>5. /\ Whole(ReadAs(t \in UnsignedKinds, l.llvm, w)) = l.means
        /\ Whole(ReadAs(t \in UnsignedKinds, Signed(r.llvm, w), w)) = r.means
    BY <2>1, <2>3
  <2>6. QED
    BY <2>1, <2>2, <2>4, <2>5 DEF LlvmComparison, IntCast, ReadAs
<1>3. CASE l.type = "bool"
  <2>1. PICK a \in {0, 1}, b \in {0, 1} : l.means = Whole(a) /\ r.means = Whole(b) /\ l.llvm = Signed(a, 1) /\ r.llvm = Signed(b, 1)
    BY <1>3, OneBit, Widths DEF LlvmRight
  <2>2. SignedType("bool") /\ Signed(Signed(b, 1), 1) = Signed(b, 1)
    <3>1. b \in Int /\ 1 \in Nat \ {0}
      OBVIOUS
    <3>2. Signed(Signed(b, 1), 1) = Signed(b, 1)
      BY <3>1, SignedIs, SameSigned
    <3>3. QED
      BY <3>2 DEF SignedType, UnsignedKinds
  <2>3. LlvmComparison(op, l, r) = Signed(Truth(Compare(op, Whole(Signed(a, 1)), Whole(Signed(b, 1)))), 1)
    BY <1>3, <2>1, <2>2, Widths DEF LlvmComparison, IntCast
  <2>4. op \in {"==", "!="}
    BY <1>3 DEF OrderedTruth, Comparisons
  <2>5. (Whole(Signed(a, 1)) = Whole(Signed(b, 1))) <=> (Whole(a) = Whole(b))
    BY TruthIs, WholeIs
  <2>6. Compare(op, Whole(Signed(a, 1)), Whole(Signed(b, 1))) = Compare(op, Whole(a), Whole(b))
    BY <2>4, <2>5 DEF Compare
  <2>7. QED
    BY <2>1, <2>3, <2>6
<1>4. QED
  BY <1>1, <1>2, <1>3, KindsDiffer DEF Meant

\* A connective gives one of the two truth values, in both back ends the right one.
LEMMA ConnectiveRight ==
    ASSUME NEW op \in Logical, NEW a \in BOOLEAN, NEW b \in BOOLEAN, NEW l, NEW r, NEW stale,
           l.type = "bool", l.means = Whole(Truth(a)), r.type = "bool", r.means = Whole(Truth(b))
    PROVE  LET c == IF op = "&&" THEN a /\ b ELSE a \/ b
           IN  /\ VmRight(l) /\ VmRight(r) => VmBinary(op, "bool", l, r, stale) \in Int
                                              /\ (VmBinary(op, "bool", l, r, stale) = 0 <=> Truth(c) = 0)
               /\ LlvmRight(l) /\ LlvmRight(r) => LlvmBinary(op, "bool", l, r) = Signed(Truth(c), 1)
<1> DEFINE c == IF op = "&&" THEN a /\ b ELSE a \/ b
<1>1. Truth(TRUE) = 1 /\ Truth(FALSE) = 0
  BY DEF Truth
<1>2. op \in {"&&", "||"} /\ op \notin Comparisons /\ l.means.num = Truth(a) /\ r.means.num = Truth(b)
  BY WholeIs DEF Logical, Comparisons
<1>3. VmRight(l) /\ VmRight(r) => VmBinary(op, "bool", l, r, stale) \in Int
                                  /\ (VmBinary(op, "bool", l, r, stale) = 0 <=> Truth(c) = 0)
  <2>1. SUFFICES ASSUME VmRight(l), VmRight(r)
                 PROVE  VmBinary(op, "bool", l, r, stale) \in Int /\ (VmBinary(op, "bool", l, r, stale) = 0 <=> Truth(c) = 0)
    OBVIOUS
  <2>2. l.vm \in Int /\ r.vm \in Int /\ (l.vm = 0 <=> ~a) /\ (r.vm = 0 <=> ~b)
    <3>1. l.vm \in Int /\ r.vm \in Int /\ (l.vm = 0 <=> Truth(a) = 0) /\ (r.vm = 0 <=> Truth(b) = 0)
      BY <1>2, <2>1 DEF VmRight
    <3>2. (Truth(a) = 0 <=> ~a) /\ (Truth(b) = 0 <=> ~b)
      BY TruthIs
    <3>3. QED
      BY <3>1, <3>2
  <2>3. (Truth(c) = 0) <=> ~c
    BY TruthIs
  <2>4. CASE op = "&&"
    <3>1. VmBinary(op, "bool", l, r, stale) = IF l.vm # 0 THEN r.vm ELSE l.vm
      BY <1>2, <2>4 DEF VmBinary, Comparisons
    <3>2. (Truth(c) = 0) <=> ~(a /\ b)
      BY <2>3, <2>4
    <3>3. CASE l.vm = 0
      BY <2>2, <3>1, <3>2, <3>3
    <3>4. CASE l.vm # 0
      BY <2>2, <3>1, <3>2, <3>4
    <3>5. QED
      BY <3>3, <3>4
  <2>5. CASE op = "||"
    <3>1. VmBinary(op, "bool", l, r, stale) = IF l.vm # 0 THEN l.vm ELSE r.vm
      BY <1>2, <2>5 DEF VmBinary, Comparisons
    <3>2. (Truth(c) = 0) <=> ~(a \/ b)
      BY <2>3, <2>5
    <3>3. CASE l.vm = 0
      BY <2>2, <3>1, <3>2, <3>3
    <3>4. CASE l.vm # 0
      BY <2>2, <3>1, <3>2, <3>4
    <3>5. QED
      BY <3>3, <3>4
  <2>6. QED
    BY <1>2, <2>4, <2>5
<1>4. LlvmRight(l) /\ LlvmRight(r) => LlvmBinary(op, "bool", l, r) = Signed(Truth(c), 1)
  <2>1. SUFFICES ASSUME LlvmRight(l), LlvmRight(r)
                 PROVE  LlvmBinary(op, "bool", l, r) = Signed(Truth(c), 1)
    OBVIOUS
  <2>2. l.llvm = Signed(Truth(a), 1) /\ r.llvm = Signed(Truth(b), 1)
    BY <1>2, <2>1, Widths DEF LlvmRight
  <2>3. PICK zero, one : zero = Signed(0, 1) /\ one = Signed(1, 1) /\ zero = 0 /\ one # 0
    BY TruthIs
  <2>4. CASE op = "&&"
    BY <1>1, <1>2, <2>2, <2>3, <2>4 DEF LlvmBinary
  <2>5. CASE op = "||"
    BY <1>1, <1>2, <2>2, <2>3, <2>5 DEF LlvmBinary
  <2>6. QED
    BY <1>2, <2>4, <2>5
<1>5. QED
  BY <1>3, <1>4

\* An operator on ratios gives a ratio.
LEMMA RatioOpIs ==
    ASSUME NEW op \in {"+", "-", "*", "/"}, NEW x, x.num \in Int, x.den \in Int,
           NEW y, y.num \in Int, y.den \in Int
    PROVE  RatioOp(op, x, y).num \in Int /\ RatioOp(op, x, y).den \in Nat \ {0}
<1>1. /\ x.num * y.den + y.num * x.den \in Int /\ x.num * y.den - y.num * x.den \in Int
      /\ x.num * y.num \in Int /\ x.num * y.den \in Int /\ x.den * y.den \in Int /\ x.den * y.num \in Int
  OBVIOUS
<1>2. CASE op = "+"
  BY <1>1, <1>2, RatioIs DEF RatioOp
<1>3. CASE op = "-"
  BY <1>1, <1>3, RatioIs DEF RatioOp
<1>4. CASE op = "*"
  BY <1>1, <1>4, RatioIs DEF RatioOp
<1>5. CASE op = "/"
  BY <1>1, <1>5, RatioIs DEF RatioOp
<1>6. QED
  BY <1>2, <1>3, <1>4, <1>5

-----------------------------------------------------------------------------
\* What a step leaves, by the type of it.

\* An integer: the exact result cut to its kind.
LEMMA IntegerResult ==
    ASSUME NEW t \in IntegerKinds, NEW n \in Int, NEW vm, NEW llvm
    PROVE  LET x == Value(t, FALSE, Cut(Whole(n), t), vm, llvm)
           IN  /\ Meant(x) /\ ShortLiteral(x)
               /\ vm = Signed(Reduced(n, t), Register(t)) => VmRight(x)
               /\ llvm = Signed(Reduced(n, t), Bits[t]) => LlvmRight(x)
<1> DEFINE x == Value(t, FALSE, Cut(Whole(n), t), vm, llvm)
<1>1. PICK m \in Int : m = Reduced(n, t) /\ Fits(m, t)
  BY ReducedIs
<1>2. Cut(Whole(n), t) = Whole(m)
  BY <1>1, WholeIs DEF Cut
<1>3. /\ x.type = t /\ x.literal = FALSE /\ x.means = Whole(m) /\ x.vm = vm /\ x.llvm = llvm
      /\ x.means.num = m /\ x.means.den = 1
  <2>1. x = Value(t, FALSE, Whole(m), vm, llvm)
    BY <1>2
  <2>2. QED
    BY <2>1, WholeIs DEF Value
<1>4. t \in Types /\ t # "bool" /\ t # "f64" /\ 1 \in Nat \ {0}
  BY KindsDiffer
<1>5. QED
  <2> HIDE DEF x
  <2>1. Meant(x) /\ ShortLiteral(x)
    BY <1>1, <1>3, <1>4 DEF Meant, ShortLiteral
  <2>2. vm = Signed(Reduced(n, t), Register(t)) => VmRight(x)
    BY <1>1, <1>3, <1>4 DEF VmRight
  <2>3. llvm = Signed(Reduced(n, t), Bits[t]) => LlvmRight(x)
    BY <1>1, <1>3, <1>4 DEF LlvmRight
  <2>4. QED
    BY <2>1, <2>2, <2>3 DEF x

\* A truth value.
LEMMA TruthResult ==
    ASSUME NEW b \in BOOLEAN, NEW vm, NEW llvm
    PROVE  LET x == Value("bool", FALSE, Cut(Whole(Truth(b)), "bool"), vm, llvm)
           IN  /\ Meant(x) /\ ShortLiteral(x)
               /\ vm \in Int /\ (vm = 0 <=> Truth(b) = 0) => VmRight(x)
               /\ llvm = Signed(Truth(b), 1) => LlvmRight(x)
<1> DEFINE x == Value("bool", FALSE, Cut(Whole(Truth(b)), "bool"), vm, llvm)
<1>1. PICK m \in {0, 1} : m = Truth(b)
  BY TruthIs
<1>2. "bool" \notin IntegerKinds /\ "bool" # "f64" /\ "bool" \in Types
  BY KindsDiffer
<1>3. Cut(Whole(Truth(b)), "bool") = Whole(m)
  BY <1>1, <1>2 DEF Cut
<1>4. /\ x.type = "bool" /\ x.literal = FALSE /\ x.means = Whole(m) /\ x.vm = vm /\ x.llvm = llvm
      /\ x.means.num = m /\ x.means.den = 1
  <2>1. x = Value("bool", FALSE, Whole(m), vm, llvm)
    BY <1>3
  <2>2. QED
    BY <2>1, WholeIs DEF Value
<1>5. QED
  <2> HIDE DEF x
  <2>1. x.means.num \in Int /\ x.means.den \in Nat \ {0}
    BY <1>4
  <2>2. x.means = Whole(0) \/ x.means = Whole(1)
    BY <1>4
  <2>3. Meant(x) /\ ShortLiteral(x)
    BY <1>2, <1>4, <2>1, <2>2 DEF Meant, ShortLiteral
  <2>4. vm \in Int /\ (vm = 0 <=> Truth(b) = 0) => VmRight(x)
    BY <1>1, <1>2, <1>4 DEF VmRight
  <2>5. llvm = Signed(Truth(b), 1) => LlvmRight(x)
    BY <1>1, <1>2, <1>4, Widths DEF LlvmRight
  <2>6. QED
    BY <2>3, <2>4, <2>5 DEF x

\* A floating number: the exact result.
LEMMA RatioResult ==
    ASSUME NEW q, q.num \in Int, q.den \in Nat \ {0}, NEW vm, NEW llvm
    PROVE  LET x == Value("f64", FALSE, Cut(q, "f64"), vm, llvm)
           IN  /\ Meant(x) /\ ShortLiteral(x)
               /\ vm = q => VmRight(x)
               /\ llvm = q => LlvmRight(x)
<1> DEFINE x == Value("f64", FALSE, Cut(q, "f64"), vm, llvm)
<1>1. "f64" \notin IntegerKinds /\ "f64" # "bool" /\ "f64" \in Types
  BY KindsDiffer
<1>2. Cut(q, "f64") = q
  BY <1>1 DEF Cut
<1>3. x.type = "f64" /\ x.literal = FALSE /\ x.means = q /\ x.vm = vm /\ x.llvm = llvm
  <2>1. x = Value("f64", FALSE, q, vm, llvm)
    BY <1>2
  <2>2. QED
    BY <2>1 DEF Value
<1>4. QED
  <2> HIDE DEF x
  <2>1. Meant(x) /\ ShortLiteral(x)
    BY <1>1, <1>3 DEF Meant, ShortLiteral
  <2>2. (vm = q => VmRight(x)) /\ (llvm = q => LlvmRight(x))
    BY <1>1, <1>3 DEF VmRight, LlvmRight
  <2>3. QED
    BY <2>1, <2>2 DEF x

-----------------------------------------------------------------------------
\* What the annotation makes of the operands of an operator.

\* A literal that takes the type of the other operand fits it.
LEMMA Retyped ==
    ASSUME NEW l, Meant(l), NEW r, Meant(r)
    PROVE  LET types == RetypeIntegerLiteralOperands(l, r)
           IN  /\ l.type \notin IntegerKinds \/ r.type \notin IntegerKinds => types.left = l.type /\ types.right = r.type
               /\ l.type \in IntegerKinds /\ r.type \in IntegerKinds
                     => /\ types.left \in IntegerKinds /\ Fits(l.means.num, types.left)
                        /\ types.right \in IntegerKinds /\ Fits(r.means.num, types.right)
<1> DEFINE types == RetypeIntegerLiteralOperands(l, r)
<1>1. /\ l.type \in IntegerKinds => Fits(l.means.num, l.type)
      /\ r.type \in IntegerKinds => Fits(r.means.num, r.type)
  BY DEF Meant
<1>2. CASE ~({l.type, r.type} \subseteq IntegerKinds)
  BY <1>1, <1>2 DEF RetypeIntegerLiteralOperands
<1>3. CASE {l.type, r.type} \subseteq IntegerKinds /\ RetypesTo(r, l.type)
  <2>1. types.left = l.type /\ types.right = l.type
    BY <1>3 DEF RetypeIntegerLiteralOperands
  <2>2. QED
    BY <1>1, <1>3, <2>1 DEF RetypesTo
<1>4. CASE {l.type, r.type} \subseteq IntegerKinds /\ ~RetypesTo(r, l.type) /\ RetypesTo(l, r.type)
  <2>1. types.left = r.type /\ types.right = r.type
    BY <1>4 DEF RetypeIntegerLiteralOperands
  <2>2. QED
    BY <1>1, <1>4, <2>1 DEF RetypesTo
<1>5. CASE {l.type, r.type} \subseteq IntegerKinds /\ ~RetypesTo(r, l.type) /\ ~RetypesTo(l, r.type)
  <2>1. types.left = l.type /\ types.right = r.type
    BY <1>5 DEF RetypeIntegerLiteralOperands
  <2>2. QED
    BY <1>1, <1>5, <2>1
<1>6. QED
  BY <1>2, <1>3, <1>4, <1>5

\* The common type of two types is one that both may be widened to.
LEMMA Common ==
    ASSUME NEW a, NEW b, CommonNumericType(a, b) # NoType
    PROVE  LET k == CommonNumericType(a, b)
           IN  /\ k = "f64" => IsNumber(a) /\ IsNumber(b)
               /\ k # "f64" => /\ a \in IntegerKinds /\ b \in IntegerKinds /\ k \in IntegerKinds
                               /\ WideningIntOK(a, k) /\ WideningIntOK(b, k)
<1> DEFINE k == CommonNumericType(a, b)
<1>1. CASE "f64" \in {a, b} /\ IsNumber(a) /\ IsNumber(b)
  <2>1. k = "f64"
    BY <1>1, KindsDiffer DEF CommonNumericType
  <2>2. QED
    BY <1>1, <2>1
<1>2. CASE a \in IntegerKinds /\ b \in IntegerKinds
  <2>1. \A t \in IntegerKinds : WideningIntOK(t, t)
    <3>1. \A t \in IntegerKinds : Bits[t] \in Nat
      BY KindBits
    <3>2. QED
      BY <3>1 DEF WideningIntOK
  <2>2. "f64" \notin {a, b}
    BY <1>2, KindsDiffer
  <2>3. (k = b /\ WideningIntOK(a, b)) \/ (k = a /\ WideningIntOK(b, a))
    BY <1>2, <2>2 DEF CommonNumericType
  <2>4. QED
    BY <1>2, <2>1, <2>3, KindsDiffer
<1>3. QED
  BY <1>1, <1>2 DEF CommonNumericType

\* The conversions that the annotation inserts are those of ConvertRight.
LEMMA CommonAllowed ==
    ASSUME NEW l, Meant(l), NEW r, Meant(r),
           NEW k, k # NoType,
           k = CommonNumericType(RetypeIntegerLiteralOperands(l, r).left, RetypeIntegerLiteralOperands(l, r).right)
    PROVE  /\ Allowed(l, k) /\ Allowed(r, k) /\ k \in IntegerKinds \cup {"f64"}
           /\ k # "f64" => l.type \in IntegerKinds /\ r.type \in IntegerKinds
           /\ IsNumber(l.type) /\ IsNumber(r.type)
<1>1. PICK a, b : a = RetypeIntegerLiteralOperands(l, r).left /\ b = RetypeIntegerLiteralOperands(l, r).right
  OBVIOUS
<1>2. /\ k = "f64" => IsNumber(a) /\ IsNumber(b)
      /\ k # "f64" => /\ a \in IntegerKinds /\ b \in IntegerKinds /\ k \in IntegerKinds
                      /\ WideningIntOK(a, k) /\ WideningIntOK(b, k)
  BY <1>1, Common
<1>3. /\ l.type \notin IntegerKinds \/ r.type \notin IntegerKinds => a = l.type /\ b = r.type
      /\ l.type \in IntegerKinds /\ r.type \in IntegerKinds
            => /\ a \in IntegerKinds /\ Fits(l.means.num, a)
               /\ b \in IntegerKinds /\ Fits(r.means.num, b)
  BY <1>1, Retyped
<1>4. l.means.num \in Int /\ r.means.num \in Int
  BY DEF Meant
<1>5. CASE k = "f64"
  <2>1. IsNumber(l.type) /\ IsNumber(r.type)
    BY <1>2, <1>3, <1>5 DEF IsNumber
  <2>2. l.type # "bool" /\ r.type # "bool" /\ k \notin IntegerKinds
    BY <1>5, <2>1, KindsDiffer DEF IsNumber
  <2>3. QED
    BY <1>5, <2>1, <2>2 DEF Allowed
<1>6. CASE k # "f64"
  <2>1. l.type \in IntegerKinds /\ r.type \in IntegerKinds
    BY <1>2, <1>3, <1>6
  <2>2. Fits(l.means.num, k)
    BY <1>2, <1>3, <1>4, <1>6, <2>1, WideningKeeps
  <2>3. Fits(r.means.num, k)
    BY <1>2, <1>3, <1>4, <1>6, <2>1, WideningKeeps
  <2>4. QED
    BY <1>2, <1>6, <2>1, <2>2, <2>3, KindsDiffer DEF Allowed, IsNumber
<1>7. QED
  BY <1>5, <1>6

-----------------------------------------------------------------------------
\* A binary operator: its result, and where the back ends may differ from it.

Result(op, l, r, stale) ==
    LET types == AnnotateBinary(op, l, r)
        t == types.result
    IN  Value(t, FALSE, Cut(Exact(op, t, l.means, r.means), t),
              VmBinary(op, t, Convert(l, types.left), Convert(r, types.right), stale),
              LlvmBinary(op, t, Convert(l, types.left), Convert(r, types.right)))

VmOff(op, l, r) ==
    LET types == AnnotateBinary(op, l, r)
        t == types.result
    IN  \/ VmCastDiffers(l, types.left) \/ VmCastDiffers(r, types.right)
        \/ Uncut(Exact(op, t, l.means, r.means).num, t) \/ LongCount(op, t, r) \/ OtherFile(op, l, r)
        \/ op \in Comparisons /\ (NotOneBit(l) \/ NotOneBit(r))

LlvmOff(op, l, r) == OrderedTruth(op, l) \/ SignExtended(op, l, r)

\* An operator keeps values right in both back ends.
Kept(op, l, r, stale) ==
    LET x == Result(op, l, r, stale)
    IN  /\ Meant(x) /\ ShortLiteral(x)
        /\ VmRight(l) /\ VmRight(r) /\ ~VmOff(op, l, r) => VmRight(x)
        /\ LlvmRight(l) /\ LlvmRight(r) /\ ~LlvmOff(op, l, r) => LlvmRight(x)

\* An operator that a program may apply to these operands.
Legal(op, l, r) ==
    /\ Meant(l) /\ ShortLiteral(l) /\ Meant(r) /\ ShortLiteral(r)
    /\ AnnotateBinary(op, l, r) # Refused
    /\ Representable(l, AnnotateBinary(op, l, r).left)
    /\ Representable(r, AnnotateBinary(op, l, r).right)

\* The fields of the types of operands that are converted alike.
LEMMA AlikeIs == \A k, t : Alike(k, t).left = k /\ Alike(k, t).right = k /\ Alike(k, t).result = t
BY DEF Alike

\* The types of an arithmetic operator: the quotient with `/` is a floating number, and
\* `//` and `%` are for integers.
LEMMA ArithmeticTypes ==
    ASSUME NEW op \in Arithmetic, NEW l, NEW r, Legal(op, l, r)
    PROVE  \E k \in IntegerKinds \cup {"f64"} :
              /\ AnnotateBinary(op, l, r) = Alike(k, k)
              /\ Allowed(l, k) /\ Allowed(r, k)
              /\ k # "f64" => l.type \in IntegerKinds /\ r.type \in IntegerKinds /\ op \in {"+", "-", "*", "//", "%"}
              /\ k = "f64" => op \in {"+", "-", "*", "/"}
<1>1. PICK k : k = CommonNumericType(RetypeIntegerLiteralOperands(l, r).left, RetypeIntegerLiteralOperands(l, r).right)
  OBVIOUS
<1>2. AnnotateBinary(op, l, r) =
          CASE k = NoType \/ (k = "f64" /\ op \in {"//", "%"}) -> Refused
            [] k # NoType /\ op = "/" -> Alike("f64", "f64")
            [] OTHER -> Alike(k, k)
  BY <1>1 DEF AnnotateBinary, AnnotateArithmetic, BitOperators, Comparisons, Logical, Arithmetic
<1>3. AnnotateBinary(op, l, r) # Refused /\ Meant(l) /\ Meant(r)
  BY DEF Legal
<1>4. k # NoType /\ ~(k = "f64" /\ op \in {"//", "%"})
  BY <1>2, <1>3
<1>5. /\ Allowed(l, k) /\ Allowed(r, k) /\ k \in IntegerKinds \cup {"f64"}
      /\ k # "f64" => l.type \in IntegerKinds /\ r.type \in IntegerKinds
      /\ IsNumber(l.type) /\ IsNumber(r.type)
  BY <1>1, <1>3, <1>4, CommonAllowed
<1>6. CASE op = "/"
  <2>1. AnnotateBinary(op, l, r) = Alike("f64", "f64")
    BY <1>2, <1>4, <1>6
  <2>2. Allowed(l, "f64") /\ Allowed(r, "f64")
    BY <1>5, KindsDiffer DEF Allowed, IsNumber
  <2>3. QED
    BY <1>6, <2>1, <2>2
<1>7. CASE op # "/"
  <2>1. AnnotateBinary(op, l, r) = Alike(k, k)
    BY <1>2, <1>4, <1>7
  <2>2. op \in {"+", "-", "*", "//", "%"}
    BY <1>7 DEF Arithmetic
  <2>3. k = "f64" => op \in {"+", "-", "*", "/"}
    BY <1>4, <2>2
  <2>4. QED
    BY <1>5, <2>1, <2>2, <2>3
<1>8. QED
  BY <1>6, <1>7

\* Arithmetic keeps values right.
LEMMA ArithmeticKept ==
    ASSUME NEW op \in Arithmetic, NEW l, NEW r, NEW stale, Legal(op, l, r)
    PROVE  Kept(op, l, r, stale)
<1>1. PICK k \in IntegerKinds \cup {"f64"} :
              /\ AnnotateBinary(op, l, r) = Alike(k, k)
              /\ Allowed(l, k) /\ Allowed(r, k)
              /\ k # "f64" => l.type \in IntegerKinds /\ r.type \in IntegerKinds /\ op \in {"+", "-", "*", "//", "%"}
              /\ k = "f64" => op \in {"+", "-", "*", "/"}
  BY ArithmeticTypes
<1>2. PICK x, y : x = Convert(l, k) /\ y = Convert(r, k)
  OBVIOUS
<1>3. Meant(l) /\ ShortLiteral(l) /\ Meant(r) /\ ShortLiteral(r) /\ Representable(l, k) /\ Representable(r, k)
  BY <1>1, AlikeIs DEF Legal
<1>4. k \in Types /\ k # "bool" /\ (k # "f64" => k \in IntegerKinds) /\ (k # "f64" => l.type # "f64" /\ r.type # "f64")
  BY <1>1, KindsDiffer
<1>5. /\ x.type = k /\ Meant(x) /\ x.means = l.means
      /\ VmRight(l) /\ ~VmCastDiffers(l, k) => VmRight(x)
      /\ LlvmRight(l) => LlvmRight(x)
  BY <1>1, <1>2, <1>3, <1>4, ConvertRight
<1>6. /\ y.type = k /\ Meant(y) /\ y.means = r.means
      /\ VmRight(r) /\ ~VmCastDiffers(r, k) => VmRight(y)
      /\ LlvmRight(r) => LlvmRight(y)
  BY <1>1, <1>2, <1>3, <1>4, ConvertRight
<1>7. op \notin Comparisons /\ op \notin {"&&", "||", "<<", ">>"}
  BY DEF Arithmetic, Comparisons
<1>8. PICK q, vm, llvm : /\ q = Exact(op, k, l.means, r.means)
                         /\ vm = VmBinary(op, k, x, y, stale)
                         /\ llvm = LlvmBinary(op, k, x, y)
  OBVIOUS
<1>9. Result(op, l, r, stale) = Value(k, FALSE, Cut(q, k), vm, llvm)
  BY <1>1, <1>2, <1>8, AlikeIs DEF Result
<1>10. ~VmOff(op, l, r) => ~VmCastDiffers(l, k) /\ ~VmCastDiffers(r, k) /\ ~Uncut(q.num, k)
  BY <1>1, <1>8, AlikeIs DEF VmOff
<1>11. CASE k = "f64"
  <2>1. q = RatioOp(op, l.means, r.means)
    BY <1>7, <1>8, <1>11 DEF Exact
  <2>2. q.num \in Int /\ q.den \in Nat \ {0}
    BY <1>1, <1>3, <1>11, <2>1, RatioOpIs DEF Meant
  <2>3. VmRight(l) /\ VmRight(r) /\ ~VmOff(op, l, r) => vm = q
    <3>1. vm = RatioOp(op, x.vm, y.vm)
      BY <1>7, <1>8, <1>11 DEF VmBinary
    <3>2. QED
      BY <1>5, <1>6, <1>10, <1>11, <2>1, <3>1 DEF VmRight
  <2>4. LlvmRight(l) /\ LlvmRight(r) => llvm = q
    <3>1. llvm = RatioOp(op, x.llvm, y.llvm)
      BY <1>7, <1>8, <1>11 DEF LlvmBinary
    <3>2. QED
      BY <1>5, <1>6, <1>11, <2>1, <3>1 DEF LlvmRight
  <2>5. QED
    BY <1>9, <1>11, <2>2, <2>3, <2>4, RatioResult DEF Kept
<1>12. CASE k # "f64"
  <2>1. k \in IntegerKinds /\ op \in {"+", "-", "*", "//", "%"}
    BY <1>1, <1>4, <1>12
  <2>0. PICK v : v = WideBits + 1
    OBVIOUS
  <2>2. PICK n : n = IntegerOp(op, l.means.num, r.means.num, v)
    OBVIOUS
  <2>3. q = Whole(n) /\ q.num = n
    BY <1>7, <1>8, <1>12, <2>0, <2>2, WholeIs DEF Exact
  <2>4. n \in Int
    <3>1. l.means.num \in Int /\ r.means.num \in Int /\ 0 \in Int
      BY <1>3 DEF Meant
    <3>2. CASE op \in {"+", "-", "*"}
      BY <2>2, <3>1, <3>2 DEF IntegerOp
    <3>3. CASE op \in {"//", "%"}
      BY <2>2, <3>1, <3>3, DivisionOperator
    <3>4. QED
      BY <2>1, <3>2, <3>3
  <2>5. VmRight(l) /\ VmRight(r) /\ ~VmOff(op, l, r) => vm = Signed(Reduced(n, k), Register(k))
    <3>1. vm = VmInteger(op, k, x, y, stale)
      BY <1>7, <1>8, <1>12 DEF VmBinary
    <3>2. SUFFICES ASSUME VmRight(x), VmRight(y), ~Uncut(n, k)
                   PROVE  VmInteger(op, k, x, y, stale) = Signed(Reduced(n, k), Register(k))
      BY <1>5, <1>6, <1>10, <2>3, <3>1
    <3>3. Meant(x) /\ x.type = k /\ Meant(y) /\ y.type = k
      BY <1>5, <1>6
    <3>4. ~Uncut(IntegerOp(op, x.means.num, y.means.num, v), k)
              => VmInteger(op, k, x, y, stale) = Signed(Reduced(IntegerOp(op, x.means.num, y.means.num, v), k), Register(k))
      BY <2>1, <3>2, <3>3, VmArithmeticRight
    <3>5. n = IntegerOp(op, x.means.num, y.means.num, v)
      BY <1>5, <1>6, <2>2
    <3>6. QED
      BY <3>2, <3>4, <3>5
  <2>6. LlvmRight(l) /\ LlvmRight(r) => llvm = Signed(Reduced(n, k), Bits[k])
    <3>1. llvm = LlvmInteger(op, k, x, y)
      BY <1>7, <1>8, <1>12 DEF LlvmBinary
    <3>2. SUFFICES ASSUME LlvmRight(x), LlvmRight(y)
                   PROVE  LlvmInteger(op, k, x, y) = Signed(Reduced(n, k), Bits[k])
      BY <1>5, <1>6, <3>1
    <3>3. Meant(x) /\ x.type = k /\ Meant(y) /\ y.type = k
      BY <1>5, <1>6
    <3>4. LlvmInteger(op, k, x, y) = Signed(Reduced(IntegerOp(op, x.means.num, y.means.num, v), k), Bits[k])
      BY <2>1, <3>2, <3>3, LlvmArithmeticRight
    <3>5. n = IntegerOp(op, x.means.num, y.means.num, v)
      BY <1>5, <1>6, <2>2
    <3>6. QED
      BY <3>2, <3>4, <3>5
  <2>7. QED
    BY <1>9, <2>1, <2>3, <2>4, <2>5, <2>6, IntegerResult DEF Kept
<1>13. QED
  BY <1>11, <1>12

\* So do bitwise operators and shifts, whose operands are not converted,
LEMMA BitsKept ==
    ASSUME NEW op \in BitOperators, NEW l, NEW r, NEW stale, Legal(op, l, r)
    PROVE  Kept(op, l, r, stale)
<1>1. /\ Meant(l) /\ ShortLiteral(l) /\ Meant(r) /\ ShortLiteral(r)
      /\ AnnotateBinary(op, l, r) # Refused
  BY DEF Legal
<1>2. /\ l.type \in IntegerKinds /\ r.type \in IntegerKinds
      /\ AnnotateBinary(op, l, r) = [left |-> l.type, right |-> r.type, result |-> l.type]
  <2>1. AnnotateBinary(op, l, r) = AnnotateBits(l.type, r.type)
    BY DEF AnnotateBinary, Arithmetic, BitOperators, Comparisons, Logical
  <2>2. QED
    BY <1>1, <2>1 DEF AnnotateBits
<1>3. PICK t \in IntegerKinds : t = l.type
  BY <1>2
<1>4. /\ AnnotateBinary(op, l, r).left = l.type /\ AnnotateBinary(op, l, r).right = r.type
      /\ AnnotateBinary(op, l, r).result = t
  BY <1>2, <1>3
<1>5. Convert(l, l.type) = l /\ Convert(r, r.type) = r
  BY DEF Convert
<1>6. op \notin Comparisons /\ op \notin {"&&", "||"} /\ op \notin Arithmetic /\ t # "f64"
  BY KindsDiffer DEF BitOperators, Comparisons, Arithmetic
<1>7. PICK q, vm, llvm : /\ q = Exact(op, t, l.means, r.means)
                         /\ vm = VmBinary(op, t, l, r, stale)
                         /\ llvm = LlvmBinary(op, t, l, r)
  OBVIOUS
<1>8. Result(op, l, r, stale) = Value(t, FALSE, Cut(q, t), vm, llvm)
  BY <1>4, <1>5, <1>7 DEF Result
<1>9. ~VmOff(op, l, r) => ~Uncut(q.num, t) /\ ~LongCount(op, t, r) /\ ~OtherFile(op, l, r)
  BY <1>4, <1>7 DEF VmOff
<1>10. ~LlvmOff(op, l, r) => ~SignExtended(op, l, r)
  BY DEF LlvmOff
<1>11. PICK a \in Int, b \in Int : a = l.means.num /\ b = r.means.num
  BY <1>1 DEF Meant
<1>12. PICK n \in Int : n = ExactBits(op, t, a, b)
  <2>1. CASE op \in {"<<", ">>"}
    <3>1. b % Bits[t] \in Nat
      BY KindBits, Remainders
    <3>2. PICK p \in Nat \ {0} : p = TwoTo[b % Bits[t]]
      BY <3>1, Powers
    <3>3. a * p \in Int /\ a \div p \in Int
      BY Remainders
    <3>4. QED
      BY <2>1, <3>2, <3>3 DEF ExactBits, IntegerOp
  <2>2. CASE op \notin {"<<", ">>"}
    <3>1. op \in BitwiseOperators /\ WideBits + 1 \in Nat \ {0}
      BY <2>2, Widths DEF BitOperators, BitwiseOperators
    <3>2. PICK v \in Nat \ {0} : v = WideBits + 1
      BY <3>1
    <3>3. BitByBit(op, a, b)[v] \in Int
      BY <3>1, BitByBitIs
    <3>4. IntegerOp(op, a, b, v) = Signed(BitByBit(op, a, b)[v], v)
      BY <3>1 DEF IntegerOp, BitwiseOperators
    <3>5. IntegerOp(op, a, b, v) \in Int
      BY <3>3, <3>4, SignedIs
    <3>6. QED
      BY <2>2, <3>2, <3>5 DEF ExactBits
  <2>3. QED
    BY <2>1, <2>2
<1>13. q = Whole(n) /\ q.num = n
  <2>1. q = Whole(ExactBits(op, t, a, b))
    BY <1>6, <1>7, <1>11, Zenon DEF Exact, ExactBits
  <2>2. QED
    BY <1>12, <2>1, WholeIs
<1>14. VmRight(l) /\ VmRight(r) /\ ~VmOff(op, l, r) => vm = Signed(Reduced(n, t), Register(t))
  <2>1. vm = VmInteger(op, t, l, r, stale)
    BY <1>6, <1>7 DEF VmBinary
  <2>2. SUFFICES ASSUME VmRight(l), VmRight(r), ~Uncut(n, t), ~LongCount(op, t, r), ~OtherFile(op, l, r)
                 PROVE  VmInteger(op, t, l, r, stale) = Signed(Reduced(n, t), Register(t))
    BY <1>9, <1>13, <2>1
  <2>3. n = ExactBits(op, t, l.means.num, r.means.num)
    BY <1>11, <1>12
  <2>4. QED
    BY <1>1, <1>2, <1>3, <2>2, <2>3, VmBitsRight
<1>15. LlvmRight(l) /\ LlvmRight(r) /\ ~LlvmOff(op, l, r) => llvm = Signed(Reduced(n, t), Bits[t])
  <2>1. llvm = LlvmInteger(op, t, l, r)
    BY <1>6, <1>7 DEF LlvmBinary
  <2>2. SUFFICES ASSUME LlvmRight(l), LlvmRight(r), ~SignExtended(op, l, r)
                 PROVE  LlvmInteger(op, t, l, r) = Signed(Reduced(n, t), Bits[t])
    BY <1>10, <2>1
  <2>3. n = ExactBits(op, t, l.means.num, r.means.num)
    BY <1>11, <1>12
  <2>4. QED
    BY <1>1, <1>2, <1>3, <2>2, <2>3, LlvmBitsRight
<1>16. QED
  BY <1>8, <1>13, <1>14, <1>15, IntegerResult DEF Kept

\* The types of a comparison.
LEMMA ComparisonTypes ==
    ASSUME NEW op \in Comparisons, NEW l, NEW r, Legal(op, l, r)
    PROVE  \E k \in Types :
              /\ AnnotateBinary(op, l, r) = Alike(k, "bool")
              /\ Allowed(l, k) /\ Allowed(r, k)
              /\ k \in IntegerKinds => l.type \in IntegerKinds /\ r.type \in IntegerKinds
              /\ k = "bool" => l.type = "bool" /\ r.type = "bool"
<1>1. PICK k : k = CommonNumericType(RetypeIntegerLiteralOperands(l, r).left, RetypeIntegerLiteralOperands(l, r).right)
  OBVIOUS
<1>2. AnnotateBinary(op, l, r) =
          CASE l.type = "bool" /\ r.type = "bool" -> Alike("bool", "bool")
            [] IsNumber(l.type) /\ IsNumber(r.type) /\ k # NoType -> Alike(k, "bool")
            [] OTHER -> Refused
  BY <1>1 DEF AnnotateBinary, AnnotateComparison, BitOperators, Comparisons, Logical, Arithmetic
<1>3. AnnotateBinary(op, l, r) # Refused /\ Meant(l) /\ Meant(r)
  BY DEF Legal
<1>4. CASE l.type = "bool" /\ r.type = "bool"
  <2>1. ~IsNumber(l.type) /\ "bool" \in Types
    BY <1>4, KindsDiffer DEF IsNumber
  <2>2. AnnotateBinary(op, l, r) = Alike("bool", "bool")
    BY <1>2, <1>4, <2>1
  <2>3. QED
    BY <1>4, <2>1, <2>2, KindsDiffer DEF Allowed
<1>5. CASE ~(l.type = "bool" /\ r.type = "bool")
  <2>1. k # NoType /\ AnnotateBinary(op, l, r) = Alike(k, "bool")
    BY <1>2, <1>3, <1>5
  <2>2. /\ Allowed(l, k) /\ Allowed(r, k) /\ k \in IntegerKinds \cup {"f64"}
        /\ k # "f64" => l.type \in IntegerKinds /\ r.type \in IntegerKinds
    BY <1>1, <1>3, <2>1, CommonAllowed
  <2>3. QED
    BY <2>1, <2>2, KindsDiffer
<1>6. QED
  BY <1>4, <1>5

\* comparisons,
LEMMA ComparisonKept ==
    ASSUME NEW op \in Comparisons, NEW l, NEW r, NEW stale, Legal(op, l, r)
    PROVE  Kept(op, l, r, stale)
<1>1. PICK k \in Types :
              /\ AnnotateBinary(op, l, r) = Alike(k, "bool")
              /\ Allowed(l, k) /\ Allowed(r, k)
              /\ k \in IntegerKinds => l.type \in IntegerKinds /\ r.type \in IntegerKinds
              /\ k = "bool" => l.type = "bool" /\ r.type = "bool"
  BY ComparisonTypes
<1>2. PICK x, y : x = Convert(l, k) /\ y = Convert(r, k)
  OBVIOUS
<1>3. Meant(l) /\ ShortLiteral(l) /\ Meant(r) /\ ShortLiteral(r) /\ Representable(l, k) /\ Representable(r, k)
  BY <1>1, AlikeIs DEF Legal
<1>4. /\ x.type = k /\ Meant(x) /\ x.means = l.means
      /\ VmRight(l) /\ ~VmCastDiffers(l, k) => VmRight(x)
      /\ LlvmRight(l) => LlvmRight(x)
  <2>1. CASE k = "bool"
    <3>1. x = l
      BY <1>1, <1>2, <2>1 DEF Convert
    <3>2. QED
      BY <1>1, <1>3, <2>1, <3>1
  <2>2. CASE k # "bool"
    BY <1>1, <1>2, <1>3, <2>2, ConvertRight, KindsDiffer
  <2>3. QED
    BY <2>1, <2>2
<1>5. /\ y.type = k /\ Meant(y) /\ y.means = r.means
      /\ VmRight(r) /\ ~VmCastDiffers(r, k) => VmRight(y)
      /\ LlvmRight(r) => LlvmRight(y)
  <2>1. CASE k = "bool"
    <3>1. y = r
      BY <1>1, <1>2, <2>1 DEF Convert
    <3>2. QED
      BY <1>1, <1>3, <2>1, <3>1
  <2>2. CASE k # "bool"
    BY <1>1, <1>2, <1>3, <2>2, ConvertRight, KindsDiffer
  <2>3. QED
    BY <2>1, <2>2
<1>6. PICK b \in BOOLEAN : b = Compare(op, l.means, r.means)
  BY <1>3, CompareIs DEF Meant
<1>7. PICK q, vm, llvm : /\ q = Exact(op, "bool", l.means, r.means)
                         /\ vm = VmBinary(op, "bool", x, y, stale)
                         /\ llvm = LlvmBinary(op, "bool", x, y)
  OBVIOUS
<1>8. Result(op, l, r, stale) = Value("bool", FALSE, Cut(q, "bool"), vm, llvm)
  <2>1. AnnotateBinary(op, l, r).left = k /\ AnnotateBinary(op, l, r).right = k /\ AnnotateBinary(op, l, r).result = "bool"
    BY <1>1, AlikeIs
  <2>2. QED
    BY <1>2, <1>7, <2>1 DEF Result
<1>9. q = Whole(Truth(b))
  BY <1>6, <1>7 DEF Exact, Comparisons
<1>10. VmRight(l) /\ VmRight(r) /\ ~VmOff(op, l, r) => vm = Truth(b)
  <2>1. SUFFICES ASSUME VmRight(l), VmRight(r), ~VmOff(op, l, r) PROVE vm = Truth(b)
    OBVIOUS
  <2>2. ~VmCastDiffers(l, k) /\ ~VmCastDiffers(r, k) /\ ~NotOneBit(l) /\ ~NotOneBit(r)
    BY <1>1, <2>1, AlikeIs DEF VmOff
  <2>3. ~NotOneBit(x) /\ ~NotOneBit(y)
    <3>1. CASE k = "bool"
      <4>1. x = l /\ y = r
        BY <1>1, <1>2, <3>1 DEF Convert
      <4>2. QED
        BY <2>2, <4>1
    <3>2. CASE k # "bool"
      BY <1>4, <1>5, <3>2 DEF NotOneBit
    <3>3. QED
      BY <3>1, <3>2
  <2>4. vm = VmComparison(op, x, y, stale)
    BY <1>7 DEF VmBinary, Comparisons, Arithmetic
  <2>5. VmComparison(op, x, y, stale) = Truth(Compare(op, x.means, y.means))
    BY <1>4, <1>5, <2>1, <2>2, <2>3, VmComparisonRight
  <2>6. QED
    BY <1>4, <1>5, <1>6, <2>4, <2>5
<1>11. LlvmRight(l) /\ LlvmRight(r) /\ ~LlvmOff(op, l, r) => llvm = Signed(Truth(b), 1)
  <2>1. SUFFICES ASSUME LlvmRight(l), LlvmRight(r), ~LlvmOff(op, l, r) PROVE llvm = Signed(Truth(b), 1)
    OBVIOUS
  <2>2. ~OrderedTruth(op, x)
    <3>1. CASE k = "bool"
      <4>1. x = l
        BY <1>1, <1>2, <3>1 DEF Convert
      <4>2. QED
        BY <2>1, <4>1 DEF LlvmOff
    <3>2. CASE k # "bool"
      BY <1>4, <3>2 DEF OrderedTruth
    <3>3. QED
      BY <3>1, <3>2
  <2>3. llvm = LlvmComparison(op, x, y)
    BY <1>7 DEF LlvmBinary, Comparisons, Arithmetic
  <2>4. LlvmComparison(op, x, y) = Signed(Truth(Compare(op, x.means, y.means)), 1)
    BY <1>4, <1>5, <2>1, <2>2, LlvmComparisonRight
  <2>5. QED
    BY <1>4, <1>5, <1>6, <2>3, <2>4
<1>12. VmRight(l) /\ VmRight(r) /\ ~VmOff(op, l, r) => vm \in Int /\ (vm = 0 <=> Truth(b) = 0)
  BY <1>10, TruthIs
<1>13. QED
  BY <1>8, <1>9, <1>11, <1>12, TruthResult DEF Kept

\* connectives,
LEMMA ConnectiveKept ==
    ASSUME NEW op \in Logical, NEW l, NEW r, NEW stale, Legal(op, l, r)
    PROVE  Kept(op, l, r, stale)
<1>1. /\ Meant(l) /\ ShortLiteral(l) /\ Meant(r) /\ ShortLiteral(r)
      /\ AnnotateBinary(op, l, r) # Refused
  BY DEF Legal
<1>2. AnnotateBinary(op, l, r) = Alike("bool", "bool")
  <2>1. AnnotateBinary(op, l, r) = AnnotateLogical(l.type, r.type)
    BY DEF AnnotateBinary, Arithmetic, BitOperators, Comparisons, Logical
  <2>2. QED
    BY <1>1, <2>1 DEF AnnotateLogical
<1>3. PICK x, y : x = Convert(l, "bool") /\ y = Convert(r, "bool")
  OBVIOUS
<1>4. Representable(l, "bool") /\ Representable(r, "bool") /\ Allowed(l, "bool") /\ Allowed(r, "bool") /\ "bool" \in Types
  BY <1>2, AlikeIs, KindsDiffer DEF Legal, Allowed
<1>5. PICK a \in BOOLEAN, b \in BOOLEAN : a = (l.means.num # 0) /\ b = (r.means.num # 0)
  OBVIOUS
<1>6. /\ x.type = "bool" /\ x.means = Whole(Truth(a))
      /\ VmRight(l) /\ ~VmCastDiffers(l, "bool") => VmRight(x)
      /\ LlvmRight(l) => LlvmRight(x)
  BY <1>1, <1>3, <1>4, <1>5, ConvertRight
<1>7. /\ y.type = "bool" /\ y.means = Whole(Truth(b))
      /\ VmRight(r) /\ ~VmCastDiffers(r, "bool") => VmRight(y)
      /\ LlvmRight(r) => LlvmRight(y)
  BY <1>1, <1>3, <1>4, <1>5, ConvertRight
<1>8. PICK q, vm, llvm : /\ q = Exact(op, "bool", l.means, r.means)
                         /\ vm = VmBinary(op, "bool", x, y, stale)
                         /\ llvm = LlvmBinary(op, "bool", x, y)
  OBVIOUS
<1>9. Result(op, l, r, stale) = Value("bool", FALSE, Cut(q, "bool"), vm, llvm)
  BY <1>2, <1>3, <1>8, AlikeIs DEF Result
<1>10. PICK c \in BOOLEAN : c = IF op = "&&" THEN a /\ b ELSE a \/ b
  OBVIOUS
<1>11. q = Whole(Truth(c))
  <2>1. CASE op = "&&"
    <3>1. q = Whole(Truth(l.means.num # 0 /\ r.means.num # 0))
      BY <1>8, <2>1 DEF Exact, Comparisons
    <3>2. c = (l.means.num # 0 /\ r.means.num # 0)
      BY <1>5, <1>10, <2>1
    <3>3. QED
      BY <3>1, <3>2
  <2>2. CASE op = "||"
    <3>1. q = Whole(Truth(l.means.num # 0 \/ r.means.num # 0))
      BY <1>8, <2>2 DEF Exact, Comparisons
    <3>2. c = (l.means.num # 0 \/ r.means.num # 0)
      BY <1>5, <1>10, <2>2
    <3>3. QED
      BY <3>1, <3>2
  <2>3. QED
    BY <2>1, <2>2 DEF Logical
<1>12. /\ VmRight(x) /\ VmRight(y) => vm \in Int /\ (vm = 0 <=> Truth(c) = 0)
       /\ LlvmRight(x) /\ LlvmRight(y) => llvm = Signed(Truth(c), 1)
  BY <1>6, <1>7, <1>8, <1>10, ConnectiveRight
<1>13. ~VmOff(op, l, r) => ~VmCastDiffers(l, "bool") /\ ~VmCastDiffers(r, "bool")
  BY <1>2, AlikeIs DEF VmOff
<1>14. QED
  BY <1>6, <1>7, <1>9, <1>11, <1>12, <1>13, TruthResult DEF Kept

\* and so all binary operators.
LEMMA BinaryKept ==
    ASSUME NEW op \in BinaryOperators, NEW l, NEW r, NEW stale, Legal(op, l, r)
    PROVE  Kept(op, l, r, stale)
BY ArithmeticKept, BitsKept, ComparisonKept, ConnectiveKept DEF BinaryOperators

-----------------------------------------------------------------------------
\* Unary operators, conversions and assignments.

\* A step from x to the value keeps it right where it is not known to differ.
KeptFrom(x, value, vmOff, llvmOff) ==
    /\ Meant(value) /\ ShortLiteral(value)
    /\ VmRight(x) /\ ~vmOff => VmRight(value)
    /\ LlvmRight(x) /\ ~llvmOff => LlvmRight(value)

\* `!` keeps values right,
LEMMA NotKept ==
    ASSUME NEW x, Meant(x), x.type \in IntegerKinds \cup {"bool"}
    PROVE  KeptFrom(x, Value("bool", FALSE, Cut(Whole(Truth(x.means.num = 0)), "bool"),
                             Truth(x.vm = 0), Signed(Truth(x.llvm = 0), 1)), FALSE, FALSE)
<1>1. PICK b \in BOOLEAN : b = (x.means.num = 0)
  OBVIOUS
<1>2. PICK n \in Int : n = x.means.num
  BY DEF Meant
<1>3. VmRight(x) => (x.vm = 0) = b
  <2>1. CASE x.type \in IntegerKinds
    <3>1. Register(x.type) \in Nat \ {0} /\ Bits[x.type] <= Register(x.type) /\ Fits(n, x.type)
      BY <1>2, <2>1, KindBits DEF Meant
    <3>2. Signed(n, Register(x.type)) = 0 <=> n = 0
      BY <2>1, <3>1, ZeroIsZero
    <3>3. QED
      BY <1>1, <1>2, <2>1, <3>2 DEF VmRight
  <2>2. CASE x.type = "bool"
    BY <1>1, <2>2 DEF VmRight
  <2>3. QED
    BY <2>1, <2>2
<1>4. LlvmRight(x) => (x.llvm = 0) = b
  <2>1. CASE x.type \in IntegerKinds
    <3>1. Bits[x.type] \in Nat \ {0} /\ Bits[x.type] <= Bits[x.type] /\ Fits(n, x.type)
      BY <1>2, <2>1, KindBits DEF Meant
    <3>2. Signed(n, Bits[x.type]) = 0 <=> n = 0
      BY <2>1, <3>1, ZeroIsZero
    <3>3. QED
      BY <1>1, <1>2, <2>1, <3>2 DEF LlvmRight
  <2>2. CASE x.type = "bool"
    <3>1. n \in {0, 1} /\ Bits["bool"] = 1
      BY <1>2, <2>2, OneBit, Widths
    <3>2. Signed(n, 1) = 0 <=> n = 0
      BY <3>1, TruthIs
    <3>3. QED
      BY <1>1, <1>2, <2>2, <3>1, <3>2 DEF LlvmRight
  <2>3. QED
    BY <2>1, <2>2
<1>5. PICK vm, llvm : vm = Truth(x.vm = 0) /\ llvm = Signed(Truth(x.llvm = 0), 1)
  OBVIOUS
<1>6. VmRight(x) => vm \in Int /\ (vm = 0 <=> Truth(b) = 0)
  <2>1. SUFFICES ASSUME VmRight(x) PROVE vm \in Int /\ (vm = 0 <=> Truth(b) = 0)
    OBVIOUS
  <2>2. vm = Truth(b)
    BY <1>3, <1>5, <2>1
  <2>3. QED
    BY <2>2, TruthIs
<1>7. LlvmRight(x) => llvm = Signed(Truth(b), 1)
  BY <1>4, <1>5
<1>8. PICK value : value = Value("bool", FALSE, Cut(Whole(Truth(b)), "bool"), vm, llvm)
  OBVIOUS
<1>9. KeptFrom(x, value, FALSE, FALSE)
  BY <1>6, <1>7, <1>8, TruthResult DEF KeptFrom
<1>10. QED
  BY <1>1, <1>5, <1>8, <1>9

\* and so do `neg` and `~` on integers: the number, without or with one more, from zero.
LEMMA IntegerUnaryKept ==
    ASSUME NEW x, NEW m \in {0, 1}, NEW vm, NEW llvm, Meant(x), x.type \in IntegerKinds,
           x.vm \in Int => vm = Signed(0 - x.vm - m, Register(x.type)),
           x.llvm \in Int => llvm = Signed(0 - x.llvm - m, Bits[x.type])
    PROVE  KeptFrom(x, Value(x.type, FALSE, Cut(Whole(0 - x.means.num - m), x.type), vm, llvm),
                    Uncut(0 - x.means.num - m, x.type), FALSE)
<1>1. PICK t \in IntegerKinds : t = x.type
  OBVIOUS
<1>2. PICK a \in Int, n \in Int : a = x.means.num /\ n = 0 - a - m
  <2>1. PICK a \in Int : a = x.means.num
    BY DEF Meant
  <2>2. 0 - a - m \in Int
    OBVIOUS
  <2>3. QED
    BY <2>1, <2>2
<1>3. ASSUME NEW w \in Nat \ {0}
      PROVE  LET raw == 0 - Signed(a, w) - m IN raw \in Int /\ Congruent(raw, n, TwoTo[w])
  <2>1. PICK k \in Nat \ {0}, z \in Int : k = TwoTo[w] /\ z = Signed(a, w) /\ Congruent(z, a, k)
    BY Powers, SignedIs
  <2>2. k \in Int /\ 0 \in Int /\ m \in Int /\ Congruent(0, 0, k) /\ Congruent(m, m, k)
    BY CongruentAlways
  <2>3. Congruent(0 - z, 0 - a, k)
    BY <2>1, <2>2, CongruentSum
  <2>4. 0 - z \in Int /\ 0 - a \in Int
    OBVIOUS
  <2>5. Congruent((0 - z) - m, (0 - a) - m, k)
    BY <2>2, <2>3, <2>4, CongruentSum
  <2>6. QED
    BY <1>2, <2>1, <2>4, <2>5
<1>4. Register(t) \in Nat \ {0} /\ Bits[t] \in Nat \ {0}
  BY KindBits
<1>5. /\ x.vm \in Int => vm = Signed(0 - x.vm - m, Register(t))
      /\ x.llvm \in Int => llvm = Signed(0 - x.llvm - m, Bits[t])
  BY <1>1
<1>6. VmRight(x) /\ ~Uncut(n, t) => vm = Signed(Reduced(n, t), Register(t))
  <2>1. SUFFICES ASSUME VmRight(x), ~Uncut(n, t) PROVE vm = Signed(Reduced(n, t), Register(t))
    OBVIOUS
  <2>2. PICK raw \in Int : raw = 0 - Signed(a, Register(t)) - m /\ Congruent(raw, n, TwoTo[Register(t)])
    BY <1>3, <1>4
  <2>3. vm = Signed(raw, Register(t))
    <3>1. x.vm = Signed(a, Register(t)) /\ x.vm \in Int
      BY <1>1, <1>2, <1>4, <2>1, SignedIs DEF VmRight
    <3>2. QED
      BY <1>5, <2>2, <3>1
  <2>4. QED
    BY <2>1, <2>2, <2>3, ResultBits
<1>7. LlvmRight(x) => llvm = Signed(Reduced(n, t), Bits[t])
  <2>1. SUFFICES ASSUME LlvmRight(x) PROVE llvm = Signed(Reduced(n, t), Bits[t])
    OBVIOUS
  <2>2. PICK raw \in Int : raw = 0 - Signed(a, Bits[t]) - m /\ Congruent(raw, n, TwoTo[Bits[t]])
    BY <1>3, <1>4
  <2>3. llvm = Signed(raw, Bits[t])
    <3>1. x.llvm = Signed(a, Bits[t]) /\ x.llvm \in Int
      <4>1. x.llvm = Signed(a, Bits[t])
        BY <1>1, <1>2, <2>1 DEF LlvmRight
      <4>2. QED
        BY <1>4, <4>1, SignedIs
    <3>2. QED
      BY <1>5, <2>2, <3>1
  <2>4. QED
    BY <2>2, <2>3, ResultBits
<1>8. PICK value : value = Value(t, FALSE, Cut(Whole(n), t), vm, llvm)
  OBVIOUS
<1>9. KeptFrom(x, value, Uncut(n, t), FALSE)
  BY <1>6, <1>7, <1>8, IntegerResult DEF KeptFrom
<1>10. QED
  BY <1>1, <1>2, <1>8, <1>9

\* The result of a unary operator on x.
UnaryResult(op, x) ==
    LET t == AnnotateUnary(op, x.type)
    IN  Value(t, FALSE, Cut(ExactUnary(op, x.means), t), VmUnary(op, x), LlvmUnary(op, x))

\* All unary operators keep values right.
LEMMA UnaryKept ==
    ASSUME NEW op \in UnaryOperators, NEW x, Meant(x), AnnotateUnary(op, x.type) # NoType
    PROVE  KeptFrom(x, UnaryResult(op, x), Uncut(ExactUnary(op, x.means).num, AnnotateUnary(op, x.type)), FALSE)
<1>1. x.means.num \in Int /\ x.means.den \in Nat \ {0} /\ x.type \in Types
  BY DEF Meant
<1>2. CASE op = "!"
  <2>1. x.type \in IntegerKinds \cup {"bool"} /\ AnnotateUnary(op, x.type) = "bool"
    BY <1>2 DEF AnnotateUnary
  <2>2. /\ VmUnary(op, x) = Truth(x.vm = 0) /\ LlvmUnary(op, x) = Signed(Truth(x.llvm = 0), 1)
        /\ ExactUnary(op, x.means) = Whole(Truth(x.means.num = 0))
    BY <1>2 DEF VmUnary, LlvmUnary, ExactUnary
  <2>3. UnaryResult(op, x) = Value("bool", FALSE, Cut(Whole(Truth(x.means.num = 0)), "bool"),
                                   Truth(x.vm = 0), Signed(Truth(x.llvm = 0), 1))
    BY <2>1, <2>2 DEF UnaryResult
  <2>4. KeptFrom(x, UnaryResult(op, x), FALSE, FALSE)
    BY <2>1, <2>3, NotKept
  <2>5. ~Uncut(ExactUnary(op, x.means).num, AnnotateUnary(op, x.type))
    BY <2>1 DEF Uncut, Narrow
  <2>6. QED
    BY <2>4, <2>5 DEF KeptFrom
<1>3. CASE op = "~"
  <2>1. x.type \in IntegerKinds /\ AnnotateUnary(op, x.type) = x.type
    BY <1>3 DEF AnnotateUnary
  <2>2. PICK vm, llvm : vm = VmUnary(op, x) /\ llvm = LlvmUnary(op, x)
    OBVIOUS
  <2>3. /\ x.vm \in Int => vm = Signed(0 - x.vm - 1, Register(x.type))
        /\ x.llvm \in Int => llvm = Signed(0 - x.llvm - 1, Bits[x.type])
    <3>1. VmUnary(op, x) = Signed(-x.vm - 1, Register(x.type)) /\ LlvmUnary(op, x) = Signed(-x.llvm - 1, Bits[x.type])
      BY <1>3 DEF VmUnary, LlvmUnary, Register
    <3>2. x.vm \in Int => -x.vm - 1 = 0 - x.vm - 1
      OBVIOUS
    <3>3. x.llvm \in Int => -x.llvm - 1 = 0 - x.llvm - 1
      OBVIOUS
    <3>4. QED
      BY <2>2, <3>1, <3>2, <3>3
  <2>4. ExactUnary(op, x.means) = Whole(0 - x.means.num - 1)
    <3>1. ExactUnary(op, x.means) = Whole(-x.means.num - 1)
      BY <1>3 DEF ExactUnary
    <3>2. -x.means.num - 1 = 0 - x.means.num - 1
      BY <1>1
    <3>3. QED
      BY <3>1, <3>2
  <2>5. UnaryResult(op, x) = Value(x.type, FALSE, Cut(Whole(0 - x.means.num - 1), x.type), vm, llvm)
    BY <2>1, <2>2, <2>4 DEF UnaryResult
  <2>6. KeptFrom(x, UnaryResult(op, x), Uncut(0 - x.means.num - 1, x.type), FALSE)
    <3>1. PICK m \in {0, 1} : m = 1
      OBVIOUS
    <3>2. QED
      BY <2>1, <2>3, <2>5, <3>1, IntegerUnaryKept
  <2>7. Uncut(ExactUnary(op, x.means).num, AnnotateUnary(op, x.type)) = Uncut(0 - x.means.num - 1, x.type)
    BY <2>1, <2>4, WholeIs
  <2>8. QED
    BY <2>6, <2>7
<1>4. CASE op = "neg" /\ x.type = "f64"
  <2>1. AnnotateUnary(op, x.type) = "f64"
    BY <1>4 DEF AnnotateUnary, IsNumber
  <2>2. PICK q, vm, llvm : /\ q = Ratio(-x.means.num, x.means.den)
                           /\ vm = Ratio(-x.vm.num, x.vm.den) /\ llvm = Ratio(-x.llvm.num, x.llvm.den)
    OBVIOUS
  <2>3. VmUnary(op, x) = vm /\ LlvmUnary(op, x) = llvm /\ ExactUnary(op, x.means) = q
    BY <1>4, <2>2 DEF VmUnary, LlvmUnary, ExactUnary
  <2>4. q.num \in Int /\ q.den \in Nat \ {0}
    <3>1. -x.means.num \in Int /\ x.means.den \in Int
      BY <1>1
    <3>2. QED
      BY <2>2, <3>1, RatioIs
  <2>5. (VmRight(x) => vm = q) /\ (LlvmRight(x) => llvm = q)
    BY <1>4, <2>2 DEF VmRight, LlvmRight
  <2>6. PICK value : value = Value("f64", FALSE, Cut(q, "f64"), vm, llvm)
    OBVIOUS
  <2>7. UnaryResult(op, x) = value
    BY <2>1, <2>3, <2>6 DEF UnaryResult
  <2>8. QED
    BY <2>4, <2>5, <2>6, <2>7, RatioResult DEF KeptFrom
<1>5. CASE op = "neg" /\ x.type # "f64"
  <2>1. x.type \in IntegerKinds /\ AnnotateUnary(op, x.type) = x.type /\ x.means.den = 1
    <3>1. AnnotateUnary(op, x.type) = x.type /\ x.type \in IntegerKinds
      BY <1>5 DEF AnnotateUnary, IsNumber
    <3>2. x.means = Whole(x.means.num)
      BY <3>1 DEF Meant
    <3>3. QED
      BY <3>1, <3>2, WholeIs
  <2>2. PICK vm, llvm : vm = VmUnary(op, x) /\ llvm = LlvmUnary(op, x)
    OBVIOUS
  <2>3. /\ x.vm \in Int => vm = Signed(0 - x.vm - 0, Register(x.type))
        /\ x.llvm \in Int => llvm = Signed(0 - x.llvm - 0, Bits[x.type])
    <3>1. VmUnary(op, x) = Signed(-x.vm, Register(x.type)) /\ LlvmUnary(op, x) = Signed(-x.llvm, Bits[x.type])
      BY <1>5 DEF VmUnary, LlvmUnary, Register
    <3>2. x.vm \in Int => -x.vm = 0 - x.vm - 0
      OBVIOUS
    <3>3. x.llvm \in Int => -x.llvm = 0 - x.llvm - 0
      OBVIOUS
    <3>4. QED
      BY <2>2, <3>1, <3>2, <3>3
  <2>4. ExactUnary(op, x.means) = Whole(0 - x.means.num - 0)
    <3>1. ExactUnary(op, x.means) = Ratio(-x.means.num, 1)
      BY <1>5, <2>1 DEF ExactUnary
    <3>2. PICK n \in Int : n = -x.means.num /\ n = 0 - x.means.num - 0
      BY <1>1
    <3>3. Ratio(n, 1) = Whole(n)
      BY RatioIs
    <3>4. QED
      BY <3>1, <3>2, <3>3
  <2>5. UnaryResult(op, x) = Value(x.type, FALSE, Cut(Whole(0 - x.means.num - 0), x.type), vm, llvm)
    BY <2>1, <2>2, <2>4 DEF UnaryResult
  <2>6. KeptFrom(x, UnaryResult(op, x), Uncut(0 - x.means.num - 0, x.type), FALSE)
    <3>1. PICK m \in {0, 1} : m = 0
      OBVIOUS
    <3>2. QED
      BY <2>1, <2>3, <2>5, <3>1, IntegerUnaryKept
  <2>7. Uncut(ExactUnary(op, x.means).num, AnnotateUnary(op, x.type)) = Uncut(0 - x.means.num - 0, x.type)
    BY <2>1, <2>4, WholeIs
  <2>8. QED
    BY <2>6, <2>7
<1>6. QED
  BY <1>2, <1>3, <1>4, <1>5 DEF UnaryOperators

\* Conversions keep values right,
LEMMA CastKept ==
    ASSUME NEW x, Meant(x), ShortLiteral(x), NEW t \in Types, t # x.type, Representable(x, t)
    PROVE  KeptFrom(x, Cast(x, t), VmCastDiffers(x, t), SignedTruth(x, t))
<1>1. Cast(x, t).literal = FALSE
  BY DEF Cast, Value
<1>2. Meant(Cast(x, t)) /\ ShortLiteral(Cast(x, t))
  BY <1>1, CastMeans DEF ShortLiteral
<1>3. VmRight(x) /\ ~VmCastDiffers(x, t) => VmRight(Cast(x, t))
  BY VmCastRight
<1>4. LlvmRight(x) /\ ~SignedTruth(x, t) => LlvmRight(Cast(x, t))
  BY LlvmCastRight
<1>5. QED
  BY <1>2, <1>3, <1>4 DEF KeptFrom

\* An element that is written and read again is what it was, if it has no sign to lose.
LEMMA ElementRight ==
    ASSUME NEW y, Meant(y), VmRight(y), ~UnsignedElement(y.type, y.means.num), ~NotOneBit(y)
    PROVE  VmElement(y.type, y.vm) = y.vm
<1>1. CASE Narrow(y.type)
  <2>1. PICK t \in IntegerKinds : t = y.type /\ Narrow(t)
    BY <1>1 DEF Narrow, IntegerKinds, SignedKinds, UnsignedKinds
  <2>2. PICK n \in Int : n = y.means.num /\ Fits(n, t) /\ 0 <= n
    BY <2>1 DEF Meant, UnsignedElement
  <2>3. PICK v \in Nat \ {0}, w \in Nat \ {0} : v = Bits[t] /\ w = Register(t) /\ v < w
    BY <2>1, KindBits
  <2>4. Signed(n, w) = n
    <3>1. Bits[t] <= w /\ Bits[t] < w
      BY <2>3
    <3>2. QED
      BY <2>2, <3>1, ReadBack
  <2>5. y.vm = n
    BY <2>1, <2>2, <2>3, <2>4 DEF VmRight
  <2>6. Pattern(n, v) = n
    <3>1. Bits[t] <= v
      BY <2>3
    <3>2. CASE t \in SignedKinds
      BY <2>2, <3>1, <3>2, SignedRange
    <3>3. CASE t \in UnsignedKinds
      BY <2>2, <3>1, <3>3, UnsignedRange
    <3>4. QED
      BY <3>2, <3>3 DEF IntegerKinds
  <2>7. QED
    BY <2>1, <2>3, <2>5, <2>6 DEF VmElement, Narrow
<1>2. CASE y.type = "bool"
  <2>1. PICK b \in {0, 1} : y.vm = b
    BY <1>2 DEF NotOneBit
  <2>2. PICK p \in Nat : p = TwoTo[NarrowBits] /\ 1 < p
    <3>1. NarrowBits \in Nat \ {0}
      BY Widths
    <3>2. PICK p \in Nat \ {0}, h \in Nat \ {0} : p = TwoTo[NarrowBits] /\ p = 2 * h
      BY <3>1, Words
    <3>3. QED
      BY <3>2
  <2>3. b \in Int /\ 0 <= b /\ b < TwoTo[NarrowBits] /\ NarrowBits \in Nat
    BY <2>2, Widths
  <2>4. Pattern(b, NarrowBits) = b
    BY <2>3, PatternIs
  <2>5. QED
    BY <1>2, <2>1, <2>4 DEF VmElement, Narrow
<1>3. CASE ~Narrow(y.type) /\ y.type # "bool"
  BY <1>3 DEF VmElement
<1>4. QED
  BY <1>1, <1>2, <1>3

\* What an assignment of x to a variable or an element of type t leaves.
AssignResult(x, t, element) ==
    LET y == Convert(x, t)
    IN  Value(t, FALSE, y.means, IF element THEN VmElement(t, y.vm) ELSE y.vm, y.llvm)

\* and so do assignments to variables and elements.
LEMMA AssignKept ==
    ASSUME NEW x, Meant(x), ShortLiteral(x), NEW t \in Types, CanImplicit(x.type, t), Representable(x, t),
           NEW element \in BOOLEAN
    PROVE  KeptFrom(x, AssignResult(x, t, element),
                    VmCastDiffers(x, t)
                        \/ (element /\ (UnsignedElement(t, Convert(x, t).means.num) \/ NotOneBit(Convert(x, t)))),
                    FALSE)
<1>1. Allowed(x, t)
  <2>1. CASE x.type = t
    BY <2>1 DEF Allowed, Meant
  <2>2. CASE x.type # t
    <3>1. x.type # "bool"
      BY <2>2, KindsDiffer DEF CanImplicit, IsNumber
    <3>2. x.type \in IntegerKinds /\ t \in IntegerKinds => WideningIntOK(x.type, t)
      BY <2>2, KindsDiffer DEF CanImplicit
    <3>3. x.type \in IntegerKinds /\ t \in IntegerKinds => Fits(x.means.num, t)
      BY <3>2, WideningKeeps DEF Meant
    <3>4. QED
      BY <3>1, <3>3 DEF Allowed
  <2>3. QED
    BY <2>1, <2>2
<1>2. PICK y : y = Convert(x, t)
  OBVIOUS
<1>3. /\ y.type = t /\ Meant(y)
      /\ VmRight(x) /\ ~VmCastDiffers(x, t) => VmRight(y)
      /\ LlvmRight(x) => LlvmRight(y)
  BY <1>1, <1>2, ConvertRight
<1>4. PICK vm : vm = IF element THEN VmElement(t, y.vm) ELSE y.vm
  OBVIOUS
<1>5. PICK value : value = Value(t, FALSE, y.means, vm, y.llvm)
  OBVIOUS
<1>6. AssignResult(x, t, element) = value
  BY <1>2, <1>4, <1>5 DEF AssignResult
<1>7. value.type = t /\ value.literal = FALSE /\ value.means = y.means /\ value.vm = vm /\ value.llvm = y.llvm
  BY <1>5 DEF Value
<1>8. Meant(value) /\ ShortLiteral(value)
  BY <1>3, <1>7 DEF Meant, ShortLiteral
<1>9. ASSUME VmRight(x), ~VmCastDiffers(x, t), ~(element /\ (UnsignedElement(t, y.means.num) \/ NotOneBit(y)))
      PROVE  VmRight(value)
  <2>1. VmRight(y)
    BY <1>3, <1>9
  <2>2. vm = y.vm
    <3>1. CASE element
      <4>1. ~UnsignedElement(y.type, y.means.num) /\ ~NotOneBit(y)
        BY <1>3, <1>9, <3>1
      <4>2. VmElement(y.type, y.vm) = y.vm
        BY <1>3, <2>1, <4>1, ElementRight
      <4>3. QED
        BY <1>3, <1>4, <3>1, <4>2
    <3>2. CASE ~element
      BY <1>4, <3>2
    <3>3. QED
      BY <3>1, <3>2
  <2>3. QED
    BY <1>3, <1>7, <2>1, <2>2 DEF VmRight
<1>10. LlvmRight(x) => LlvmRight(value)
  <2>1. LlvmRight(y) => LlvmRight(value)
    BY <1>3, <1>7 DEF LlvmRight
  <2>2. QED
    BY <1>3, <2>1
<1>11. QED
  BY <1>2, <1>6, <1>8, <1>9, <1>10 DEF KeptFrom

-----------------------------------------------------------------------------
\* The program.

\* A value that is right in both back ends.
Right(x) == Meant(x) /\ ShortLiteral(x) /\ VmRight(x) /\ LlvmRight(x)

\* A truth value a program starts from is right.
LEMMA BooleanLeaf ==
    ASSUME NEW n \in {0, 1}
    PROVE  Right(IntegerValue("bool", n, FALSE))
<1>1. PICK x : x = IntegerValue("bool", n, FALSE)
  OBVIOUS
<1>2. "bool" \notin IntegerKinds /\ "bool" # "f64" /\ "bool" \in Types /\ ~Is128BitInteger("bool")
  BY KindsDiffer DEF Is128BitInteger
<1>3. x.type = "bool" /\ x.literal = FALSE /\ x.means = Whole(n) /\ x.vm = n /\ x.llvm = Signed(n, Bits["bool"])
  BY <1>1, <1>2 DEF IntegerValue, Value
<1>4. x.means.num = n /\ x.means.den = 1 /\ n \in Int
  BY <1>3, WholeIs
<1>5. Meant(x)
  <2>1. x.means = Whole(0) \/ x.means = Whole(1)
    BY <1>3
  <2>2. x.means.num \in Int /\ x.means.den \in Nat \ {0}
    BY <1>4
  <2>3. QED
    BY <1>2, <1>3, <2>1, <2>2 DEF Meant
<1>6. ShortLiteral(x) /\ VmRight(x) /\ LlvmRight(x)
  BY <1>2, <1>3, <1>4 DEF ShortLiteral, VmRight, LlvmRight
<1>7. QED
  BY <1>1, <1>5, <1>6 DEF Right

\* So is every leaf.
LEMMA LeavesRight == \A x \in IntegerLeaves \cup FloatLeaves : Right(x)
<1>1. ASSUME NEW t \in IntegerKinds, NEW n \in LiteralsOf(t)
      PROVE  Right(IntegerValue(t, n, TRUE))
  <2>1. Fits(n, t) /\ Fits(n, "i64") /\ n \in Int
    BY NumbersAssumption DEF LiteralsOf
  <2>2. PICK x : x = IntegerValue(t, n, TRUE)
    OBVIOUS
  <2>3. Meant(x) /\ VmRight(x) /\ LlvmRight(x) /\ x.means = Whole(n)
    BY <2>1, <2>2, IntegerValueIs
  <2>4. QED
    BY <2>1, <2>2, <2>3, WholeIs DEF Right, ShortLiteral
<1>2. ASSUME NEW t \in IntegerKinds, NEW n \in Boundary(t)
      PROVE  Right(IntegerValue(t, n, FALSE))
  <2>1. Fits(n, t) /\ n \in Int
    <3>1. Lowest(t) \in Int /\ Highest(t) \in Int
      <4>1. PICK w \in Nat \ {0} : w = Bits[t]
        BY KindBits
      <4>2. PICK p \in Nat, h \in Nat : p = TwoTo[w] /\ h = TwoTo[w - 1]
        BY Words
      <4>3. QED
        BY <4>1, <4>2 DEF Lowest, Highest
    <3>2. QED
      BY <3>1 DEF Boundary
  <2>2. PICK x : x = IntegerValue(t, n, FALSE)
    OBVIOUS
  <2>3. Meant(x) /\ VmRight(x) /\ LlvmRight(x) /\ x.literal = FALSE
    BY <2>1, <2>2, IntegerValueIs
  <2>4. QED
    BY <2>2, <2>3 DEF Right, ShortLiteral
<1>3. ASSUME NEW h \in Halves, NEW literal \in BOOLEAN
      PROVE  Right(FloatValue(Ratio(h, 2), literal))
  <2>1. PICK q : q = Ratio(h, 2) /\ q.num \in Int /\ q.den \in Nat \ {0}
    <3>1. h \in Int /\ 2 \in Int
      BY NumbersAssumption
    <3>2. QED
      BY <3>1, RatioIs
  <2>2. PICK x : x = FloatValue(q, literal)
    OBVIOUS
  <2>3. x.type = "f64" /\ x.literal = literal /\ x.means = q /\ x.vm = q /\ x.llvm = q
    BY <2>2 DEF FloatValue, Value
  <2>4. Meant(x) /\ ShortLiteral(x) /\ VmRight(x) /\ LlvmRight(x)
    BY <2>1, <2>3, KindsDiffer DEF Meant, ShortLiteral, VmRight, LlvmRight
  <2>5. QED
    BY <2>1, <2>2, <2>4 DEF Right
<1>4. ASSUME NEW x \in IntegerLeaves PROVE Right(x)
  <2>1. CASE \E t \in IntegerKinds : \E n \in LiteralsOf(t) : x = IntegerValue(t, n, TRUE)
    BY <1>1, <2>1
  <2>2. CASE \E t \in IntegerKinds : \E n \in Boundary(t) : x = IntegerValue(t, n, FALSE)
    BY <1>2, <2>2
  <2>3. CASE \E n \in {0, 1} : x = IntegerValue("bool", n, FALSE)
    BY <2>3, BooleanLeaf
  <2>4. \/ x \in UNION {{IntegerValue(t, n, TRUE) : n \in LiteralsOf(t)} : t \in IntegerKinds}
        \/ x \in UNION {{IntegerValue(t, n, FALSE) : n \in Boundary(t)} : t \in IntegerKinds}
        \/ x \in {IntegerValue("bool", n, FALSE) : n \in {0, 1}}
    BY <1>4 DEF IntegerLeaves
  <2>5. QED
    BY <2>1, <2>2, <2>3, <2>4
<1>5. ASSUME NEW x \in FloatLeaves PROVE Right(x)
  BY <1>3 DEF FloatLeaves
<1>6. QED
  BY <1>4, <1>5

\* The inductive invariant: each back end that is not known to differ is right.
RightSoFar ==
    /\ vmDiffers \in BOOLEAN /\ llvmDiffers \in BOOLEAN
    /\ Meant(acc) /\ ShortLiteral(acc)
    /\ ~vmDiffers => VmRight(acc)
    /\ ~llvmDiffers => LlvmRight(acc)

\* A program starts from a right value.
LEMMA RightAtFirst == Init => RightSoFar
BY LeavesRight DEF Init, RightSoFar, Right

\* A step that keeps what is right of the value it starts from.
LEMMA StepKeeps ==
    ASSUME NEW value, NEW vmOff \in BOOLEAN, NEW llvmOff \in BOOLEAN,
           RightSoFar, KeptFrom(acc, value, vmOff, llvmOff), NewSum(value, vmOff, llvmOff)
    PROVE  RightSoFar'
BY DEF RightSoFar, KeptFrom, NewSum, Meant, ShortLiteral, VmRight, LlvmRight

\* The leaf a binary operator is given is right, on whichever side it is.
LEMMA BinaryKeeps ==
    ASSUME NEW op \in BinaryOperators, NEW x, Right(x), RightSoFar, Binary(op, acc, x) \/ Binary(op, x, acc)
    PROVE  RightSoFar'
<1>1. ASSUME NEW l, NEW r, Binary(op, l, r), (l = acc /\ r = x) \/ (l = x /\ r = acc)
      PROVE  RightSoFar'
  <2>1. /\ Legal(op, l, r)
        /\ \E stale : NewSum(Result(op, l, r, stale), VmOff(op, l, r), LlvmOff(op, l, r))
    <3>1. Meant(l) /\ ShortLiteral(l) /\ Meant(r) /\ ShortLiteral(r)
      BY <1>1 DEF Right, RightSoFar
    <3>2. Legal(op, l, r)
      BY <1>1, <3>1 DEF Binary, Legal
    <3>3. \E stale : NewSum(Result(op, l, r, stale), VmOff(op, l, r), LlvmOff(op, l, r))
      BY <1>1, Zenon DEF Binary, Result, VmOff, LlvmOff
    <3>4. QED
      BY <3>2, <3>3
  <2>2. PICK stale : NewSum(Result(op, l, r, stale), VmOff(op, l, r), LlvmOff(op, l, r))
    BY <2>1
  <2>3. Kept(op, l, r, stale)
    BY <2>1, BinaryKept
  <2>4. PICK value : value = Result(op, l, r, stale)
    OBVIOUS
  <2>5. KeptFrom(acc, value, VmOff(op, l, r), LlvmOff(op, l, r))
    BY <1>1, <2>3, <2>4 DEF Kept, KeptFrom, Right
  <2>6. VmOff(op, l, r) \in BOOLEAN /\ LlvmOff(op, l, r) \in BOOLEAN
    BY DEF VmOff, LlvmOff
  <2>7. QED
    BY <2>2, <2>4, <2>5, <2>6, StepKeeps
<1>2. QED
  BY <1>1

\* Every step keeps the value right in each back end that is not known to differ.
LEMMA RightOn == RightSoFar /\ [Next]_vars => RightSoFar'
<1>1. SUFFICES ASSUME RightSoFar, [Next]_vars PROVE RightSoFar'
  OBVIOUS
<1>2. ASSUME NEW x \in IntegerLeaves \cup FloatLeaves, NEW op \in BinaryOperators, Binary(op, acc, x) \/ Binary(op, x, acc)
      PROVE  RightSoFar'
  BY <1>1, <1>2, LeavesRight, BinaryKeeps
<1>3. ASSUME NEW op \in UnaryOperators, Unary(op)
      PROVE  RightSoFar'
  <2>1. PICK value, vmOff : /\ vmOff \in BOOLEAN
                            /\ value = UnaryResult(op, acc)
                            /\ vmOff = Uncut(ExactUnary(op, acc.means).num, AnnotateUnary(op, acc.type))
    <3>1. Uncut(ExactUnary(op, acc.means).num, AnnotateUnary(op, acc.type)) \in BOOLEAN
      BY DEF Uncut
    <3>2. QED
      BY <3>1
  <2>2. AnnotateUnary(op, acc.type) # NoType /\ NewSum(value, vmOff, FALSE)
    BY <1>3, <2>1 DEF Unary, UnaryResult
  <2>3. KeptFrom(acc, value, vmOff, FALSE)
    BY <1>1, <2>1, <2>2, UnaryKept DEF RightSoFar
  <2>4. QED
    BY <1>1, <2>1, <2>2, <2>3, StepKeeps
<1>4. ASSUME NEW t \in Types, ExplicitCast(t)
      PROVE  RightSoFar'
  <2>1. PICK value, vmOff, llvmOff : /\ vmOff \in BOOLEAN /\ llvmOff \in BOOLEAN
                                     /\ value = Cast(acc, t)
                                     /\ vmOff = VmCastDiffers(acc, t) /\ llvmOff = SignedTruth(acc, t)
    <3>1. VmCastDiffers(acc, t) \in BOOLEAN /\ SignedTruth(acc, t) \in BOOLEAN
      BY DEF VmCastDiffers, SignedTruth
    <3>2. QED
      BY <3>1
  <2>2. t # acc.type /\ Representable(acc, t) /\ NewSum(value, vmOff, llvmOff)
    BY <1>4, <2>1 DEF ExplicitCast
  <2>3. KeptFrom(acc, value, vmOff, llvmOff)
    BY <1>1, <2>1, <2>2, CastKept DEF RightSoFar
  <2>4. QED
    BY <1>1, <2>1, <2>2, <2>3, StepKeeps
<1>5. ASSUME NEW t \in Types, NEW element \in BOOLEAN, Assign(t, element)
      PROVE  RightSoFar'
  <2> DEFINE off == VmCastDiffers(acc, t)
                        \/ (element /\ (UnsignedElement(t, Convert(acc, t).means.num) \/ NotOneBit(Convert(acc, t))))
  <2>1. PICK value, vmOff : vmOff \in BOOLEAN /\ value = AssignResult(acc, t, element) /\ vmOff = off
    <3>1. off \in BOOLEAN
      BY DEF VmCastDiffers
    <3>2. QED
      BY <3>1
  <2>2. CanImplicit(acc.type, t) /\ Representable(acc, t) /\ NewSum(value, vmOff, FALSE)
    BY <1>5, <2>1 DEF Assign, AssignResult
  <2>3. KeptFrom(acc, value, vmOff, FALSE)
    BY <1>1, <2>1, <2>2, AssignKept DEF RightSoFar
  <2>4. QED
    BY <1>1, <2>1, <2>2, <2>3, StepKeeps
<1>6. CASE UNCHANGED vars
  BY <1>1, <1>6 DEF vars, RightSoFar, Meant, ShortLiteral, VmRight, LlvmRight
<1>7. QED
  BY <1>1, <1>2, <1>3, <1>4, <1>5, <1>6 DEF Next, Operands

\* The value is right, at all times, in each back end that is not known to differ: for
\* any widths, numbers and lengths of programs (VmBinary, LlvmBinary and what they use).
THEOREM AlwaysRight == Spec => []RightSoFar
BY RightAtFirst, RightOn, PTL DEF Spec

\* A right value is shown as what it means, by the interpreter
LEMMA VmShownRight ==
    ASSUME NEW x, Meant(x), VmRight(x)
    PROVE  VmShown(x.type, x.vm) = x.means
<1>1. CASE x.type = "f64"
  BY <1>1 DEF VmShown, VmRight
<1>2. CASE x.type = "bool"
  <2>1. PICK b \in {0, 1} : b = x.means.num /\ x.means = Whole(b)
    BY <1>2, OneBit
  <2>2. Truth(x.vm # 0) = b
    BY <1>2, <2>1 DEF VmRight, Truth
  <2>3. QED
    BY <1>2, <2>1, <2>2 DEF VmShown
<1>3. CASE x.type \in IntegerKinds
  <2>1. PICK t \in IntegerKinds, n \in Int : t = x.type /\ n = x.means.num /\ Fits(n, t) /\ x.means = Whole(n)
    BY <1>3 DEF Meant
  <2>2. PICK w \in Nat \ {0} : w = Register(t) /\ Bits[t] <= w /\ (Narrow(t) => Bits[t] < w) /\ (~Narrow(t) => Bits[t] = w)
    BY KindBits, KindsDiffer
  <2>3. x.vm = Signed(n, w)
    BY <2>1, <2>2 DEF VmRight
  <2>4. CASE t \in {"u64", "u128"}
    <3>1. Bits[t] = w /\ t \in UnsignedKinds
      BY <2>2, <2>4 DEF Narrow, UnsignedKinds
    <3>2. Pattern(Signed(n, w), Bits[t]) = n
      BY <2>1, <2>2, <3>1, UnsignedRange
    <3>3. QED
      BY <2>1, <2>3, <2>4, <3>2 DEF VmShown
  <2>5. CASE t \notin {"u64", "u128"}
    <3>1. Signed(n, w) = n
      <4>1. CASE t \in SignedKinds
        BY <2>1, <2>2, <4>1, SignedRange
      <4>2. CASE t \in UnsignedKinds
        <5>1. Bits[t] < w
          BY <2>2, <2>5, <4>2 DEF Narrow, UnsignedKinds
        <5>2. QED
          BY <2>1, <2>2, <4>2, <5>1, UnsignedRange
      <4>3. QED
        BY <4>1, <4>2 DEF IntegerKinds
    <3>2. t # "f64" /\ t # "bool"
      BY KindsDiffer
    <3>3. QED
      BY <2>1, <2>3, <2>5, <3>1, <3>2 DEF VmShown
  <2>6. QED
    BY <2>4, <2>5
<1>4. QED
  BY <1>1, <1>2, <1>3, KindsDiffer DEF Meant

\* and by compiled code.
LEMMA LlvmShownRight ==
    ASSUME NEW x, Meant(x), LlvmRight(x)
    PROVE  LlvmShown(x.type, x.llvm) = x.means
<1>1. CASE x.type = "f64"
  BY <1>1 DEF LlvmShown, LlvmRight, UnsignedKinds
<1>2. CASE x.type = "bool"
  <2>1. PICK b \in {0, 1} : b = x.means.num /\ x.means = Whole(b)
    BY <1>2, OneBit
  <2>2. x.llvm = Signed(b, 1)
    BY <1>2, <2>1, Widths DEF LlvmRight
  <2>3. Truth(x.llvm # 0) = b
    BY <2>1, <2>2, TruthIs DEF Truth
  <2>4. QED
    BY <1>2, <2>1, <2>3 DEF LlvmShown, UnsignedKinds
<1>3. CASE x.type \in IntegerKinds
  <2>1. PICK t \in IntegerKinds, n \in Int : t = x.type /\ n = x.means.num /\ Fits(n, t) /\ x.means = Whole(n)
    BY <1>3 DEF Meant
  <2>2. PICK w \in Nat \ {0} : w = Bits[t] /\ Bits[t] <= w
    BY KindBits
  <2>3. x.llvm = Signed(n, w)
    BY <2>1, <2>2 DEF LlvmRight
  <2>4. ReadAs(t \in UnsignedKinds, Signed(n, w), w) = n
    BY <2>1, <2>2, ReadBack
  <2>5. t # "f64" /\ t # "bool"
    BY KindsDiffer
  <2>6. CASE t \in UnsignedKinds
    <3>1. Pattern(Signed(n, w), Bits[t]) = n
      BY <2>2, <2>4, <2>6 DEF ReadAs
    <3>2. QED
      BY <2>1, <2>3, <2>5, <2>6, <3>1 DEF LlvmShown
  <2>7. CASE t \notin UnsignedKinds
    <3>1. Signed(n, w) = n
      BY <2>4, <2>7 DEF ReadAs
    <3>2. QED
      BY <2>1, <2>3, <2>5, <2>7, <3>1 DEF LlvmShown
  <2>8. QED
    BY <2>6, <2>7
<1>4. QED
  BY <1>1, <1>2, <1>3, KindsDiffer DEF Meant

\* The interpreter shows what the steps mean, unless one of them is among the cases
\* NumericRun names (ir/vmcompiler.cpp and ir/eval.cpp against the annotation).
THEOREM BytecodeAlwaysMeans == Spec => []BytecodeMeans
<1>1. RightSoFar => BytecodeMeans
  BY VmShownRight DEF RightSoFar, BytecodeMeans
<1>2. QED
  BY <1>1, AlwaysRight, PTL

\* Compiled code shows what the steps mean, unless one of them is among the cases
\* NumericRun names (codegen/llvm/llvm_codegen.cpp against the annotation).
THEOREM NativeAlwaysMeans == Spec => []NativeMeans
<1>1. RightSoFar => NativeMeans
  BY LlvmShownRight DEF RightSoFar, NativeMeans
<1>2. QED
  BY <1>1, AlwaysRight, PTL
=============================================================================
