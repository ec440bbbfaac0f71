-------------------------- MODULE AggregatesProofs --------------------------
(***************************************************************************)
(* What the generated comparators decide and the generated aggregation     *)
(* functions compute, for words of any width and for any number of values. *)
(*                                                                         *)
(* The functions that go over all values are folds, which the library      *)
(* defines by a function on the subsets of the places: that there is such  *)
(* a function, and what it is at the places 1 .. k, is shown here once     *)
(* (SetRecursion, FoldSteps) and then used for every one of them.          *)
(***************************************************************************)
EXTENDS Aggregates, TLAPS, FiniteSetTheorems, FunctionTheorems, SequenceTheorems,
        WellFoundedInduction

-----------------------------------------------------------------------------
(* Natural numbers.                                                        *)

\* The order of the natural numbers.
Below == {p \in Nat \X Nat : p[1] < p[2]}

\* A set of naturals has a least element, from which the rest goes up.
LEMMA LeastElement ==
  ASSUME NEW S \in SUBSET Nat, S # {}
  PROVE  \E m \in S : \A n \in S : m <= n
<1>1. IsWellFoundedOn(Below, Nat)
  BY NatLessThanWellFounded DEF Below, OpToRel
<1>2. PICK m \in S : \A n \in S : ~ (<<n, m>> \in Below)
  BY <1>1, WFMin
<1>3. ASSUME NEW n \in S PROVE m <= n
  <2>1. <<n, m>> \in Nat \X Nat /\ <<n, m>> \notin Below
    BY <1>2
  <2>2. ~ (n < m)
    BY <2>1 DEF Below
  <2>3. QED
    BY <2>2
<1>4. QED
  BY <1>3

\* A set of naturals with 0 and the successor of each of its elements is Nat.
LEMMA AllNaturals ==
  ASSUME NEW S \in SUBSET Nat, 0 \in S, \A n \in S : n + 1 \in S
  PROVE  S = Nat
<1>1. SUFFICES ASSUME Nat \ S # {} PROVE FALSE
  OBVIOUS
<1>2. PICK m \in Nat \ S : \A n \in Nat \ S : m <= n
  BY <1>1, LeastElement
<1>3. m - 1 \in Nat /\ m - 1 \notin Nat \ S
  BY <1>2
<1>4. (m - 1) + 1 \in S
  BY <1>3
<1>5. QED
  BY <1>2, <1>4

\* The same up to a bound.
LEMMA AllUpTo ==
  ASSUME NEW N \in Nat, NEW S, 0 \in S,
         \A n \in 0 .. N - 1 : n \in S => n + 1 \in S
  PROVE  0 .. N \subseteq S
<1> DEFINE T == {n \in Nat : n <= N => n \in S}
<1>1. 0 \in T
  OBVIOUS
<1>2. ASSUME NEW n \in T PROVE n + 1 \in T
  <2>1. n + 1 <= N => n \in 0 .. N - 1 /\ n \in S
    OBVIOUS
  <2>2. QED
    BY <2>1
<1>3. T = Nat
  <2> HIDE DEF T
  <2>1. T \in SUBSET Nat
    BY DEF T
  <2>2. QED
    BY <1>1, <1>2, <2>1, AllNaturals
<1>4. QED
  BY <1>3

-----------------------------------------------------------------------------
(* The powers of two.                                                      *)

\* What the recursive function of the powers of two is.
LEMMA TwoToIs ==
  /\ TwoTo \in [0 .. WordBits -> Nat \ {0}]
  /\ TwoTo[0] = 1
  /\ \A k \in 0 .. WordBits - 1 : TwoTo[k + 1] = 2 * TwoTo[k]
<1> DEFINE N == WordBits
           Powers(n) == {g \in [0 .. n -> Nat \ {0}] :
                           /\ g[0] = 1
                           /\ \A k \in 1 .. n : g[k] = 2 * g[k - 1]}
           S == {n \in Nat : Powers(n) # {}}
<1>1. N \in Nat
  BY ComparatorsAssumption
<1>2. 0 \in S
  <2>1. [k \in 0 .. 0 |-> 1] \in Powers(0)
    OBVIOUS
  <2>2. QED
    BY <2>1
<1>3. ASSUME NEW n \in S PROVE n + 1 \in S
  <2>1. PICK g : g \in Powers(n)
    BY <1>3
  <2> DEFINE h == [k \in 0 .. n + 1 |-> IF k = n + 1 THEN 2 * g[n] ELSE g[k]]
  <2>2. n \in Nat /\ g \in [0 .. n -> Nat \ {0}] /\ g[n] \in Nat \ {0}
    BY <2>1
  <2>3. h \in [0 .. n + 1 -> Nat \ {0}] /\ h[0] = 1
    BY <2>1, <2>2
  <2>4. ASSUME NEW k \in 1 .. n + 1 PROVE h[k] = 2 * h[k - 1]
    <3>1. CASE k = n + 1
      BY <2>2, <3>1
    <3>2. CASE k # n + 1
      <4>1. k \in 1 .. n /\ k - 1 \in 0 .. n /\ k - 1 # n + 1
        BY <2>2, <3>2
      <4>2. h[k] = g[k] /\ h[k - 1] = g[k - 1]
        BY <2>2, <4>1
      <4>3. QED
        BY <2>1, <4>1, <4>2
    <3>3. QED
      BY <3>1, <3>2
  <2>5. h \in Powers(n + 1)
    BY <2>3, <2>4
  <2>6. n + 1 \in Nat /\ Powers(n + 1) # {}
    <3> HIDE DEF Powers, h
    <3>1. QED
      BY <2>2, <2>5
  <2>7. QED
    BY <2>6
<1>4. S = Nat
  <2> HIDE DEF S
  <2>1. S \in SUBSET Nat
    BY DEF S
  <2>2. QED
    BY <1>2, <1>3, <2>1, AllNaturals
<1>5. PICK g : g \in Powers(N)
  BY <1>1, <1>4
<1>6. g = [k \in 0 .. WordBits |-> IF k = 0 THEN 1 ELSE 2 * g[k - 1]]
  BY <1>1, <1>5
<1>7. TwoTo = [k \in 0 .. WordBits |-> IF k = 0 THEN 1 ELSE 2 * TwoTo[k - 1]]
  BY <1>6 DEF TwoTo
<1>8. TwoTo[0] = 1
  BY <1>1, <1>7
<1>9. \A k \in 0 .. N - 1 : TwoTo[k + 1] = 2 * TwoTo[k]
  BY <1>1, <1>7
<1>10. \A k \in 0 .. N : TwoTo[k] \in Nat \ {0}
  <2> DEFINE U == {k \in 0 .. N : TwoTo[k] \in Nat \ {0}}
  <2>1. 0 \in U
    BY <1>1, <1>8
  <2>2. \A k \in 0 .. N - 1 : k \in U => k + 1 \in U
    BY <1>1, <1>9
  <2>3. 0 .. N \subseteq U
    <3> HIDE DEF U
    <3>1. QED
      BY <1>1, <2>1, <2>2, AllUpTo
  <2>4. QED
    BY <2>3
<1>11. QED
  BY <1>7, <1>8, <1>9, <1>10

\* They grow.
LEMMA TwoToGrows ==
  ASSUME NEW j \in 0 .. WordBits, NEW k \in 0 .. j
  PROVE  TwoTo[k] <= TwoTo[j]
<1> DEFINE U == {n \in 0 .. WordBits : \A m \in 0 .. n : TwoTo[m] <= TwoTo[n]}
<1>1. WordBits \in Nat
  BY ComparatorsAssumption
<1>2. 0 \in U
  BY <1>1, TwoToIs
<1>3. ASSUME NEW n \in 0 .. WordBits - 1, n \in U PROVE n + 1 \in U
  <2>1. n + 1 \in 0 .. WordBits /\ n \in 0 .. WordBits
    BY <1>1
  <2>2. TwoTo[n] \in Nat /\ TwoTo[n + 1] = 2 * TwoTo[n]
    BY <2>1, TwoToIs
  <2>3. ASSUME NEW m \in 0 .. n + 1 PROVE TwoTo[m] <= TwoTo[n + 1]
    <3>1. CASE m = n + 1
      BY <2>1, <3>1, TwoToIs
    <3>2. CASE m # n + 1
      <4>1. m \in 0 .. n /\ m \in 0 .. WordBits
        BY <1>1, <3>2
      <4>2. TwoTo[m] <= TwoTo[n] /\ TwoTo[m] \in Nat
        BY <1>3, <4>1, TwoToIs
      <4>3. QED
        BY <2>2, <4>2
    <3>3. QED
      BY <3>1, <3>2
  <2>4. QED
    BY <2>1, <2>3
<1>4. 0 .. WordBits \subseteq U
  <2> HIDE DEF U
  <2>1. QED
    BY <1>1, <1>2, <1>3, AllUpTo
<1>5. QED
  BY <1>4

\* The ranges of a word and of half a word.
LEMMA Ranges ==
  /\ WordRange \in Nat \ {0}
  /\ HalfRange \in 1 .. WordRange
<1>1. /\ WordBits \in 0 .. WordBits /\ HalfBits \in 0 .. WordBits
  BY ComparatorsAssumption
<1>2. WordRange \in Nat \ {0} /\ HalfRange \in Nat \ {0}
  BY <1>1, TwoToIs DEF WordRange, HalfRange
<1>3. HalfRange <= WordRange
  BY <1>1, TwoToGrows DEF WordRange, HalfRange
<1>4. QED
  BY <1>2, <1>3

-----------------------------------------------------------------------------
(* The comparators.                                                        *)

\* The remainder of a number less than one range away from the words.
LEMMA Wrapped ==
  ASSUME NEW a \in Int, -WordRange <= a, a < 2 * WordRange
  PROVE  /\ 0 <= a /\ a < WordRange => a % WordRange = a
         /\ a < 0 => a % WordRange = a + WordRange
         /\ a >= WordRange => a % WordRange = a - WordRange
<1> DEFINE W == WordRange
           r == a % W
           q == a \div W
<1>1. W \in Nat /\ W > 0
  BY Ranges
<1> HIDE DEF W
<1>2. r \in 0 .. W - 1 /\ q \in Int /\ a = W * q + r
  BY <1>1, SMT
<1> HIDE DEF r, q
<1>3. q \in {-1, 0, 1}
  <2>1. q < 2
    <3>1. SUFFICES ASSUME q >= 2 PROVE FALSE
      BY <1>2, SMT
    <3>2. W * q >= W * 2
      BY <1>1, <1>2, <3>1, SMT
    <3> QED
      BY <1>1, <1>2, <3>2, SMT DEF W
  <2>2. q > -2
    <3>1. SUFFICES ASSUME q <= -2 PROVE FALSE
      BY <1>2, SMT
    <3>2. W * q <= W * (-2)
      BY <1>1, <1>2, <3>1, SMT
    <3> QED
      BY <1>1, <1>2, <3>2, SMT DEF W
  <2> QED
    BY <1>2, <2>1, <2>2, SMT
<1>4. /\ q = 0 => a = r
      /\ q = 1 => a = W + r
      /\ q = -1 => a = r - W
  BY <1>1, <1>2, SMT
<1>5. /\ 0 <= a /\ a < W => r = a
      /\ a < 0 => r = a + W
      /\ a >= W => r = a - W
  BY <1>1, <1>2, <1>3, <1>4, SMT
<1> QED
  BY <1>5 DEF W, r

-----------------------------------------------------------------------------
\* The bounds of a comparator, each in its range and where it wraps around.
LEMMA Bounds ==
  ASSUME NEW y \in Words, NEW delta \in Words
  PROVE  /\ Plus(y, delta) \in Words
         /\ Minus(y, delta) \in Words
         /\ Plus(y, delta) = IF y + delta < WordRange THEN y + delta
                             ELSE y + delta - WordRange
         /\ Minus(y, delta) = IF y >= delta THEN y - delta
                              ELSE y - delta + WordRange
<1>1. WordRange \in Nat /\ WordRange > 0
  BY Ranges
<1>2. /\ y \in Int /\ 0 <= y /\ y < WordRange
      /\ delta \in Int /\ 0 <= delta /\ delta < WordRange
  BY <1>1 DEF Words
<1>3. Plus(y, delta) = IF y + delta < WordRange THEN y + delta
                       ELSE y + delta - WordRange
  <2> DEFINE a == y + delta
  <2>1. a \in Int /\ 0 <= a /\ -WordRange <= a /\ a < 2 * WordRange
    BY <1>1, <1>2
  <2> HIDE DEF a
  <2>2. /\ a < WordRange => a % WordRange = a
        /\ a >= WordRange => a % WordRange = a - WordRange
    BY <2>1, Wrapped
  <2>3. a % WordRange = IF a < WordRange THEN a ELSE a - WordRange
    BY <1>1, <2>1, <2>2
  <2> QED
    <3>1. y + delta = a
      BY DEF a
    <3>2. Plus(y, delta) = a % WordRange
      BY <3>1 DEF Plus
    <3>3. Plus(y, delta) = IF a < WordRange THEN a ELSE a - WordRange
      BY <2>3, <3>2
    <3> QED
      BY <1>1, <1>2, <3>1, <3>3
<1>4. Minus(y, delta) = IF y >= delta THEN y - delta
                        ELSE y - delta + WordRange
  <2> DEFINE a == y - delta
  <2>1. /\ a \in Int /\ a < WordRange /\ -WordRange <= a /\ a < 2 * WordRange
        /\ y >= delta <=> 0 <= a
    BY <1>1, <1>2
  <2> HIDE DEF a
  <2>2. /\ 0 <= a => a % WordRange = a
        /\ a < 0 => a % WordRange = a + WordRange
    BY <2>1, Wrapped
  <2>3. a % WordRange = IF y >= delta THEN a ELSE a + WordRange
    BY <1>1, <2>1, <2>2
  <2> QED
    BY <2>3 DEF Minus, a
<1> QED
  BY <1>1, <1>2, <1>3, <1>4 DEF Words

\* Where neither bound leaves the range of the word, a comparison up to a delta
\* is what it says: "eq" holds within the delta, and the four orders are
\* loosened by it (generate-functions.py:137-155).
THEOREM DeltaInRange ==
  ASSUME NEW x \in Words, NEW y \in Words, NEW delta \in Words,
         y >= delta, y + delta < WordRange
  PROVE  /\ Compare("eq", x, y, delta) <=> x - y <= delta /\ y - x <= delta
         /\ Compare("lt", x, y, delta) <=> x < y + delta
         /\ Compare("le", x, y, delta) <=> x <= y + delta
         /\ Compare("gt", x, y, delta) <=> x > y - delta
         /\ Compare("ge", x, y, delta) <=> x >= y - delta
<1>1. Plus(y, delta) = y + delta /\ Minus(y, delta) = y - delta
  BY Bounds
<1>2. x \in Int /\ y \in Int /\ delta \in Int
  BY Ranges DEF Words
<1> QED
  BY <1>1, <1>2 DEF Compare

\* Next to 0 a delta does not widen the comparison but empties it: a value less
\* than the delta matches nothing, not even itself, as long as the delta is
\* less than half the range (generate-functions.py:137-145).
THEOREM DeltaBelowZero ==
  ASSUME NEW x \in Words, NEW y \in Words, NEW delta \in Words,
         y < delta, 2 * delta < WordRange
  PROVE  ~ Compare("eq", x, y, delta)
<1>1. x \in Int /\ y \in Int /\ delta \in Int /\ 0 <= y /\ WordRange \in Int
  BY Ranges DEF Words
<1>2. y + delta < WordRange /\ ~ y >= delta
  BY <1>1
<1>3. Plus(y, delta) = y + delta /\ Minus(y, delta) = y - delta + WordRange
  BY <1>2, Bounds
<1> QED
  BY <1>1, <1>3 DEF Compare

\* The same next to the largest number.
THEOREM DeltaBeyondRange ==
  ASSUME NEW x \in Words, NEW y \in Words, NEW delta \in Words,
         y + delta >= WordRange, 2 * delta < WordRange
  PROVE  ~ Compare("eq", x, y, delta)
<1>1. /\ x \in Int /\ y \in Int /\ delta \in Int /\ WordRange \in Int
      /\ y < WordRange
  BY Ranges DEF Words
<1>2. ~ y + delta < WordRange /\ y >= delta
  BY <1>1
<1>3. Plus(y, delta) = y + delta - WordRange /\ Minus(y, delta) = y - delta
  BY <1>2, Bounds
<1> QED
  BY <1>1, <1>3 DEF Compare

\* Wherever the bounds wrap, "ne" is the opposite of "eq" and "gt" that of "le"
\* only when there is no delta (generate-functions.py:137-155).
THEOREM Opposites ==
  ASSUME NEW x \in Words, NEW y \in Words, NEW delta \in Words
  PROVE  /\ Compare("ne", x, y, delta) <=> ~ Compare("eq", x, y, delta)
         /\ Compare("gt", x, y, 0) <=> ~ Compare("le", x, y, 0)
         /\ Compare("ge", x, y, 0) <=> ~ Compare("lt", x, y, 0)
<1>1. x \in Int /\ y \in Int /\ 0 <= y /\ y < WordRange
  BY Ranges DEF Words
<1>2. Plus(y, delta) \in Int /\ Minus(y, delta) \in Int
  BY Ranges, Bounds DEF Words
<1>3. Compare("ne", x, y, delta) <=> ~ Compare("eq", x, y, delta)
  BY <1>1, <1>2 DEF Compare
<1>4. 0 \in Words
  BY Ranges DEF Words
<1>5. Plus(y, 0) = y /\ Minus(y, 0) = y
  BY <1>1, <1>4, Bounds
<1> QED
  BY <1>1, <1>3, <1>5 DEF Compare

\* The merger passes a delta of 0 (merger.c:146), so that its "eq" is equality,
\* except that two fields of 0 are not equal (generate-functions.py:387-397).
THEOREM MergerEquality ==
  ASSUME NEW x \in Words, NEW y \in Words
  PROVE  MergerCompare("eq", x, y, 0) <=> x = y /\ x # 0
<1>1. x \in Int /\ y \in Int /\ 0 <= y /\ y < WordRange /\ 0 \in Words
  BY Ranges DEF Words
<1>2. Plus(y, 0) = y /\ Minus(y, 0) = y
  BY <1>1, Bounds
<1> QED
  BY <1>1, <1>2 DEF MergerCompare, Compare

\* Eight of the thirteen relations between intervals never hold, whatever the
\* groups: of each interval only one end is looked at, which would have to be
\* both before and after that of the other, or before it and equal
\* (generate-functions.py:449-466).
THEOREM AllenContradictions ==
  ASSUME NEW x \in Words, NEW y \in Words,
         NEW op \in {"allen_o", "allen_oi", "allen_d", "allen_di",
                     "allen_s", "allen_si", "allen_f", "allen_fi"}
  PROVE  ~ AllenCompare(op, x, y)
<1>1. x % HalfRange \in Int /\ y % HalfRange \in Int
  BY Ranges DEF Words
<1> DEFINE t1 == x % HalfRange
           t2 == y % HalfRange
<1>2. t1 \in Int /\ t2 \in Int
  BY <1>1
<1> HIDE DEF t1, t2
<1>3. ~ (t1 < t2 /\ t1 > t2) /\ ~ (t1 = t2 /\ t1 < t2) /\ ~ (t1 = t2 /\ t1 > t2)
  BY <1>2
<1>4. CASE op \in {"allen_o", "allen_oi", "allen_d", "allen_di"}
  <2>1. AllenCompare(op, x, y) = (t1 < t2 /\ t1 > t2)
    BY <1>4 DEF AllenCompare, t1, t2
  <2> QED
    BY <1>3, <2>1
<1>5. CASE op \in {"allen_s", "allen_fi"}
  <2>1. AllenCompare(op, x, y) = (t1 = t2 /\ t1 < t2)
    BY <1>5 DEF AllenCompare, t1, t2
  <2> QED
    BY <1>3, <2>1
<1>6. CASE op \in {"allen_si", "allen_f"}
  <2>1. AllenCompare(op, x, y) = (t1 = t2 /\ t1 > t2)
    BY <1>6 DEF AllenCompare, t1, t2
  <2> QED
    BY <1>3, <2>1
<1> QED
  BY <1>4, <1>5, <1>6

-----------------------------------------------------------------------------
(* The bits of a word.                                                     *)

\* A quotient is known by its remainder.
LEMMA QuotientIs ==
  ASSUME NEW p \in Nat \ {0}, NEW q \in Int, NEW r \in 0 .. p - 1
  PROVE  (p * q + r) \div p = q
<1> DEFINE a == p * q + r
           d == a \div p
           m == a % p
<1>1. a \in Int /\ d \in Int /\ m \in 0 .. p - 1 /\ a = p * d + m
  BY SMT
<1>2. p * q + r = p * d + m
  BY <1>1
<1> HIDE DEF a, d, m
<1>3. d <= q
  <2>1. SUFFICES ASSUME d >= q + 1 PROVE FALSE
    BY <1>1
  <2>2. p * d >= p * (q + 1)
    BY <1>1, <2>1, SMT
  <2>3. p * (q + 1) = p * q + p
    BY <1>1, SMT
  <2>4. QED
    BY <1>1, <1>2, <2>2, <2>3, SMT
<1>4. q <= d
  <2>1. SUFFICES ASSUME q >= d + 1 PROVE FALSE
    BY <1>1
  <2>2. p * q >= p * (d + 1)
    BY <1>1, <2>1, SMT
  <2>3. p * (d + 1) = p * d + p
    BY <1>1, SMT
  <2>4. QED
    BY <1>1, <1>2, <2>2, <2>3, SMT
<1>5. QED
  BY <1>1, <1>3, <1>4 DEF d, a

\* The quotient and the remainder of a number.
LEMMA QuotientRemainder ==
  ASSUME NEW a \in Int, NEW p \in Nat \ {0}
  PROVE  /\ a \div p \in Int
         /\ a % p \in 0 .. p - 1
         /\ a = p * (a \div p) + (a % p)
BY SMT

\* The bits of a number but for the lowest are those of its half.
LEMMA BitsOfHalf ==
  ASSUME NEW y \in Nat, NEW b \in {0, 1}, NEW p \in Nat \ {0}
  PROVE  /\ (2 * y + b) \div (2 * p) = y \div p
         /\ (2 * y + b) \div 1 = 2 * y + b
         /\ (2 * y + b) % 2 = b
<1> DEFINE q == y \div p
           r == y % p
<1>1. q \in Int /\ r \in 0 .. p - 1 /\ y = p * q + r
  BY QuotientRemainder
<1> HIDE DEF q, r
<1>2. 2 * p \in Nat \ {0} /\ 2 * r + b \in 0 .. (2 * p) - 1
  BY <1>1
<1>3. 2 * y + b = (2 * p) * q + (2 * r + b)
  BY <1>1, SMT
<1>4. ((2 * p) * q + (2 * r + b)) \div (2 * p) = q
  BY <1>1, <1>2, QuotientIs
<1>5. (2 * y + b) \div (2 * p) = q
  BY <1>3, <1>4
<1>6. QED
  BY <1>5 DEF q

\* The bit of a word at a place.
BitAt(x, k) == (x \div TwoTo[k]) % 2

\* The bits of a number are its last one and those of its half.
LEMMA BitAtHalf ==
  ASSUME NEW y \in Nat, NEW b \in {0, 1}, WordBits # 0
  PROVE  /\ BitAt(2 * y + b, 0) = b
         /\ \A k \in 0 .. WordBits - 1 :
              k + 1 \in 0 .. WordBits - 1 => BitAt(2 * y + b, k + 1) = BitAt(y, k)
<1>1. WordBits \in Nat
  BY ComparatorsAssumption
<1>2. BitAt(2 * y + b, 0) = b
  <2>1. TwoTo[0] = 1
    BY TwoToIs
  <2>2. (2 * y + b) \div 1 = 2 * y + b /\ (2 * y + b) % 2 = b
    BY BitsOfHalf
  <2>3. QED
    BY <2>1, <2>2, Zenon DEF BitAt
<1>3. ASSUME NEW k \in 0 .. WordBits - 1, k + 1 \in 0 .. WordBits - 1
      PROVE  BitAt(2 * y + b, k + 1) = BitAt(y, k)
  <2>1. TwoTo[k] \in Nat \ {0} /\ TwoTo[k + 1] = 2 * TwoTo[k]
    BY <1>1, TwoToIs
  <2>2. (2 * y + b) \div (2 * TwoTo[k]) = y \div TwoTo[k]
    BY <2>1, BitsOfHalf
  <2>3. QED
    BY <2>1, <2>2 DEF BitAt
<1>4. QED
  BY <1>2, <1>3

\* Any bits below the j-th are those of a number below the power j.
LEMMA SomeNumber ==
  \A B \in SUBSET (0 .. WordBits - 1) :
    \E x \in Words : \A k \in 0 .. WordBits - 1 : BitAt(x, k) = 1 <=> k \in B
<1> DEFINE Has(j, B, x) == \A k \in 0 .. j - 1 : BitAt(x, k) = 1 <=> k \in B
           U == {j \in 0 .. WordBits :
                   \A B \in SUBSET (0 .. j - 1) :
                     \E x \in 0 .. TwoTo[j] - 1 : Has(j, B, x)}
<1>1. WordBits \in Nat
  BY ComparatorsAssumption
<1>2. 0 \in U
  <2>1. 0 \in 0 .. TwoTo[0] - 1
    BY TwoToIs
  <2>2. \A B : Has(0, B, 0)
    OBVIOUS
  <2>3. 0 \in 0 .. WordBits
    BY <1>1
  <2>4. QED
    BY <2>1, <2>2, <2>3
<1>3. ASSUME NEW j \in 0 .. WordBits - 1, j \in U PROVE j + 1 \in U
  <2>1. j + 1 \in 0 .. WordBits /\ WordBits # 0 /\ (j + 1) - 1 = j
    BY <1>1
  <2>2. ASSUME NEW B \in SUBSET (0 .. j)
        PROVE  \E x \in 0 .. TwoTo[j + 1] - 1 : Has(j + 1, B, x)
    <3> DEFINE C == {k \in 0 .. j - 1 : k + 1 \in B}
               b == IF 0 \in B THEN 1 ELSE 0
    <3>1. PICK y \in 0 .. TwoTo[j] - 1 : Has(j, C, y)
      <4>1. C \in SUBSET (0 .. j - 1)
        OBVIOUS
      <4>2. QED
        BY <1>3, <4>1
    <3>2. /\ TwoTo[j] \in Nat /\ TwoTo[j + 1] = 2 * TwoTo[j]
          /\ y \in Nat /\ b \in {0, 1}
      BY <1>1, <3>1, TwoToIs
    <3> DEFINE x == 2 * y + b
    <3>3. x \in 0 .. TwoTo[j + 1] - 1
      BY <3>1, <3>2
    <3>4. ASSUME NEW k \in 0 .. j PROVE BitAt(x, k) = 1 <=> k \in B
      <4>1. CASE k = 0
        <5>1. BitAt(x, 0) = b
          BY <2>1, <3>2, BitAtHalf
        <5>2. QED
          BY <4>1, <5>1
      <4>2. CASE k # 0
        <5>1. /\ k - 1 \in 0 .. j - 1 /\ (k - 1) + 1 = k
              /\ k - 1 \in 0 .. WordBits - 1 /\ k \in 0 .. WordBits - 1
          BY <1>1, <4>2
        <5>2. BitAt(x, k) = BitAt(y, k - 1)
          <6> HIDE DEF b
          <6>1. BitAt(2 * y + b, (k - 1) + 1) = BitAt(y, k - 1)
            BY <2>1, <3>2, <5>1, BitAtHalf
          <6>2. QED
            BY <5>1, <6>1
        <5>3. BitAt(y, k - 1) = 1 <=> k - 1 \in C
          BY <3>1, <5>1
        <5>4. QED
          BY <5>1, <5>2, <5>3
      <4>3. QED
        BY <4>1, <4>2
    <3>5. Has(j + 1, B, x)
      <4> HIDE DEF x
      <4>1. QED
        BY <2>1, <3>4
    <3>6. QED
      BY <3>3, <3>5
  <2>3. QED
    BY <2>1, <2>2
<1>4. WordBits \in U
  <2>1. 0 .. WordBits \subseteq U
    <3> HIDE DEF U
    <3>1. QED
      BY <1>1, <1>2, <1>3, AllUpTo
  <2>2. QED
    BY <1>1, <2>1
<1>5. QED
  BY <1>4 DEF Words, WordRange

\* A number without bits is 0.
LEMMA NoBits ==
  \A x \in Words : (\A k \in 0 .. WordBits - 1 : BitAt(x, k) # 1) => x = 0
<1> DEFINE None(j, x) == \A k \in 0 .. j - 1 : BitAt(x, k) # 1
           U == {j \in 0 .. WordBits :
                   \A x \in 0 .. TwoTo[j] - 1 : None(j, x) => x = 0}
<1>1. WordBits \in Nat
  BY ComparatorsAssumption
<1>2. 0 \in U
  BY <1>1, TwoToIs
<1>3. ASSUME NEW j \in 0 .. WordBits - 1, j \in U PROVE j + 1 \in U
  <2>1. j + 1 \in 0 .. WordBits /\ WordBits # 0 /\ (j + 1) - 1 = j
    BY <1>1
  <2>2. ASSUME NEW x \in 0 .. TwoTo[j + 1] - 1, \A k \in 0 .. j : BitAt(x, k) # 1
        PROVE  x = 0
    <3> DEFINE y == x \div 2
               b == x % 2
    <3>1. /\ TwoTo[j] \in Nat /\ TwoTo[j + 1] = 2 * TwoTo[j]
      BY <1>1, TwoToIs
    <3>2. /\ x \in Nat /\ y \in 0 .. TwoTo[j] - 1 /\ y \in Nat
          /\ b \in {0, 1} /\ x = 2 * y + b
      BY <3>1
    <3> HIDE DEF y, b
    <3>3. BitAt(x, 0) = b
      BY <2>1, <3>2, BitAtHalf
    <3>4. b = 0
      BY <1>1, <2>2, <3>2, <3>3
    <3>5. ASSUME NEW k \in 0 .. j - 1 PROVE BitAt(y, k) # 1
      <4>1. k + 1 \in 0 .. j /\ k \in 0 .. WordBits - 1 /\ k + 1 \in 0 .. WordBits - 1
        BY <1>1
      <4>2. BitAt(x, k + 1) = BitAt(y, k)
        BY <2>1, <3>2, <4>1, BitAtHalf
      <4>3. QED
        BY <2>2, <4>1, <4>2
    <3>6. y = 0
      BY <1>3, <3>2, <3>5
    <3>7. QED
      BY <3>2, <3>4, <3>6
  <2>3. QED
    BY <2>1, <2>2
<1>4. WordBits \in U
  <2>1. 0 .. WordBits \subseteq U
    <3> HIDE DEF U
    <3>1. QED
      BY <1>1, <1>2, <1>3, AllUpTo
  <2>2. QED
    BY <1>1, <2>1
<1>5. QED
  BY <1>4 DEF Words, WordRange

\* The word with some bits has them.
LEMMA NumberIs ==
  ASSUME NEW B \in SUBSET (0 .. WordBits - 1)
  PROVE  /\ Number[B] \in Words
         /\ Bits[Number[B]] = B
         /\ B = {} => Number[B] = 0
<1>1. \A x \in Words : Bits[x] = {k \in 0 .. WordBits - 1 : BitAt(x, k) = 1}
  BY DEF Bits, BitAt
<1>2. \E x \in Words : Bits[x] = B
  <2>1. PICK x \in Words : \A k \in 0 .. WordBits - 1 : BitAt(x, k) = 1 <=> k \in B
    BY SomeNumber
  <2>2. {k \in 0 .. WordBits - 1 : BitAt(x, k) = 1} = B
    BY <2>1
  <2>3. QED
    BY <1>1, <2>2
<1>3. Number[B] \in Words /\ Bits[Number[B]] = B
  BY <1>2 DEF Number
<1>4. B = {} => Number[B] = 0
  BY <1>1, <1>3, NoBits
<1>5. QED
  BY <1>3, <1>4

-----------------------------------------------------------------------------
(* Folds.                                                                  *)

\* What a fold is for each subset of what it goes over, ch choosing the element
\* that comes last.
Folds(g, D, A, base, op, ch) ==
  /\ g \in [SUBSET D -> A]
  /\ \A s \in SUBSET D :
       g[s] = IF s = {} THEN base ELSE op[ch[s]][g[s \ {ch[s]}]]

\* A function can be defined on the subsets of a finite set by what it is for
\* such a subset without one of its elements.
LEMMA SetRecursion ==
  ASSUME NEW D, IsFiniteSet(D), NEW A, NEW base \in A, NEW op, NEW ch,
         \A s \in SUBSET D : s # {} => ch[s] \in s,
         \A a \in A, x \in D : op[x][a] \in A
  PROVE  \E g : Folds(g, D, A, base, op, ch)
<1> DEFINE Sub(n)  == {s \in SUBSET D : Cardinality(s) <= n}
           Step(g, s) == IF s = {} THEN base ELSE op[ch[s]][g[s \ {ch[s]}]]
           Good(n) == {g \in [Sub(n) -> A] : \A s \in Sub(n) : g[s] = Step(g, s)}
           U == {n \in Nat : Good(n) # {}}
<1>1. \A s \in SUBSET D : IsFiniteSet(s) /\ Cardinality(s) \in Nat
  BY FS_Subset, FS_CardinalityType
<1>2. \A s \in SUBSET D : s # {} =>
        /\ s \ {ch[s]} \in SUBSET D
        /\ Cardinality(s \ {ch[s]}) = Cardinality(s) - 1
  BY <1>1, FS_RemoveElement
<1>3. \A s \in SUBSET D : Cardinality(s) = 0 <=> s = {}
  BY <1>1, FS_EmptySet
<1>4. 0 \in U
  <2>1. [s \in Sub(0) |-> base] \in [Sub(0) -> A]
    OBVIOUS
  <2>2. \A s \in Sub(0) : s = {}
    BY <1>1, <1>3
  <2>3. [s \in Sub(0) |-> base] \in Good(0)
    BY <2>1, <2>2
  <2>4. QED
    BY <2>3
<1>5. ASSUME NEW n \in U PROVE n + 1 \in U
  <2>1. PICK g : g \in Good(n)
    BY <1>5
  <2>2. n \in Nat /\ g \in [Sub(n) -> A] /\ \A s \in Sub(n) : g[s] = Step(g, s)
    BY <2>1
  <2> DEFINE h == [s \in Sub(n + 1) |-> IF s \in Sub(n) THEN g[s] ELSE Step(g, s)]
  <2>3. \A s \in Sub(n + 1) : s # {} =>
          /\ s \ {ch[s]} \in Sub(n) /\ s \ {ch[s]} \in Sub(n + 1)
          /\ ch[s] \in D
    BY <1>1, <1>2, <2>2
  <2>4. \A s \in Sub(n) : s \in Sub(n + 1)
    BY <1>1, <2>2
  <2>5. \A s \in Sub(n + 1) : Step(g, s) \in A
    <3>1. TAKE s \in Sub(n + 1)
    <3>2. CASE s = {}
      BY <3>2
    <3>3. CASE s # {}
      <4>1. g[s \ {ch[s]}] \in A
        BY <2>2, <2>3, <3>3
      <4>2. QED
        BY <2>3, <3>3, <4>1
    <3>4. QED
      BY <3>2, <3>3
  <2>6. h \in [Sub(n + 1) -> A]
    <3> HIDE DEF Sub, Step
    <3>1. QED
      BY <2>2, <2>5
  <2>7. ASSUME NEW s \in Sub(n + 1) PROVE h[s] = Step(h, s)
    <3>1. h[s] = Step(g, s)
      <4> HIDE DEF Sub, Step
      <4>1. QED
        BY <2>2
    <3>2. s # {} => h[s \ {ch[s]}] = g[s \ {ch[s]}]
      <4> HIDE DEF Sub, Step
      <4>1. QED
        BY <2>3
    <3>3. Step(h, s) = Step(g, s)
      <4> HIDE DEF h, Sub
      <4>1. QED
        BY <3>2
    <3>4. QED
      BY <3>1, <3>3
  <2>8. h \in Good(n + 1)
    <3> HIDE DEF h, Sub, Step
    <3>1. QED
      BY <2>6, <2>7
  <2>9. n + 1 \in Nat /\ Good(n + 1) # {}
    <3> HIDE DEF h, Good
    <3>1. QED
      BY <2>2, <2>8
  <2>10. QED
    BY <2>9
<1>6. U = Nat
  <2> HIDE DEF U
  <2>1. U \in SUBSET Nat
    BY DEF U
  <2>2. QED
    BY <1>4, <1>5, <2>1, AllNaturals
<1>7. PICK g : g \in Good(Cardinality(D))
  BY <1>1, <1>6
<1>8. Sub(Cardinality(D)) = SUBSET D
  BY FS_Subset
<1>9. QED
  <2>1. g \in [SUBSET D -> A] /\ \A s \in SUBSET D : g[s] = Step(g, s)
    <3> HIDE DEF Sub, Step
    <3>1. QED
      BY <1>7, <1>8
  <2>2. QED
    BY <2>1 DEF Folds

\* A fold goes from the first element to the last.
LEMMA UpTo ==
  ASSUME NEW n \in Nat
  PROVE  /\ IsFiniteSet(1 .. n)
         /\ \A s \in SUBSET (1 .. n) : s # {} => Max(s) \in s
         /\ \A k \in 1 .. n : /\ 1 .. k # {} /\ 1 .. k \in SUBSET (1 .. n)
                              /\ Max(1 .. k) = k
                              /\ (1 .. k) \ {k} = 1 .. k - 1
<1>1. IsFiniteSet(1 .. n)
  BY FS_Interval
<1>2. ASSUME NEW s \in SUBSET (1 .. n), s # {} PROVE Max(s) \in s
  <2> DEFINE T == {n - k : k \in s}
  <2> \A k \in s : k \in Int /\ n - k \in Nat
    OBVIOUS
  <2>1. T \in SUBSET Nat /\ T # {}
    BY <1>2
  <2>2. PICK m \in T : \A j \in T : m <= j
    <3> HIDE DEF T
    <3>1. QED
      BY <2>1, LeastElement
  <2>3. PICK x \in s : m = n - x
    BY <2>2
  <2>4. \A y \in s : x >= y
    <3>1. TAKE y \in s
    <3>2. n - y \in T
      OBVIOUS
    <3>3. n - x <= n - y /\ x \in Int /\ y \in Int
      <4>1. n - x <= n - y
        BY <2>2, <2>3, <3>2, Zenon
      <4>2. QED
        BY <4>1
    <3>4. QED
      BY <3>3
  <2>5. \E z \in s : \A y \in s : z >= y
    BY <2>4
  <2>6. QED
    BY <2>5, Zenon DEF Max
<1>3. ASSUME NEW k \in 1 .. n
      PROVE  /\ 1 .. k # {} /\ 1 .. k \in SUBSET (1 .. n)
             /\ Max(1 .. k) = k
             /\ (1 .. k) \ {k} = 1 .. k - 1
  <2>1. k \in 1 .. k /\ \A y \in 1 .. k : k >= y
    OBVIOUS
  <2>2. \A x \in 1 .. k : (\A y \in 1 .. k : x >= y) => x = k
    BY <2>1
  <2>3. Max(1 .. k) = k
    BY <2>1, <2>2 DEF Max
  <2>4. QED
    BY <2>1, <2>3
<1>4. QED
  BY <1>1, <1>2, <1>3

\* The same of a fold over the numbers from 1 to n, of which the greatest is last.
IsFold(g, n, A, base, op) ==
  /\ g \in [SUBSET (1 .. n) -> A]
  /\ \A s \in SUBSET (1 .. n) :
       g[s] = IF s = {} THEN base ELSE op[Max(s)][g[s \ {Max(s)}]]

\* Some function does what a fold over n elements asks for.
LEMMA StepsExist ==
  ASSUME NEW n \in Nat, NEW A, NEW base \in A, NEW op,
         \A a \in A, k \in 1 .. n : op[k][a] \in A
  PROVE  \E g : IsFold(g, n, A, base, op)
<1> DEFINE ch == [s \in SUBSET (1 .. n) |-> Max(s)]
<1>1. \A s \in SUBSET (1 .. n) : s # {} => ch[s] \in s
  BY UpTo
<1>2. IsFiniteSet(1 .. n)
  BY UpTo
<1>3. PICK g : Folds(g, 1 .. n, A, base, op, ch)
  <2> HIDE DEF ch
  <2>1. QED
    BY <1>1, <1>2, SetRecursion
<1>4. \A s \in SUBSET (1 .. n) : ch[s] = Max(s)
  OBVIOUS
<1>5. IsFold(g, n, A, base, op)
  <2> HIDE DEF ch
  <2>1. QED
    BY <1>3, <1>4 DEF Folds, IsFold
<1>6. QED
  BY <1>5

\* The values of a fold after the first elements.
Accumulates(acc, n, A, base, op) ==
  /\ acc[0] = base
  /\ \A k \in 1 .. n : acc[k - 1] \in A /\ acc[k] = op[k][acc[k - 1]]
  /\ acc[n] \in A

\* No step leads out of A.
Typed(n, A, op) == \A a \in A, k \in 1 .. n : op[k][a] \in A

\* iter takes the steps of a set in the order of their numbers.
FollowsSteps(iter, n, A, base, op) ==
  /\ iter[{}] = base
  /\ \A s \in SUBSET (1 .. n) :
       s # {} /\ iter[s \ {Max(s)}] \in A
         => iter[s] = op[Max(s)][iter[s \ {Max(s)}]]

\* Such an iteration goes through the values of the fold, one after the other.
LEMMA FoldSteps ==
  ASSUME NEW n \in Nat, NEW A, NEW base \in A, NEW op, Typed(n, A, op),
         NEW iter, FollowsSteps(iter, n, A, base, op)
  PROVE  \E acc : Accumulates(acc, n, A, base, op) /\ acc[n] = iter[1 .. n]
<1> DEFINE acc == [k \in 0 .. n |-> iter[1 .. k]]
           U == {k \in 0 .. n : acc[k] \in A}
<1>1. acc[0] = base
  BY DEF FollowsSteps
<1>2. ASSUME NEW k \in 1 .. n, acc[k - 1] \in A
      PROVE  acc[k] = op[k][acc[k - 1]] /\ acc[k] \in A
  <2> DEFINE s == 1 .. k
  <2>1. s \in SUBSET (1 .. n) /\ s # {} /\ Max(s) = k /\ s \ {k} = 1 .. k - 1
    BY UpTo
  <2>2. acc[k] = iter[s] /\ acc[k - 1] = iter[1 .. k - 1]
    OBVIOUS
  <2> HIDE DEF acc, s
  <2>3. iter[s] = op[k][iter[s \ {k}]]
    BY <1>2, <2>1, <2>2 DEF FollowsSteps
  <2>4. QED
    BY <1>2, <2>1, <2>2, <2>3 DEF Typed
<1>3. 0 \in U
  <2> HIDE DEF acc
  <2>1. QED
    BY <1>1
<1>4. ASSUME NEW k \in 0 .. n - 1, k \in U PROVE k + 1 \in U
  <2>1. k + 1 \in 1 .. n /\ (k + 1) - 1 = k
    OBVIOUS
  <2> HIDE DEF acc
  <2>2. QED
    BY <1>2, <1>4, <2>1
<1>5. 0 .. n \subseteq U
  <2> HIDE DEF U
  <2>1. QED
    BY <1>3, <1>4, AllUpTo
<1>6. Accumulates(acc, n, A, base, op)
  <2>1. \A k \in 1 .. n : k - 1 \in 0 .. n
    OBVIOUS
  <2> HIDE DEF acc
  <2>2. QED
    BY <1>1, <1>2, <1>5, <2>1 DEF Accumulates
<1>7. acc[n] = iter[1 .. n]
  OBVIOUS
<1>8. QED
  <2> HIDE DEF acc
  <2>1. QED
    BY <1>6, <1>7

\* The sums of the first values.
LEMMA SumSteps ==
  ASSUME NEW values \in Seq(Words)
  PROVE  \E acc : /\ acc[0] = 0
                  /\ \A k \in 1 .. Len(values) :
                       /\ acc[k - 1] \in Words
                       /\ acc[k] = Plus(acc[k - 1], values[k])
                  /\ acc[Len(values)] \in Words
                  /\ Sum(values) = acc[Len(values)]
<1> DEFINE n == Len(values)
           op == [k \in 1 .. n |-> [a \in Words |-> Plus(a, values[k])]]
           Is(g) == g = [s \in SUBSET DOMAIN values |->
                           IF s = {} THEN 0
                           ELSE Plus(g[s \ {Max(s)}], values[Max(s)])]
<1>1. n \in Nat /\ DOMAIN values = 1 .. n /\ \A k \in 1 .. n : values[k] \in Words
  BY LenProperties, ElementOfSeq
<1>2. 0 \in Words
  BY Ranges DEF Words
<1>3. ASSUME NEW a \in Words, NEW k \in 1 .. n
      PROVE  op[k][a] = Plus(a, values[k]) /\ op[k][a] \in Words
  <2>1. op[k][a] = Plus(a, values[k])
    OBVIOUS
  <2>2. values[k] \in Words
    BY <1>1
  <2>3. Plus(a, values[k]) \in Words
    BY <2>2, Ranges DEF Words, Plus
  <2> HIDE DEF op
  <2>4. QED
    BY <2>1, <2>3, Zenon
<1>4. \E g : Is(g)
  <2>1. PICK g : IsFold(g, n, Words, 0, op)
    <3> HIDE DEF op, n
    <3>1. QED
      BY <1>1, <1>2, <1>3, StepsExist
  <2>2. \A s \in SUBSET (1 .. n) :
          g[s] = IF s = {} THEN 0 ELSE Plus(g[s \ {Max(s)}], values[Max(s)])
    <3>1. TAKE s \in SUBSET (1 .. n)
    <3>2. s # {} => Max(s) \in 1 .. n /\ g[s \ {Max(s)}] \in Words
      BY <1>1, <2>1, UpTo DEF IsFold
    <3>3. QED
      BY <1>1, <2>1, <3>2 DEF IsFold
  <2>3. g = [s \in SUBSET (1 .. n) |-> g[s]]
    BY <2>1 DEF IsFold
  <2>4. Is(g)
    BY <1>1, <2>2, <2>3
  <2>5. QED
    BY <2>4
<1> DEFINE iter == CHOOSE g : Is(g)
<1>5. Is(iter)
  BY <1>4
<1>6. Sum(values) = iter[DOMAIN values]
  BY DEF Sum, FoldLeft, MapThenFoldSet
<1> HIDE DEF iter
<1> DEFINE A == Words
           base == 0
<1>7. PICK acc : Accumulates(acc, n, A, base, op) /\ acc[n] = iter[1 .. n]
  <2>1. iter[{}] = 0
    BY <1>5
  <2>2. ASSUME NEW s \in SUBSET (1 .. n), s # {}, iter[s \ {Max(s)}] \in Words
        PROVE  iter[s] = op[Max(s)][iter[s \ {Max(s)}]]
    <3>1. Max(s) \in 1 .. n
      BY <1>1, <2>2, UpTo
    <3>2. iter[s] = Plus(iter[s \ {Max(s)}], values[Max(s)])
      BY <1>1, <1>5, <2>2
    <3> HIDE DEF op, Is, n
    <3>3. QED
      BY <1>3, <2>2, <3>1, <3>2
  <2>3. FollowsSteps(iter, n, A, base, op) /\ Typed(n, A, op)
    <3> HIDE DEF op, Is, n
    <3>1. QED
      BY <1>3, <2>1, <2>2, Zenon DEF FollowsSteps, Typed
  <2>4. base \in A /\ n \in Nat
    BY <1>1, <1>2
  <2> HIDE DEF op, Is, n, A, base
  <2>5. QED
    BY <2>3, <2>4, FoldSteps
<1>8. \A k \in 1 .. n : acc[k - 1] \in Words /\ acc[k] = Plus(acc[k - 1], values[k])
  <2> HIDE DEF op, Is, n
  <2>1. QED
    BY <1>3, <1>7 DEF Accumulates
<1>9. QED
  <2>1. acc[0] = 0 /\ acc[n] \in Words
    BY <1>7, Zenon DEF Accumulates
  <2>2. Sum(values) = acc[n]
    BY <1>1, <1>6, <1>7
  <2>3. QED
    BY <1>8, <2>1, <2>2, Zenon

\* Their products with the 0 of calloc.
LEMMA ProductSteps ==
  ASSUME NEW values \in Seq(Words)
  PROVE  \E acc : /\ acc[0] = 0
                  /\ \A k \in 1 .. Len(values) :
                       /\ acc[k - 1] \in Words
                       /\ acc[k] = Times(acc[k - 1], values[k])
                  /\ acc[Len(values)] \in Words
                  /\ Product(values) = acc[Len(values)]
<1> DEFINE n == Len(values)
           op == [k \in 1 .. n |-> [a \in Words |-> Times(a, values[k])]]
           Is(g) == g = [s \in SUBSET DOMAIN values |->
                           IF s = {} THEN 0
                           ELSE Times(g[s \ {Max(s)}], values[Max(s)])]
<1>1. n \in Nat /\ DOMAIN values = 1 .. n /\ \A k \in 1 .. n : values[k] \in Words
  BY LenProperties, ElementOfSeq
<1>2. 0 \in Words
  BY Ranges DEF Words
<1>3. ASSUME NEW a \in Words, NEW k \in 1 .. n
      PROVE  op[k][a] = Times(a, values[k]) /\ op[k][a] \in Words
  <2>1. op[k][a] = Times(a, values[k])
    OBVIOUS
  <2>2. values[k] \in Words
    BY <1>1
  <2>3. Times(a, values[k]) \in Words
    <3>1. a * values[k] \in Int /\ WordRange \in Nat \ {0}
      BY <2>2, Ranges DEF Words
    <3>2. QED
      BY <3>1, QuotientRemainder DEF Words, Times
  <2> HIDE DEF op
  <2>4. QED
    BY <2>1, <2>3, Zenon
<1>4. \E g : Is(g)
  <2>1. PICK g : IsFold(g, n, Words, 0, op)
    <3> HIDE DEF op, n
    <3>1. QED
      BY <1>1, <1>2, <1>3, StepsExist
  <2>2. \A s \in SUBSET (1 .. n) :
          g[s] = IF s = {} THEN 0 ELSE Times(g[s \ {Max(s)}], values[Max(s)])
    <3>1. TAKE s \in SUBSET (1 .. n)
    <3>2. s # {} => Max(s) \in 1 .. n /\ g[s \ {Max(s)}] \in Words
      BY <1>1, <2>1, UpTo DEF IsFold
    <3>3. QED
      BY <1>1, <2>1, <3>2 DEF IsFold
  <2>3. g = [s \in SUBSET (1 .. n) |-> g[s]]
    BY <2>1 DEF IsFold
  <2>4. Is(g)
    BY <1>1, <2>2, <2>3
  <2>5. QED
    BY <2>4
<1> DEFINE iter == CHOOSE g : Is(g)
<1>5. Is(iter)
  BY <1>4
<1>6. Product(values) = iter[DOMAIN values]
  BY DEF Product, FoldLeft, MapThenFoldSet
<1> HIDE DEF iter
<1> DEFINE A == Words
           base == 0
<1>7. PICK acc : Accumulates(acc, n, A, base, op) /\ acc[n] = iter[1 .. n]
  <2>1. iter[{}] = 0
    BY <1>5
  <2>2. ASSUME NEW s \in SUBSET (1 .. n), s # {}, iter[s \ {Max(s)}] \in Words
        PROVE  iter[s] = op[Max(s)][iter[s \ {Max(s)}]]
    <3>1. Max(s) \in 1 .. n
      BY <1>1, <2>2, UpTo
    <3>2. iter[s] = Times(iter[s \ {Max(s)}], values[Max(s)])
      BY <1>1, <1>5, <2>2
    <3> HIDE DEF op, Is, n
    <3>3. QED
      BY <1>3, <2>2, <3>1, <3>2
  <2>3. FollowsSteps(iter, n, A, base, op) /\ Typed(n, A, op)
    <3> HIDE DEF op, Is, n
    <3>1. QED
      BY <1>3, <2>1, <2>2, Zenon DEF FollowsSteps, Typed
  <2>4. base \in A /\ n \in Nat
    BY <1>1, <1>2
  <2> HIDE DEF op, Is, n, A, base
  <2>5. QED
    BY <2>3, <2>4, FoldSteps
<1>8. \A k \in 1 .. n : acc[k - 1] \in Words /\ acc[k] = Times(acc[k - 1], values[k])
  <2> HIDE DEF op, Is, n
  <2>1. QED
    BY <1>3, <1>7 DEF Accumulates
<1>9. QED
  <2>1. acc[0] = 0 /\ acc[n] \in Words
    BY <1>7, Zenon DEF Accumulates
  <2>2. Product(values) = acc[n]
    BY <1>1, <1>6, <1>7
  <2>3. QED
    BY <1>8, <2>1, <2>2, Zenon

\* The three bitwise operations on sets of bits.
Joined(op, bs, cs) == CASE op = "and" -> bs \cap cs
                        [] op = "or"  -> bs \cup cs
                        [] op = "xor" -> (bs \ cs) \cup (cs \ bs)

\* The bits of the first values taken together.
LEMMA BitwiseSteps ==
  ASSUME NEW values \in Seq(Words), NEW op1 \in {"and", "or", "xor"}
  PROVE  \E acc : /\ acc[0] = {}
                  /\ \A k \in 1 .. Len(values) :
                       /\ acc[k - 1] \in SUBSET (0 .. WordBits - 1)
                       /\ acc[k] = Joined(op1, acc[k - 1], Bits[values[k]])
                  /\ acc[Len(values)] \in SUBSET (0 .. WordBits - 1)
                  /\ Bitwise(op1, values) = Number[acc[Len(values)]]
<1> DEFINE n == Len(values)
           op == [k \in 1 .. n |-> [a \in SUBSET (0 .. WordBits - 1) |-> Joined(op1, a, Bits[values[k]])]]
           Is(g) == g = [s \in SUBSET DOMAIN values |->
                           IF s = {} THEN {}
                           ELSE Joined(op1, g[s \ {Max(s)}], Bits[values[Max(s)]])]
<1>1. n \in Nat /\ DOMAIN values = 1 .. n /\ \A k \in 1 .. n : values[k] \in Words
  BY LenProperties, ElementOfSeq
<1>2. {} \in SUBSET (0 .. WordBits - 1)
  OBVIOUS
<1>3. ASSUME NEW a \in SUBSET (0 .. WordBits - 1), NEW k \in 1 .. n
      PROVE  op[k][a] = Joined(op1, a, Bits[values[k]]) /\ op[k][a] \in SUBSET (0 .. WordBits - 1)
  <2>1. op[k][a] = Joined(op1, a, Bits[values[k]])
    OBVIOUS
  <2>2. values[k] \in Words
    BY <1>1
  <2>3. Joined(op1, a, Bits[values[k]]) \in SUBSET (0 .. WordBits - 1)
    <3>1. Bits[values[k]] \in SUBSET (0 .. WordBits - 1)
      BY <2>2 DEF Bits
    <3>2. QED
      BY <3>1 DEF Joined
  <2> HIDE DEF op
  <2>4. QED
    BY <2>1, <2>3, Zenon
<1>4. \E g : Is(g)
  <2>1. PICK g : IsFold(g, n, SUBSET (0 .. WordBits - 1), {}, op)
    <3> HIDE DEF op, n
    <3>1. QED
      BY <1>1, <1>2, <1>3, StepsExist
  <2>2. \A s \in SUBSET (1 .. n) :
          g[s] = IF s = {} THEN {} ELSE Joined(op1, g[s \ {Max(s)}], Bits[values[Max(s)]])
    <3>1. TAKE s \in SUBSET (1 .. n)
    <3>2. s # {} => Max(s) \in 1 .. n /\ g[s \ {Max(s)}] \in SUBSET (0 .. WordBits - 1)
      BY <1>1, <2>1, UpTo DEF IsFold
    <3>3. QED
      BY <1>1, <2>1, <3>2 DEF IsFold
  <2>3. g = [s \in SUBSET (1 .. n) |-> g[s]]
    BY <2>1 DEF IsFold
  <2>4. Is(g)
    BY <1>1, <2>2, <2>3
  <2>5. QED
    BY <2>4
<1> DEFINE iter == CHOOSE g : Is(g)
<1>5. Is(iter)
  BY <1>4
<1>6. Bitwise(op1, values) = Number[iter[DOMAIN values]]
  BY DEF Bitwise, Joined, FoldLeft, MapThenFoldSet
<1> HIDE DEF iter
<1> DEFINE A == SUBSET (0 .. WordBits - 1)
           base == {}
<1>7. PICK acc : Accumulates(acc, n, A, base, op) /\ acc[n] = iter[1 .. n]
  <2>1. iter[{}] = {}
    BY <1>5
  <2>2. ASSUME NEW s \in SUBSET (1 .. n), s # {}, iter[s \ {Max(s)}] \in SUBSET (0 .. WordBits - 1)
        PROVE  iter[s] = op[Max(s)][iter[s \ {Max(s)}]]
    <3>1. Max(s) \in 1 .. n
      BY <1>1, <2>2, UpTo
    <3>2. iter[s] = Joined(op1, iter[s \ {Max(s)}], Bits[values[Max(s)]])
      BY <1>1, <1>5, <2>2
    <3> HIDE DEF op, Is, n
    <3>3. QED
      BY <1>3, <2>2, <3>1, <3>2
  <2>3. FollowsSteps(iter, n, A, base, op) /\ Typed(n, A, op)
    <3> HIDE DEF op, Is, n
    <3>1. QED
      BY <1>3, <2>1, <2>2, Zenon DEF FollowsSteps, Typed
  <2>4. base \in A /\ n \in Nat
    BY <1>1, <1>2
  <2> HIDE DEF op, Is, n, A, base
  <2>5. QED
    BY <2>3, <2>4, FoldSteps
<1>8. \A k \in 1 .. n : acc[k - 1] \in SUBSET (0 .. WordBits - 1) /\ acc[k] = Joined(op1, acc[k - 1], Bits[values[k]])
  <2> HIDE DEF op, Is, n
  <2>1. QED
    BY <1>3, <1>7 DEF Accumulates
<1>9. QED
  <2>1. acc[0] = {} /\ acc[n] \in SUBSET (0 .. WordBits - 1)
    BY <1>7, Zenon DEF Accumulates
  <2>2. Bitwise(op1, values) = Number[acc[n]]
    BY <1>1, <1>6, <1>7
  <2>3. QED
    BY <1>8, <2>1, <2>2, Zenon

\* A step of the loop of "stddev", in the uint32_t it sums up in.
PlusSquare(sum, x, mean) == (sum + (x - mean) * (x - mean)) % HalfRange

\* The sums of the squares of the first deviations.
LEMMA DeviationSteps ==
  ASSUME NEW values \in Seq(Words), Mean(values) \in Int
  PROVE  \E acc : /\ acc[0] = 0
                  /\ \A k \in 1 .. Len(values) :
                       /\ acc[k - 1] \in 0 .. HalfRange - 1
                       /\ acc[k] = PlusSquare(acc[k - 1], values[k], Mean(values))
                  /\ acc[Len(values)] \in 0 .. HalfRange - 1
                  /\ Deviation(values) = SquareRoot(acc[Len(values)] \div Len(values))
<1> DEFINE n == Len(values)
           op == [k \in 1 .. n |-> [a \in 0 .. HalfRange - 1 |-> PlusSquare(a, values[k], Mean(values))]]
           Is(g) == g = [s \in SUBSET DOMAIN values |->
                           IF s = {} THEN 0
                           ELSE PlusSquare(g[s \ {Max(s)}], values[Max(s)], Mean(values))]
<1>1. n \in Nat /\ DOMAIN values = 1 .. n /\ \A k \in 1 .. n : values[k] \in Words
  BY LenProperties, ElementOfSeq
<1>2. 0 \in 0 .. HalfRange - 1
  BY Ranges
<1>3. ASSUME NEW a \in 0 .. HalfRange - 1, NEW k \in 1 .. n
      PROVE  op[k][a] = PlusSquare(a, values[k], Mean(values)) /\ op[k][a] \in 0 .. HalfRange - 1
  <2>1. op[k][a] = PlusSquare(a, values[k], Mean(values))
    OBVIOUS
  <2>2. values[k] \in Words
    BY <1>1
  <2>3. PlusSquare(a, values[k], Mean(values)) \in 0 .. HalfRange - 1
    <3>1. /\ a + (values[k] - Mean(values)) * (values[k] - Mean(values)) \in Int
          /\ HalfRange \in Nat \ {0}
      BY <2>2, Ranges DEF Words
    <3>2. QED
      BY <3>1, QuotientRemainder, Zenon DEF PlusSquare
  <2> HIDE DEF op
  <2>4. QED
    BY <2>1, <2>3, Zenon
<1>4. \E g : Is(g)
  <2>1. PICK g : IsFold(g, n, 0 .. HalfRange - 1, 0, op)
    <3> HIDE DEF op, n
    <3>1. QED
      BY <1>1, <1>2, <1>3, StepsExist
  <2>2. \A s \in SUBSET (1 .. n) :
          g[s] = IF s = {} THEN 0 ELSE PlusSquare(g[s \ {Max(s)}], values[Max(s)], Mean(values))
    <3>1. TAKE s \in SUBSET (1 .. n)
    <3>2. s # {} => Max(s) \in 1 .. n /\ g[s \ {Max(s)}] \in 0 .. HalfRange - 1
      BY <1>1, <2>1, UpTo DEF IsFold
    <3>3. QED
      BY <1>1, <2>1, <3>2 DEF IsFold
  <2>3. g = [s \in SUBSET (1 .. n) |-> g[s]]
    BY <2>1 DEF IsFold
  <2>4. Is(g)
    BY <1>1, <2>2, <2>3
  <2>5. QED
    BY <2>4
<1> DEFINE iter == CHOOSE g : Is(g)
<1>5. Is(iter)
  BY <1>4
<1>6. Deviation(values) = SquareRoot(iter[DOMAIN values] \div Len(values))
  BY DEF Deviation, PlusSquare, FoldLeft, MapThenFoldSet
<1> HIDE DEF iter
<1> DEFINE A == 0 .. HalfRange - 1
           base == 0
<1>7. PICK acc : Accumulates(acc, n, A, base, op) /\ acc[n] = iter[1 .. n]
  <2>1. iter[{}] = 0
    BY <1>5
  <2>2. ASSUME NEW s \in SUBSET (1 .. n), s # {}, iter[s \ {Max(s)}] \in 0 .. HalfRange - 1
        PROVE  iter[s] = op[Max(s)][iter[s \ {Max(s)}]]
    <3>1. Max(s) \in 1 .. n
      BY <1>1, <2>2, UpTo
    <3>2. iter[s] = PlusSquare(iter[s \ {Max(s)}], values[Max(s)], Mean(values))
      BY <1>1, <1>5, <2>2
    <3> HIDE DEF op, Is, n
    <3>3. QED
      BY <1>3, <2>2, <3>1, <3>2
  <2>3. FollowsSteps(iter, n, A, base, op) /\ Typed(n, A, op)
    <3> HIDE DEF op, Is, n
    <3>1. QED
      BY <1>3, <2>1, <2>2, Zenon DEF FollowsSteps, Typed
  <2>4. base \in A /\ n \in Nat
    BY <1>1, <1>2
  <2> HIDE DEF op, Is, n, A, base
  <2>5. QED
    BY <2>3, <2>4, FoldSteps
<1>8. \A k \in 1 .. n : acc[k - 1] \in 0 .. HalfRange - 1 /\ acc[k] = PlusSquare(acc[k - 1], values[k], Mean(values))
  <2> HIDE DEF op, Is, n
  <2>1. QED
    BY <1>3, <1>7 DEF Accumulates
<1>9. QED
  <2>1. acc[0] = 0 /\ acc[n] \in 0 .. HalfRange - 1
    BY <1>7, Zenon DEF Accumulates
  <2>2. Deviation(values) = SquareRoot(acc[n] \div Len(values))
    BY <1>1, <1>6, <1>7
  <2>3. QED
    BY <1>8, <2>1, <2>2, Zenon

\* A step of the loop that drops the repeats of the value before.
Kept(kept, x) == IF kept # <<>> /\ Last(kept) = x THEN kept ELSE Append(kept, x)

\* What is kept of the first values.
LEMMA DropSteps ==
  ASSUME NEW values \in Seq(Words)
  PROVE  \E acc : /\ acc[0] = <<>>
                  /\ \A k \in 1 .. Len(values) :
                       /\ acc[k - 1] \in Seq(Words)
                       /\ acc[k] = Kept(acc[k - 1], values[k])
                  /\ acc[Len(values)] \in Seq(Words)
                  /\ DropRepeats(values) = acc[Len(values)]
<1> DEFINE n == Len(values)
           op == [k \in 1 .. n |-> [a \in Seq(Words) |-> Kept(a, values[k])]]
           Is(g) == g = [s \in SUBSET DOMAIN values |->
                           IF s = {} THEN <<>>
                           ELSE Kept(g[s \ {Max(s)}], values[Max(s)])]
<1>1. n \in Nat /\ DOMAIN values = 1 .. n /\ \A k \in 1 .. n : values[k] \in Words
  BY LenProperties, ElementOfSeq
<1>2. <<>> \in Seq(Words)
  BY EmptySeq
<1>3. ASSUME NEW a \in Seq(Words), NEW k \in 1 .. n
      PROVE  op[k][a] = Kept(a, values[k]) /\ op[k][a] \in Seq(Words)
  <2>1. op[k][a] = Kept(a, values[k])
    OBVIOUS
  <2>2. values[k] \in Words
    BY <1>1
  <2>3. Kept(a, values[k]) \in Seq(Words)
    BY <2>2, AppendProperties DEF Kept
  <2> HIDE DEF op
  <2>4. QED
    BY <2>1, <2>3, Zenon
<1>4. \E g : Is(g)
  <2>1. PICK g : IsFold(g, n, Seq(Words), <<>>, op)
    <3> HIDE DEF op, n
    <3>1. QED
      BY <1>1, <1>2, <1>3, StepsExist
  <2>2. \A s \in SUBSET (1 .. n) :
          g[s] = IF s = {} THEN <<>> ELSE Kept(g[s \ {Max(s)}], values[Max(s)])
    <3>1. TAKE s \in SUBSET (1 .. n)
    <3>2. s # {} => Max(s) \in 1 .. n /\ g[s \ {Max(s)}] \in Seq(Words)
      BY <1>1, <2>1, UpTo DEF IsFold
    <3>3. QED
      BY <1>1, <2>1, <3>2 DEF IsFold
  <2>3. g = [s \in SUBSET (1 .. n) |-> g[s]]
    BY <2>1 DEF IsFold
  <2>4. Is(g)
    BY <1>1, <2>2, <2>3
  <2>5. QED
    BY <2>4
<1> DEFINE iter == CHOOSE g : Is(g)
<1>5. Is(iter)
  BY <1>4
<1>6. DropRepeats(values) = iter[DOMAIN values]
  BY DEF DropRepeats, Kept, FoldLeft, MapThenFoldSet
<1> HIDE DEF iter
<1> DEFINE A == Seq(Words)
           base == <<>>
<1>7. PICK acc : Accumulates(acc, n, A, base, op) /\ acc[n] = iter[1 .. n]
  <2>1. iter[{}] = <<>>
    BY <1>5
  <2>2. ASSUME NEW s \in SUBSET (1 .. n), s # {}, iter[s \ {Max(s)}] \in Seq(Words)
        PROVE  iter[s] = op[Max(s)][iter[s \ {Max(s)}]]
    <3>1. Max(s) \in 1 .. n
      BY <1>1, <2>2, UpTo
    <3>2. iter[s] = Kept(iter[s \ {Max(s)}], values[Max(s)])
      BY <1>1, <1>5, <2>2
    <3> HIDE DEF op, Is, n
    <3>3. QED
      BY <1>3, <2>2, <3>1, <3>2
  <2>3. FollowsSteps(iter, n, A, base, op) /\ Typed(n, A, op)
    <3> HIDE DEF op, Is, n
    <3>1. QED
      BY <1>3, <2>1, <2>2, Zenon DEF FollowsSteps, Typed
  <2>4. base \in A /\ n \in Nat
    BY <1>1, <1>2
  <2> HIDE DEF op, Is, n, A, base
  <2>5. QED
    BY <2>3, <2>4, FoldSteps
<1>8. \A k \in 1 .. n : acc[k - 1] \in Seq(Words) /\ acc[k] = Kept(acc[k - 1], values[k])
  <2> HIDE DEF op, Is, n
  <2>1. QED
    BY <1>3, <1>7 DEF Accumulates
<1>9. QED
  <2>1. acc[0] = <<>> /\ acc[n] \in Seq(Words)
    BY <1>7, Zenon DEF Accumulates
  <2>2. DropRepeats(values) = acc[n]
    BY <1>1, <1>6, <1>7
  <2>3. QED
    BY <1>8, <2>1, <2>2, Zenon

-----------------------------------------------------------------------------
(* What the aggregation functions give.                                    *)

\* A quotient of naturals is no greater than what is divided.
LEMMA QuotientBelow ==
  ASSUME NEW a \in Nat, NEW p \in Nat \ {0}
  PROVE  a \div p \in 0 .. a
<1> DEFINE q == a \div p
           r == a % p
<1>1. q \in Int /\ r \in 0 .. p - 1 /\ a = p * q + r
  BY QuotientRemainder
<1> HIDE DEF q, r
<1>2. q >= 0
  <2>1. SUFFICES ASSUME q <= -1 PROVE FALSE
    BY <1>1
  <2>2. p * q <= p * (-1)
    BY <1>1, <2>1, SMT
  <2>3. QED
    BY <1>1, <2>2, SMT
<1>3. q <= p * q
  BY <1>1, <1>2, SMT
<1>4. QED
  BY <1>1, <1>2, <1>3 DEF q

\* Every natural has an integer root.
LEMMA RootExists ==
  ASSUME NEW x \in Nat
  PROVE  SquareRoot(x) \in 0 .. x
<1> DEFINE S == {m \in Nat : x < m * m}
<1>1. S \in SUBSET Nat /\ S # {}
  <2>1. x < (x + 1) * (x + 1)
    BY SMT
  <2>2. x + 1 \in S
    BY <2>1
  <2>3. QED
    BY <2>2
<1>2. PICK m \in S : \A k \in S : m <= k
  <2> HIDE DEF S
  <2>1. QED
    BY <1>1, LeastElement
<1>3. m \in Nat /\ x < m * m /\ m # 0
  BY <1>2
<1> DEFINE r == m - 1
<1>4. r \in Nat /\ r + 1 = m
  BY <1>3
<1>5. r * r <= x
  <2>1. r \notin S
    BY <1>2, <1>4
  <2>2. r * r \in Int
    BY <1>4
  <2>3. QED
    BY <1>4, <2>1, <2>2
<1>6. r <= r * r
  <2> HIDE DEF r
  <2>1. QED
    BY <1>4, SMT
<1>7. r \in 0 .. x /\ r * r <= x /\ x < (r + 1) * (r + 1)
  <2>1. r * r \in Int
    BY <1>4
  <2>2. r <= x
    <3> HIDE DEF r
    <3>1. QED
      BY <1>4, <1>5, <1>6, <2>1
  <2>3. x < (r + 1) * (r + 1)
    BY <1>3, <1>4
  <2>4. QED
    BY <1>4, <1>5, <2>2, <2>3
<1>8. QED
  <2> HIDE DEF r
  <2>1. QED
    BY <1>7 DEF SquareRoot

\* The results that are one number.
LEMMA SumIsWord ==
  ASSUME NEW values \in Seq(Words)
  PROVE  /\ Sum(values) \in Words
         /\ values # <<>> => Mean(values) \in Words /\ Deviation(values) \in Words
<1>1. Sum(values) \in Words
  BY SumSteps
<1>2. Len(values) \in Nat /\ (values # <<>> => Len(values) # 0)
  BY EmptySeq
<1>3. ASSUME values # <<>> PROVE Mean(values) \in Words
  <2>1. Sum(values) \in Nat
    BY <1>1 DEF Words
  <2>2. Sum(values) \div Len(values) \in 0 .. Sum(values)
    BY <1>2, <1>3, <2>1, QuotientBelow
  <2>3. QED
    BY <1>1, <2>2, Ranges DEF Mean, Words
<1>4. ASSUME values # <<>> PROVE Deviation(values) \in Words
  <2>1. Mean(values) \in Int
    BY <1>3, <1>4, Ranges DEF Words
  <2>2. PICK sum \in 0 .. HalfRange - 1 :
          Deviation(values) = SquareRoot(sum \div Len(values))
    BY <2>1, DeviationSteps
  <2>3. sum \in Nat
    BY Ranges
  <2>4. sum \div Len(values) \in 0 .. sum
    BY <1>2, <1>4, <2>3, QuotientBelow
  <2>5. SquareRoot(sum \div Len(values)) \in 0 .. (sum \div Len(values))
    <3> DEFINE q == sum \div Len(values)
    <3> HIDE DEF q
    <3>1. q \in Nat
      BY <2>3, <2>4 DEF q
    <3>2. SquareRoot(q) \in 0 .. q
      BY <3>1, RootExists
    <3>3. QED
      BY <3>2 DEF q
  <2>6. QED
    BY <2>2, <2>3, <2>4, <2>5, Ranges DEF Words
<1>5. QED
  BY <1>1, <1>3, <1>4

\* A product that starts with 0 stays 0.
LEMMA ProductIsZero ==
  ASSUME NEW values \in Seq(Words)
  PROVE  Product(values) = 0
<1> DEFINE n == Len(values)
<1>1. n \in Nat /\ \A k \in 1 .. n : values[k] \in Words
  BY LenProperties, ElementOfSeq
<1>2. PICK acc : /\ acc[0] = 0
                 /\ \A k \in 1 .. n : acc[k] = Times(acc[k - 1], values[k])
                 /\ acc[n] = Product(values)
  BY ProductSteps
<1> DEFINE U == {k \in 0 .. n : acc[k] = 0}
<1> HIDE DEF n
<1>3. 0 \in U
  BY <1>1, <1>2
<1>4. ASSUME NEW k \in 0 .. n - 1, k \in U PROVE k + 1 \in U
  <2>1. k + 1 \in 1 .. n /\ k + 1 \in 0 .. n /\ (k + 1) - 1 = k
    BY <1>1
  <2>2. acc[k + 1] = Times(0, values[k + 1])
    BY <1>2, <1>4, <2>1
  <2>3. values[k + 1] \in Int
    BY <1>1, <2>1, Ranges DEF Words
  <2>4. 0 * values[k + 1] = 0
    BY <2>3
  <2>5. 0 % WordRange = 0
    BY Wrapped, Ranges
  <2>6. QED
    BY <2>1, <2>2, <2>4, <2>5 DEF Times
<1>5. 0 .. n \subseteq U
  <2> HIDE DEF U
  <2>1. QED
    BY <1>1, <1>3, <1>4, AllUpTo
<1>6. QED
  BY <1>1, <1>2, <1>5

\* How many of the first values have a bit.
With(values, k, b) == {i \in 1 .. k : b \in Bits[values[i]]}

\* The next value counts if it has the bit.
LEMMA WithFacts ==
  ASSUME NEW values, NEW k \in Nat, NEW b
  PROVE  /\ IsFiniteSet(With(values, k, b))
         /\ Cardinality(With(values, k, b)) \in Nat
         /\ With(values, 0, b) = {}
         /\ With(values, k + 1, b) = IF b \in Bits[values[k + 1]]
                                     THEN With(values, k, b) \cup {k + 1}
                                     ELSE With(values, k, b)
         /\ k + 1 \notin With(values, k, b)
<1>1. IsFiniteSet(1 .. k) /\ With(values, k, b) \in SUBSET (1 .. k)
  BY FS_Interval DEF With
<1>2. IsFiniteSet(With(values, k, b)) /\ Cardinality(With(values, k, b)) \in Nat
  BY <1>1, FS_Subset, FS_CardinalityType
<1>3. 1 .. k + 1 = (1 .. k) \cup {k + 1} /\ k + 1 \notin 1 .. k /\ 1 .. 0 = {}
  OBVIOUS
<1>4. QED
  BY <1>2, <1>3 DEF With

\* The bits of the results of "and", "or" and "xor", which start with none.
LEMMA BitwiseIs ==
  ASSUME NEW values \in Seq(Words), NEW op \in {"and", "or", "xor"}
  PROVE  /\ Bitwise(op, values) \in Words
         /\ op = "and" => Bitwise(op, values) = 0
         /\ op = "or" => Bits[Bitwise(op, values)] =
              {b \in 0 .. WordBits - 1 : With(values, Len(values), b) # {}}
         /\ op = "xor" => Bits[Bitwise(op, values)] =
              {b \in 0 .. WordBits - 1 :
                 Cardinality(With(values, Len(values), b)) % 2 = 1}
<1> DEFINE n == Len(values)
           All == 0 .. WordBits - 1
           Has(k, b) == \/ op = "or" /\ With(values, k, b) # {}
                        \/ op = "xor" /\ Cardinality(With(values, k, b)) % 2 = 1
<1>1. n \in Nat /\ \A k \in 1 .. n : values[k] \in Words
  BY LenProperties, ElementOfSeq
<1>2. PICK acc : /\ acc[0] = {}
                 /\ \A k \in 1 .. n :
                      /\ acc[k - 1] \in SUBSET All
                      /\ acc[k] = Joined(op, acc[k - 1], Bits[values[k]])
                 /\ acc[n] \in SUBSET All
                 /\ Bitwise(op, values) = Number[acc[n]]
  BY BitwiseSteps
<1> DEFINE U == {k \in 0 .. n : \A b \in All : b \in acc[k] <=> Has(k, b)}
<1> HIDE DEF n, All
<1>3. 0 \in U
  <2>1. ASSUME NEW b \in All PROVE ~ Has(0, b)
    <3>1. With(values, 0, b) = {}
      BY WithFacts
    <3>2. Cardinality(With(values, 0, b)) = 0
      BY <3>1, FS_EmptySet
    <3>3. QED
      BY <3>1, <3>2
  <2>2. QED
    <3> HIDE DEF Has
    <3>1. QED
      BY <1>1, <1>2, <2>1
<1>4. ASSUME NEW k \in 0 .. n - 1, k \in U PROVE k + 1 \in U
  <2>1. k \in Nat /\ k + 1 \in 1 .. n /\ k + 1 \in 0 .. n /\ (k + 1) - 1 = k
    BY <1>1
  <2> DEFINE cs == Bits[values[k + 1]]
  <2>2. acc[k + 1] = Joined(op, acc[k], cs)
    <3> HIDE DEF cs
    <3>1. QED
      BY <1>2, <2>1 DEF cs
  <2>3. ASSUME NEW b \in All PROVE b \in acc[k + 1] <=> Has(k + 1, b)
    <3> DEFINE W == With(values, k, b)
               V == With(values, k + 1, b)
    <3>1. /\ IsFiniteSet(W) /\ Cardinality(W) \in Nat /\ k + 1 \notin W
          /\ V = IF b \in cs THEN W \cup {k + 1} ELSE W
      BY <2>1, WithFacts
    <3>2. Cardinality(V) = IF b \in cs THEN Cardinality(W) + 1 ELSE Cardinality(W)
      <4> HIDE DEF W, V, cs
      <4>1. Cardinality(W \cup {k + 1}) = Cardinality(W) + 1
        BY <3>1, FS_AddElement
      <4>2. QED
        BY <3>1, <4>1
    <3>3. b \in acc[k] <=> Has(k, b)
      <4> HIDE DEF Has
      <4>1. QED
        BY <1>4
    <3>4. CASE op = "and"
      BY <2>2, <3>3, <3>4 DEF Joined
    <3>5. CASE op = "or"
      <4>1. b \in acc[k + 1] <=> b \in acc[k] \/ b \in cs
        BY <2>2, <3>5 DEF Joined
      <4>2. Has(k, b) <=> W # {}
        BY <3>5
      <4>3. Has(k + 1, b) <=> V # {}
        BY <3>5
      <4> HIDE DEF Has, W, V, cs
      <4>4. QED
        BY <3>1, <3>3, <4>1, <4>2, <4>3
    <3>6. CASE op = "xor"
      <4>1. b \in acc[k + 1] <=> ~ (b \in acc[k] <=> b \in cs)
        BY <2>2, <3>6 DEF Joined
      <4>2. Has(k, b) <=> Cardinality(W) % 2 = 1
        BY <3>6
      <4>3. Has(k + 1, b) <=> Cardinality(V) % 2 = 1
        BY <3>6
      <4> HIDE DEF Has, W, V, cs
      <4>4. QED
        BY <3>1, <3>2, <3>3, <4>1, <4>2, <4>3
    <3>7. QED
      BY <3>4, <3>5, <3>6
  <2>4. QED
    <3> HIDE DEF Has
    <3>1. QED
      BY <2>1, <2>3
<1>5. n \in U
  <2> HIDE DEF U
  <2>1. 0 .. n \subseteq U
    BY <1>1, <1>3, <1>4, AllUpTo
  <2>2. QED
    BY <1>1, <2>1
<1>6. acc[n] = {b \in All : Has(n, b)}
  <2> HIDE DEF Has
  <2>1. QED
    BY <1>2, <1>5
<1>7. /\ Bitwise(op, values) \in Words
      /\ Bits[Bitwise(op, values)] = acc[n]
      /\ acc[n] = {} => Bitwise(op, values) = 0
  BY <1>2, NumberIs DEF All
<1>8. CASE op = "and"
  <2>1. acc[n] = {}
    BY <1>6, <1>8
  <2>2. QED
    BY <1>7, <1>8, <2>1
<1>9. CASE op = "or"
  <2>1. acc[n] = {b \in All : With(values, n, b) # {}}
    BY <1>6, <1>9
  <2>2. QED
    BY <1>7, <1>9, <2>1 DEF n, All
<1>10. CASE op = "xor"
  <2>1. acc[n] = {b \in All : Cardinality(With(values, n, b)) % 2 = 1}
    BY <1>6, <1>10
  <2>2. QED
    BY <1>7, <1>10, <2>1 DEF n, All
<1>11. QED
  BY <1>8, <1>9, <1>10

-----------------------------------------------------------------------------
(* Values in order.                                                        *)

\* What Append does to the elements of a sequence.
LEMMA AppendFacts ==
  ASSUME NEW S, NEW q \in Seq(S), NEW x \in S
  PROVE  /\ Append(q, x) \in Seq(S)
         /\ Len(q) \in Nat
         /\ DOMAIN q = 1 .. Len(q)
         /\ Len(Append(q, x)) = Len(q) + 1
         /\ DOMAIN Append(q, x) = 1 .. Len(q) + 1
         /\ \A n \in 1 .. Len(q) : Append(q, x)[n] = q[n]
         /\ Append(q, x)[Len(q) + 1] = x
BY AppendProperties, LenProperties

\* A sequence of different elements has as many as its range.
LEMMA RangeSize ==
  ASSUME NEW S, NEW q \in Seq(S),
         \A i, j \in 1 .. Len(q) : q[i] = q[j] => i = j
  PROVE  IsFiniteSet(Range(q)) /\ Cardinality(Range(q)) = Len(q)
<1> DEFINE n == Len(q)
<1>1. n \in Nat /\ DOMAIN q = 1 .. n /\ q \in [1 .. n -> S]
  BY LenProperties
<1>2. q \in Injection(1 .. n, S)
  BY <1>1, Fun_IsInj
<1>3. q \in Bijection(1 .. n, Range(q))
  BY <1>2, Fun_InjMeansBijImage
<1>4. IsFiniteSet(1 .. n) /\ Cardinality(1 .. n) = n
  BY <1>1, FS_Interval
<1>5. ExistsBijection(1 .. n, Range(q))
  BY <1>3 DEF ExistsBijection
<1>6. QED
  BY <1>4, <1>5, FS_Bijection

\* The image of a finite set is no larger.
LEMMA ImageSize ==
  ASSUME NEW S, IsFiniteSet(S), NEW f, NEW T \in SUBSET {f[x] : x \in S}
  PROVE  IsFiniteSet(T) /\ Cardinality(T) <= Cardinality(S)
<1> DEFINE I == {f[x] : x \in S}
           g == [x \in S |-> f[x]]
<1>1. g \in [S -> I] /\ \A y \in I : \E x \in S : g[x] = y
  OBVIOUS
<1>2. g \in Surjection(S, I)
  <2> HIDE DEF g, I
  <2>1. QED
    BY <1>1, Fun_IsSurj
<1>3. IsFiniteSet(I) /\ Cardinality(I) <= Cardinality(S)
  <2> HIDE DEF g, I
  <2>1. QED
    BY <1>2, FS_Surjection
<1>4. IsFiniteSet(T) /\ Cardinality(T) <= Cardinality(I)
  <2> HIDE DEF I
  <2>1. T \in SUBSET I
    BY DEF I
  <2>2. QED
    BY <1>3, <2>1, FS_Subset
<1>5. Cardinality(T) \in Nat /\ Cardinality(I) \in Nat /\ Cardinality(S) \in Nat
  <2> HIDE DEF I
  <2>1. QED
    BY <1>3, <1>4, FS_CardinalityType
<1>6. QED
  BY <1>3, <1>4, <1>5

\* An order of qsort is a permutation of the places.
LEMMA OrderIs ==
  ASSUME NEW values \in Seq(Words), NEW order \in SortOrders(values)
  PROVE  /\ Len(values) \in Nat
         /\ DOMAIN values = 1 .. Len(values)
         /\ \A p \in 1 .. Len(values) : values[p] \in Words
         /\ \A p \in 1 .. Len(values) : order[p] \in 1 .. Len(values)
         /\ \A i \in 1 .. Len(values) : \E p \in 1 .. Len(values) : order[p] = i
         /\ \A p, r \in 1 .. Len(values) :
              p < r => values[order[p]] % HalfRange <= values[order[r]] % HalfRange
<1> DEFINE n == Len(values)
           D == 1 .. n
<1>1. n \in Nat /\ DOMAIN values = D /\ \A p \in D : values[p] \in Words
  BY LenProperties, ElementOfSeq
<1>2. /\ order \in [D -> D]
      /\ \A p, r \in D : order[p] = order[r] => p = r
      /\ \A p, r \in D :
           p < r => values[order[p]] % HalfRange <= values[order[r]] % HalfRange
  BY <1>1 DEF SortOrders, IsInjective
<1>3. IsFiniteSet(D)
  BY <1>1, FS_Interval
<1> HIDE DEF n, D
<1>4. order \in Injection(D, D)
  BY <1>2, Fun_IsInj
<1>5. order \in Surjection(D, D)
  BY <1>3, <1>4, FS_Injection
<1>6. \A i \in D : \E p \in D : order[p] = i
  BY <1>5, Fun_SurjectionProperties
<1>7. QED
  BY <1>1, <1>2, <1>6 DEF n, D

\* What is below the divisor is its own remainder.
LEMMA SmallRemainder ==
  ASSUME NEW p \in Nat \ {0}, NEW x \in 0 .. p - 1
  PROVE  x % p = x
BY SMT

\* The value in the middle: at most half of them are below, fewer above it.
LEMMA MedianIs ==
  ASSUME NEW values \in Seq(Words), values # <<>>,
         NEW order \in SortOrders(values),
         \A i \in 1 .. Len(values) : values[i] < HalfRange
  PROVE  LET n == Len(values)
             v == values[order[n \div 2 + 1]]
         IN /\ 2 * Cardinality({i \in 1 .. n : values[i] < v}) <= n
            /\ 2 * Cardinality({i \in 1 .. n : values[i] > v}) < n
<1> DEFINE n   == Len(values)
           mid == n \div 2 + 1
           v   == values[order[mid]]
           Low == {i \in 1 .. n : values[i] < v}
           High == {i \in 1 .. n : values[i] > v}
<1>1. /\ n \in Nat /\ n # 0 /\ mid \in 1 .. n
      /\ 2 * (mid - 1) <= n /\ 2 * (n - mid) < n
  BY EmptySeq
<1>2. /\ \A i \in 1 .. n : values[i] \in Int
      /\ \A p \in 1 .. n : order[p] \in 1 .. n
      /\ \A i \in 1 .. n : \E p \in 1 .. n : order[p] = i
  BY OrderIs, Ranges DEF Words
<1>3. ASSUME NEW p \in 1 .. n, NEW r \in 1 .. n, p < r
      PROVE  values[order[p]] <= values[order[r]]
  <2>1. ASSUME NEW i \in 1 .. n PROVE values[i] % HalfRange = values[i]
    <3>1. HalfRange \in Nat \ {0} /\ values[i] \in Nat
      BY OrderIs, Ranges DEF Words
    <3>2. values[i] \in 0 .. HalfRange - 1
      <4>1. values[i] < HalfRange
        BY DEF n
      <4>2. QED
        BY <3>1, <4>1
    <3>3. QED
      BY <3>1, <3>2, SmallRemainder
  <2>2. \A i \in 1 .. n : values[i] % HalfRange = values[i]
    BY <2>1
  <2>3. values[order[p]] % HalfRange <= values[order[r]] % HalfRange
    BY <1>3, OrderIs
  <2>4. QED
    BY <1>2, <2>2, <2>3
<1> HIDE DEF n, mid
<1>4. Low \in SUBSET {order[p] : p \in 1 .. mid - 1}
  <2>1. SUFFICES ASSUME NEW i \in Low PROVE \E p \in 1 .. mid - 1 : i = order[p]
    OBVIOUS
  <2>2. PICK p \in 1 .. n : order[p] = i
    BY <1>2
  <2>3. values[order[p]] < v /\ v \in Int /\ values[order[p]] \in Int
    BY <1>1, <1>2, <2>2
  <2>4. p # mid /\ ~ (mid < p)
    BY <1>1, <1>3, <2>3
  <2>5. p \in 1 .. mid - 1
    BY <1>1, <2>4
  <2>6. QED
    BY <2>2, <2>5
<1>5. High \in SUBSET {order[p] : p \in mid + 1 .. n}
  <2>1. SUFFICES ASSUME NEW i \in High PROVE \E p \in mid + 1 .. n : i = order[p]
    OBVIOUS
  <2>2. PICK p \in 1 .. n : order[p] = i
    BY <1>2
  <2>3. values[order[p]] > v /\ v \in Int /\ values[order[p]] \in Int
    BY <1>1, <1>2, <2>2
  <2>4. p # mid /\ ~ (p < mid)
    BY <1>1, <1>3, <2>3
  <2>5. p \in mid + 1 .. n
    BY <1>1, <2>4
  <2>6. QED
    BY <2>2, <2>5
<1>6. /\ IsFiniteSet(1 .. mid - 1) /\ Cardinality(1 .. mid - 1) = mid - 1
      /\ IsFiniteSet(mid + 1 .. n) /\ Cardinality(mid + 1 .. n) = n - mid
  <2>1. mid - 1 \in Int /\ mid + 1 \in Int /\ 1 \in Int /\ n \in Int
    BY <1>1
  <2>2. /\ IsFiniteSet(1 .. mid - 1)
        /\ Cardinality(1 .. mid - 1) = IF 1 > mid - 1 THEN 0 ELSE (mid - 1) - 1 + 1
    BY <2>1, FS_Interval
  <2>3. /\ IsFiniteSet(mid + 1 .. n)
        /\ Cardinality(mid + 1 .. n) = IF mid + 1 > n THEN 0 ELSE n - (mid + 1) + 1
    BY <2>1, FS_Interval
  <2>4. QED
    BY <1>1, <2>2, <2>3
<1> HIDE DEF Low, High
<1>7. /\ IsFiniteSet(Low) /\ Cardinality(Low) <= mid - 1
      /\ IsFiniteSet(High) /\ Cardinality(High) <= n - mid
  <2> DEFINE A == 1 .. mid - 1
             B == mid + 1 .. n
  <2>1. Low \in SUBSET {order[p] : p \in A} /\ High \in SUBSET {order[p] : p \in B}
    BY <1>4, <1>5
  <2>2. IsFiniteSet(A) /\ IsFiniteSet(B)
    BY <1>6
  <2> HIDE DEF A, B
  <2>3. IsFiniteSet(Low) /\ Cardinality(Low) <= Cardinality(A)
    BY <2>1, <2>2, ImageSize
  <2>4. IsFiniteSet(High) /\ Cardinality(High) <= Cardinality(B)
    BY <2>1, <2>2, ImageSize
  <2>5. QED
    BY <1>6, <2>3, <2>4 DEF A, B
<1>8. Cardinality(Low) \in Nat /\ Cardinality(High) \in Nat
  BY <1>7, FS_CardinalityType
<1>9. 2 * Cardinality(Low) <= n /\ 2 * Cardinality(High) < n
  BY <1>1, <1>7, <1>8
<1>10. QED
  BY <1>9 DEF Low, High, v, mid, n

-----------------------------------------------------------------------------
(* What is left when the repeats are dropped.                              *)

\* A sequence without repeats in the order of its values.
Ascending(q) == \A i, j \in 1 .. Len(q) : i < j => q[i] < q[j]

\* A value that is kept is the last one from then on.
LEMMA KeptFacts ==
  ASSUME NEW q \in Seq(Words), NEW x \in Words
  PROVE  /\ Kept(q, x) \in Seq(Words)
         /\ Kept(q, x) # <<>>
         /\ Last(Kept(q, x)) = x
         /\ Range(Kept(q, x)) = Range(q) \cup {x}
         /\ Ascending(q) /\ (q # <<>> => Last(q) <= x) => Ascending(Kept(q, x))
<1> DEFINE n == Len(q)
           A == Append(q, x)
<1>1. /\ n \in Nat /\ DOMAIN q = 1 .. n
      /\ q # <<>> => n \in 1 .. n
      /\ \A i \in 1 .. n : q[i] \in Words
  BY EmptySeq, LenProperties, ElementOfSeq
<1>2. CASE q # <<>> /\ Last(q) = x
  <2>1. Kept(q, x) = q
    BY <1>2 DEF Kept
  <2>2. x \in Range(q)
    BY <1>1, <1>2 DEF Last, Range
  <2>3. QED
    BY <1>2, <2>1, <2>2
<1>3. CASE ~ (q # <<>> /\ Last(q) = x)
  <2>1. Kept(q, x) = A
    BY <1>3 DEF Kept
  <2>2. /\ A \in Seq(Words) /\ Len(A) = n + 1 /\ DOMAIN A = 1 .. n + 1
        /\ \A i \in 1 .. n : A[i] = q[i]
        /\ A[n + 1] = x
    BY AppendFacts
  <2> HIDE DEF n, A
  <2>3. A # <<>> /\ Last(A) = x
    BY <1>1, <2>2, EmptySeq DEF Last
  <2>4. 1 .. n + 1 = (1 .. n) \cup {n + 1} /\ n + 1 \notin 1 .. n
    BY <1>1
  <2>5. Range(A) = Range(q) \cup {x}
    <3> DEFINE D == 1 .. n
    <3>1. DOMAIN A = D \cup {n + 1} /\ DOMAIN q = D /\ \A i \in D : A[i] = q[i]
      BY <1>1, <2>2, <2>4
    <3> HIDE DEF D
    <3>2. QED
      BY <2>2, <3>1 DEF Range
  <2>6. ASSUME Ascending(q), q # <<>> => Last(q) <= x PROVE Ascending(A)
    <3>1. SUFFICES ASSUME NEW i \in 1 .. n + 1, NEW j \in 1 .. n + 1, i < j
                   PROVE  A[i] < A[j]
      BY <2>2 DEF Ascending
    <3>2. CASE j \in 1 .. n
      <4>1. i \in 1 .. n
        BY <1>1, <3>1, <3>2
      <4>2. q[i] < q[j]
        BY <2>6, <3>1, <3>2, <4>1 DEF Ascending, n
      <4>3. QED
        BY <2>2, <3>2, <4>1, <4>2
    <3>3. CASE j = n + 1
      <4>1. i \in 1 .. n /\ n \in 1 .. n /\ q # <<>>
        BY <1>1, <3>1, <3>3, EmptySeq DEF n
      <4>2. Last(q) = q[n] /\ q[n] # x /\ q[n] <= x
        BY <1>3, <2>6, <4>1 DEF Last, n
      <4>3. /\ q[i] \in Int /\ q[n] \in Int /\ x \in Int /\ n \in Nat
            /\ i \in Nat /\ i <= n
        BY <1>1, <4>1, Ranges DEF Words
      <4>4. i # n => q[i] < q[n]
        BY <2>6, <4>1, <4>3 DEF Ascending, n
      <4>5. q[i] < x
        BY <4>2, <4>3, <4>4
      <4>6. QED
        BY <2>2, <3>3, <4>1, <4>5
    <3>4. QED
      BY <2>4, <3>2, <3>3
  <2>7. QED
    BY <2>1, <2>2, <2>3, <2>5, <2>6
<1>4. QED
  BY <1>2, <1>3

\* A strictly ascending sequence has no element twice.
LEMMA AscendingSize ==
  ASSUME NEW q \in Seq(Words), Ascending(q)
  PROVE  Cardinality(Range(q)) = Len(q)
<1> DEFINE n == Len(q)
<1>1. n \in Nat /\ \A i \in 1 .. n : q[i] \in Int
  BY LenProperties, ElementOfSeq, Ranges DEF Words
<1>2. ASSUME NEW i \in 1 .. n, NEW j \in 1 .. n, q[i] = q[j] PROVE i = j
  <2>1. ~ (i < j) /\ ~ (j < i)
    BY <1>1, <1>2 DEF Ascending
  <2>2. QED
    BY <1>1, <2>1
<1>3. QED
  <2> DEFINE S == Words
  <2>1. q \in Seq(S) /\ \A i, j \in 1 .. Len(q) : q[i] = q[j] => i = j
    BY <1>2
  <2> HIDE DEF S
  <2>2. QED
    BY <2>1, RangeSize

\* The values stay, and each of them once when they are in order.
LEMMA DropIs ==
  ASSUME NEW s \in Seq(Words)
  PROVE  /\ DropRepeats(s) \in Seq(Words)
         /\ s # <<>> => DropRepeats(s) # <<>>
         /\ Range(DropRepeats(s)) = Range(s)
         /\ (\A i, j \in 1 .. Len(s) : i < j => s[i] <= s[j]) =>
              Len(DropRepeats(s)) = Cardinality(Range(DropRepeats(s)))
<1> DEFINE n == Len(s)
           Ordered == \A i, j \in 1 .. n : i < j => s[i] <= s[j]
           First(k) == {s[i] : i \in 1 .. k}
<1>1. /\ n \in Nat /\ DOMAIN s = 1 .. n
      /\ s # <<>> => n # 0
      /\ \A i \in 1 .. n : s[i] \in Words
  BY EmptySeq, LenProperties, ElementOfSeq
<1>2. PICK acc : /\ acc[0] = <<>>
                 /\ \A k \in 1 .. n : /\ acc[k - 1] \in Seq(Words)
                                      /\ acc[k] = Kept(acc[k - 1], s[k])
                 /\ acc[n] \in Seq(Words)
                 /\ DropRepeats(s) = acc[n]
  BY DropSteps
<1> DEFINE Holds(k) == /\ Range(acc[k]) = First(k)
                       /\ k # 0 <=> acc[k] # <<>>
                       /\ k # 0 => Last(acc[k]) = s[k]
                       /\ Ordered => Ascending(acc[k])
           U == {k \in 0 .. n : Holds(k)}
<1>3. 0 \in U
  <2>1. Range(acc[0]) = {} /\ First(0) = {} /\ Len(acc[0]) = 0
    BY <1>2, EmptySeq DEF Range
  <2>2. Ascending(acc[0])
    BY <2>1 DEF Ascending
  <2>3. Holds(0)
    <3> HIDE DEF First, Ordered
    <3>1. QED
      BY <1>2, <2>1, <2>2
  <2>4. QED
    <3> HIDE DEF Holds
    <3>1. QED
      BY <1>1, <2>3
<1>4. ASSUME NEW k \in 0 .. n - 1, k \in U PROVE k + 1 \in U
  <2>1. k \in Nat /\ k + 1 \in 1 .. n /\ k + 1 \in 0 .. n /\ (k + 1) - 1 = k
        /\ k + 1 # 0 /\ (k # 0 => k \in 1 .. n) /\ k < k + 1
    BY <1>1
  <2> DEFINE q == acc[k]
             x == s[k + 1]
  <2>2. q \in Seq(Words) /\ x \in Words /\ acc[k + 1] = Kept(q, x)
    BY <1>1, <1>2, <2>1
  <2>3. Range(q) = First(k) /\ (k # 0 <=> q # <<>>) /\ (k # 0 => Last(q) = s[k])
        /\ (Ordered => Ascending(q))
    <3> HIDE DEF First, Ordered
    <3>1. QED
      BY <1>4
  <2>4. First(k + 1) = First(k) \cup {x}
    <3>1. 1 .. k + 1 = (1 .. k) \cup {k + 1}
      BY <2>1
    <3>2. QED
      BY <3>1
  <2>5. Ordered /\ q # <<>> => Last(q) <= x
    <3>1. SUFFICES ASSUME Ordered, q # <<>> PROVE Last(q) <= x
      OBVIOUS
    <3>2. s[k] <= s[k + 1]
      BY <2>1, <2>3, <3>1
    <3>3. QED
      <4> HIDE DEF First, Ordered
      <4>1. QED
        BY <2>3, <3>1, <3>2
  <2> HIDE DEF q, x
  <2>6. /\ Kept(q, x) # <<>> /\ Last(Kept(q, x)) = x
        /\ Range(Kept(q, x)) = Range(q) \cup {x}
        /\ Ascending(q) /\ (q # <<>> => Last(q) <= x) => Ascending(Kept(q, x))
    BY <2>2, KeptFacts
  <2>7. Holds(k + 1)
    <3> HIDE DEF First, Ordered
    <3>1. QED
      BY <2>1, <2>2, <2>3, <2>4, <2>5, <2>6 DEF x
  <2>8. QED
    <3> HIDE DEF Holds
    <3>1. QED
      BY <2>1, <2>7
<1>5. Holds(n)
  <2> HIDE DEF U
  <2>1. 0 .. n \subseteq U
    <3> HIDE DEF n
    <3>1. QED
      BY <1>1, <1>3, <1>4, AllUpTo
  <2>2. n \in U
    BY <1>1, <2>1
  <2>3. QED
    <3> HIDE DEF Holds
    <3>1. QED
      BY <2>2 DEF U
<1>6. Range(s) = First(n)
  BY <1>1 DEF Range
<1>7. Ordered => Cardinality(Range(acc[n])) = Len(acc[n])
  <2> HIDE DEF First, Ordered
  <2>1. QED
    BY <1>2, <1>5, AscendingSize
<1>8. QED
  <2>1. (n # 0 <=> acc[n] # <<>>) /\ Range(acc[n]) = First(n)
    <3> HIDE DEF First, Ordered
    <3>1. QED
      BY <1>5
  <2> HIDE DEF First, Holds
  <2>2. QED
    BY <1>1, <1>2, <1>6, <1>7, <2>1

-----------------------------------------------------------------------------
(* The sum over a set of members is the sum of their values, wrapped       *)
(* around.                                                                 *)

\* iter is the sum of the numbers val over the subsets of D, one element after
\* the other as CHOOSE has it.
Totals(iter, D, val) ==
  iter = [s \in SUBSET D |->
            IF s = {} THEN 0
            ELSE val[CHOOSE x \in s : TRUE] + iter[s \ {CHOOSE x \in s : TRUE}]]

\* There is such a sum over every finite set.
LEMMA TotalsExist ==
  ASSUME NEW D, IsFiniteSet(D), NEW val, \A x \in D : val[x] \in Nat
  PROVE  \E iter : Totals(iter, D, val)
<1> DEFINE A == Nat
           base == 0
           op == [x \in D |-> [a \in A |-> val[x] + a]]
           ch == [s \in SUBSET D |-> CHOOSE x \in s : TRUE]
<1>1. /\ base \in A
      /\ \A s \in SUBSET D : s # {} => ch[s] \in s
      /\ \A a \in A, x \in D : op[x][a] = val[x] + a /\ op[x][a] \in A
  OBVIOUS
<1>2. PICK g : Folds(g, D, A, base, op, ch)
  <2> HIDE DEF op, ch, A, base
  <2>1. QED
    BY <1>1, SetRecursion
<1>3. ASSUME NEW s \in SUBSET D
      PROVE  /\ g[s] \in Nat
             /\ g[s] = IF s = {} THEN 0
                       ELSE val[CHOOSE x \in s : TRUE] + g[s \ {CHOOSE x \in s : TRUE}]
  <2>1. g[s] \in A /\ g[s] = IF s = {} THEN base ELSE op[ch[s]][g[s \ {ch[s]}]]
    <3> HIDE DEF op, ch, A, base
    <3>1. QED
      BY <1>2 DEF Folds
  <2>2. CASE s = {}
    BY <2>1, <2>2
  <2>3. CASE s # {}
    <3>1. s \ {ch[s]} \in SUBSET D /\ ch[s] \in D
      BY <1>1, <2>3
    <3>2. g[s \ {ch[s]}] \in A
      <4> HIDE DEF op, ch, A, base
      <4>1. QED
        BY <1>2, <3>1 DEF Folds
    <3>3. op[ch[s]][g[s \ {ch[s]}]] = val[ch[s]] + g[s \ {ch[s]}]
      <4> HIDE DEF op, ch, A, base
      <4>1. QED
        BY <1>1, <3>1, <3>2
    <3>4. ch[s] = CHOOSE x \in s : TRUE
      OBVIOUS
    <3> HIDE DEF op, ch, base
    <3>5. QED
      BY <2>1, <2>3, <3>3, <3>4
  <2>4. QED
    BY <2>2, <2>3
<1>4. Totals(g, D, val)
  <2>1. DOMAIN g = SUBSET D /\ g = [s \in DOMAIN g |-> g[s]]
    <3> HIDE DEF op, ch, A, base
    <3>1. QED
      BY <1>2 DEF Folds
  <2>2. QED
    BY <1>3, <2>1 DEF Totals
<1>5. QED
  BY <1>4

\* It is a number, and any other element can be added last.
LEMMA TotalsAnyLast ==
  ASSUME NEW D, IsFiniteSet(D), NEW val, \A x \in D : val[x] \in Nat,
         NEW iter, Totals(iter, D, val)
  PROVE  /\ iter[{}] = 0
         /\ \A s \in SUBSET D : iter[s] \in Nat
         /\ \A s \in SUBSET D : \A e \in s : iter[s] = val[e] + iter[s \ {e}]
<1>1. \A s \in SUBSET D : IsFiniteSet(s) /\ Cardinality(s) \in Nat
  BY FS_Subset, FS_CardinalityType
<1>2. ASSUME NEW s \in SUBSET D, NEW e \in s
      PROVE  s \ {e} \in SUBSET D /\ Cardinality(s \ {e}) = Cardinality(s) - 1
  BY <1>1, FS_RemoveElement
<1>3. \A s \in SUBSET D : Cardinality(s) = 0 <=> s = {}
  BY <1>1, FS_EmptySet
<1>4. iter[{}] = 0
  <2>1. {} \in SUBSET D
    OBVIOUS
  <2>2. QED
    BY <2>1 DEF Totals
<1>5. ASSUME NEW s \in SUBSET D, s # {}
      PROVE  \E x \in s : iter[s] = val[x] + iter[s \ {x}]
  BY <1>5 DEF Totals
<1> DEFINE AnyLast(s) == /\ iter[s] \in Nat
                         /\ \A e \in s : iter[s] = val[e] + iter[s \ {e}]
           U == {n \in Nat : \A s \in SUBSET D : Cardinality(s) <= n => AnyLast(s)}
<1>6. 0 \in U
  <2>1. ASSUME NEW s \in SUBSET D, Cardinality(s) <= 0 PROVE AnyLast(s)
    <3>1. s = {}
      BY <1>1, <1>3, <2>1
    <3>2. QED
      BY <1>4, <3>1
  <2>2. QED
    <3> HIDE DEF AnyLast
    <3>1. QED
      BY <2>1
<1>7. ASSUME NEW n \in U PROVE n + 1 \in U
  <2>1. n \in Nat /\ \A s \in SUBSET D : Cardinality(s) <= n => AnyLast(s)
    <3> HIDE DEF AnyLast
    <3>1. QED
      BY <1>7
  <2>2. ASSUME NEW s \in SUBSET D, Cardinality(s) <= n + 1 PROVE AnyLast(s)
    <3>1. CASE s = {}
      BY <1>4, <3>1
    <3>2. CASE s # {}
      <4>1. PICK x \in s : iter[s] = val[x] + iter[s \ {x}]
        BY <1>5, <3>2
      <4>2. ASSUME NEW e \in s PROVE AnyLast(s \ {e})
        <5>1. s \ {e} \in SUBSET D /\ Cardinality(s \ {e}) <= n
          <6>1. Cardinality(s \ {e}) = Cardinality(s) - 1 /\ s \ {e} \in SUBSET D
            BY <1>2
          <6>2. QED
            BY <1>1, <2>1, <2>2, <6>1
        <5> HIDE DEF AnyLast
        <5>2. QED
          BY <2>1, <5>1
      <4>3. iter[s] \in Nat
        <5>1. val[x] \in Nat /\ iter[s \ {x}] \in Nat
          BY <4>2
        <5>2. QED
          BY <4>1, <5>1
      <4>4. ASSUME NEW e \in s PROVE iter[s] = val[e] + iter[s \ {e}]
        <5>1. CASE e = x
          BY <4>1, <5>1
        <5>2. CASE e # x
          <6> DEFINE t == s \ {x, e}
          <6>1. e \in s \ {x} /\ (s \ {x}) \ {e} = t
            BY <5>2
          <6>2. x \in s \ {e} /\ (s \ {e}) \ {x} = t
            BY <5>2
          <6>3. iter[s \ {x}] = val[e] + iter[t]
            <7> DEFINE u == s \ {x}
            <7>1. \A y \in u : iter[u] = val[y] + iter[u \ {y}]
              BY <4>2
            <7> HIDE DEF u, t
            <7>2. QED
              BY <6>1, <7>1 DEF u
          <6>4. iter[s \ {e}] = val[x] + iter[t]
            <7> DEFINE u == s \ {e}
            <7>1. \A y \in u : iter[u] = val[y] + iter[u \ {y}]
              BY <4>2
            <7> HIDE DEF u, t
            <7>2. QED
              BY <6>2, <7>1 DEF u
          <6>5. val[x] \in Nat /\ val[e] \in Nat /\ iter[t] \in Nat
            <7>1. t \in SUBSET D /\ Cardinality(t) <= n
              <8>1. /\ Cardinality(s \ {x}) = Cardinality(s) - 1
                    /\ s \ {x} \in SUBSET D
                BY <1>2
              <8>2. t \in SUBSET D /\ Cardinality(t) = Cardinality(s \ {x}) - 1
                <9> DEFINE u == s \ {x}
                <9>1. u \in SUBSET D /\ e \in u /\ u \ {e} = t
                  BY <6>1
                <9> HIDE DEF u, t
                <9>2. u \ {e} \in SUBSET D /\ Cardinality(u \ {e}) = Cardinality(u) - 1
                  BY <1>2, <9>1
                <9>3. QED
                  BY <9>1, <9>2 DEF u
              <8> HIDE DEF t
              <8>3. QED
                BY <1>1, <2>1, <2>2, <8>1, <8>2
            <7>2. AnyLast(t)
              <8> HIDE DEF AnyLast, t
              <8>1. QED
                BY <2>1, <7>1
            <7>3. QED
              BY <7>2
          <6> HIDE DEF t
          <6>6. QED
            BY <4>1, <6>3, <6>4, <6>5
        <5>3. QED
          BY <5>1, <5>2
      <4>5. QED
        BY <4>3, <4>4
    <3>3. QED
      BY <3>1, <3>2
  <2>3. n + 1 \in Nat
    BY <2>1
  <2>4. QED
    <3> HIDE DEF AnyLast
    <3>1. QED
      BY <2>2, <2>3
<1>8. U = Nat
  <2> HIDE DEF U
  <2>1. U \in SUBSET Nat
    BY DEF U
  <2>2. QED
    BY <1>6, <1>7, <2>1, AllNaturals
<1>9. ASSUME NEW s \in SUBSET D PROVE AnyLast(s)
  <2> HIDE DEF AnyLast
  <2>1. Cardinality(s) \in U /\ Cardinality(s) <= Cardinality(s)
    BY <1>1, <1>8
  <2>2. QED
    BY <2>1
<1>10. QED
  BY <1>4, <1>9

\* The members of a sequence without repetition, added up in its order.
LEMMA SumOfMembers ==
  ASSUME NEW S, NEW m \in Seq(S),
         \A i, j \in 1 .. Len(m) : m[i] = m[j] => i = j,
         NEW values \in Seq(Words), Len(values) = Len(m),
         NEW val, \A i \in 1 .. Len(m) : values[i] = val[m[i]],
         NEW iter, Totals(iter, Range(m), val)
  PROVE  \E j \in Nat : iter[Range(m)] = Sum(values) + WordRange * j
<1> DEFINE n == Len(m)
           D == Range(m)
           First(k) == {m[i] : i \in 1 .. k}
<1>1. /\ n \in Nat /\ DOMAIN m = 1 .. n
      /\ \A k \in 1 .. n : values[k] \in Nat
      /\ D = First(n)
      /\ WordRange \in Nat \ {0}
  BY LenProperties, ElementOfSeq, Ranges DEF Words, Range
<1>2. IsFiniteSet(D)
  BY RangeSize
<1>3. \A x \in D : val[x] \in Nat
  BY <1>1
<1>4. /\ iter[{}] = 0
      /\ \A s \in SUBSET D : iter[s] \in Nat
      /\ \A s \in SUBSET D : \A e \in s : iter[s] = val[e] + iter[s \ {e}]
  <2> HIDE DEF D
  <2>1. Totals(iter, D, val)
    BY DEF D
  <2>2. QED
    BY <1>2, <1>3, <2>1, TotalsAnyLast
<1>5. PICK acc : /\ acc[0] = 0
                 /\ \A k \in 1 .. n : /\ acc[k - 1] \in Words
                                      /\ acc[k] = Plus(acc[k - 1], values[k])
                 /\ acc[n] \in Words
                 /\ Sum(values) = acc[n]
  BY SumSteps
<1> DEFINE U == {k \in 0 .. n : \E j \in Nat : iter[First(k)] = acc[k] + WordRange * j}
<1>6. 0 \in U
  <2>1. First(0) = {} /\ 0 = 0 + WordRange * 0
    BY <1>1
  <2>2. iter[First(0)] = 0 /\ acc[0] = 0 /\ 0 \in 0 .. n /\ 0 \in Nat
    <3> HIDE DEF First, D
    <3>1. iter[First(0)] = 0
      BY <1>4, <2>1, Zenon
    <3>2. acc[0] = 0
      BY <1>5
    <3>3. 0 \in 0 .. n /\ 0 \in Nat
      BY <1>1
    <3>4. QED
      BY <3>1, <3>2, <3>3
  <2> HIDE DEF First
  <2>3. iter[First(0)] = acc[0] + WordRange * 0
    BY <2>1, <2>2
  <2>4. QED
    BY <2>2, <2>3
<1>7. ASSUME NEW k \in 0 .. n - 1, k \in U PROVE k + 1 \in U
  <2>1. k + 1 \in 1 .. n /\ k + 1 \in 0 .. n /\ (k + 1) - 1 = k
    BY <1>1
  <2>2. PICK j \in Nat : iter[First(k)] = acc[k] + WordRange * j
    BY <1>7
  <2>3. /\ First(k + 1) \in SUBSET D /\ m[k + 1] \in First(k + 1)
        /\ First(k + 1) \ {m[k + 1]} = First(k)
    <3>1. /\ 1 .. k + 1 = (1 .. k) \cup {k + 1} /\ k + 1 \notin 1 .. k
          /\ \A i \in 1 .. k + 1 : i \in 1 .. n
      BY <1>1, <2>1
    <3>2. \A i \in 1 .. k : m[i] # m[k + 1]
      BY <1>1, <2>1, <3>1
    <3>3. First(k + 1) \in SUBSET D
      BY <1>1, <3>1
    <3>4. QED
      BY <3>1, <3>2, <3>3
  <2>4. iter[First(k + 1)] = values[k + 1] + iter[First(k)]
    <3> DEFINE s == First(k + 1)
               e == m[k + 1]
    <3>1. val[e] = values[k + 1]
      BY <2>1
    <3>2. s \in SUBSET D /\ e \in s /\ s \ {e} = First(k)
      BY <2>3
    <3> HIDE DEF s, e, First, D
    <3>3. iter[s] = val[e] + iter[s \ {e}]
      BY <1>4, <3>2
    <3>4. QED
      BY <3>1, <3>2, <3>3 DEF s
  <2>5. acc[k] \in Nat /\ values[k + 1] \in Nat /\ acc[k + 1] = Plus(acc[k], values[k + 1])
    BY <1>1, <1>5, <2>1, Ranges DEF Words
  <2> DEFINE a == acc[k] + values[k + 1]
  <2>6. /\ a \div WordRange \in Nat
        /\ a = WordRange * (a \div WordRange) + (a % WordRange)
    <3>1. a \in Nat
      BY <2>5
    <3> HIDE DEF a
    <3>2. a \div WordRange \in 0 .. a
      BY <1>1, <3>1, QuotientBelow
    <3>3. a \div WordRange \in Nat
      <4> DEFINE q == a \div WordRange
      <4> HIDE DEF q
      <4>1. q \in 0 .. a
        BY <3>2 DEF q
      <4>2. q \in Nat
        BY <3>1, <4>1
      <4>3. QED
        BY <4>2 DEF q
    <3>4. a = WordRange * (a \div WordRange) + (a % WordRange)
      <4>1. a \in Int /\ WordRange \in Nat \ {0}
        BY <1>1, <3>1
      <4>2. QED
        BY <4>1, QuotientRemainder, Zenon
    <3>5. QED
      BY <3>3, <3>4
  <2>7. acc[k + 1] = a % WordRange
    BY <2>5 DEF Plus
  <2>8. iter[First(k + 1)] = a + WordRange * j
    <3> DEFINE w == WordRange * j
    <3>1. w \in Nat
      BY <1>1
    <3> HIDE DEF w, First
    <3>2. iter[First(k + 1)] = values[k + 1] + (acc[k] + w)
      BY <2>2, <2>4 DEF w
    <3>3. values[k + 1] + (acc[k] + w) = (acc[k] + values[k + 1]) + w
      BY <2>5, <3>1
    <3>4. QED
      BY <3>2, <3>3 DEF w
  <2> DEFINE q == a \div WordRange
             r == a % WordRange
  <2>9. iter[First(k + 1)] = r + WordRange * (q + j)
    <3>1. r \in Nat /\ q \in Nat /\ a = WordRange * q + r
      <4>1. a \in Int
        BY <2>5
      <4> HIDE DEF a
      <4>2. r \in 0 .. WordRange - 1
        BY <1>1, <4>1, QuotientRemainder
      <4>3. r \in Nat
        <5> HIDE DEF r
        <5>1. QED
          BY <1>1, <4>2
      <4>4. QED
        BY <2>6, <4>3
    <3> HIDE DEF q, r, a, First
    <3>2. (WordRange * q + r) + WordRange * j = r + WordRange * (q + j)
      BY <1>1, <3>1
    <3>3. QED
      BY <2>8, <3>1, <3>2
  <2>10. q + j \in Nat /\ acc[k + 1] = r
    BY <2>6, <2>7
  <2> HIDE DEF q, r, First
  <2>11. QED
    BY <2>1, <2>9, <2>10
<1>8. n \in U
  <2> HIDE DEF U, n
  <2>1. 0 .. n \subseteq U
    BY <1>1, <1>6, <1>7, AllUpTo
  <2>2. QED
    BY <1>1, <2>1
<1>9. QED
  BY <1>1, <1>5, <1>8

-----------------------------------------------------------------------------
(* What an aggregation function returns.                                   *)

\* The values in the order of qsort.
Sorted(values, order) == [n \in DOMAIN values |-> values[order[n]]]

\* The values in their order are the same values; they ascend while qsort
\* compares them right.
LEMMA SortedIs ==
  ASSUME NEW values \in Seq(Words), NEW order \in SortOrders(values)
  PROVE  /\ Sorted(values, order) \in Seq(Words)
         /\ Len(Sorted(values, order)) = Len(values)
         /\ Range(Sorted(values, order)) = Range(values)
         /\ (\A i \in 1 .. Len(values) : values[i] < HalfRange) =>
              \A i, j \in 1 .. Len(values) :
                i < j => Sorted(values, order)[i] <= Sorted(values, order)[j]
<1> DEFINE n == Len(values)
           s == Sorted(values, order)
<1>1. /\ n \in Nat /\ DOMAIN values = 1 .. n
      /\ \A p \in 1 .. n : values[p] \in Words
      /\ \A p \in 1 .. n : order[p] \in 1 .. n
      /\ \A i \in 1 .. n : \E p \in 1 .. n : order[p] = i
      /\ \A p, r \in 1 .. n :
           p < r => values[order[p]] % HalfRange <= values[order[r]] % HalfRange
  BY OrderIs
<1>2. s = [p \in 1 .. n |-> values[order[p]]]
  BY <1>1 DEF Sorted
<1> HIDE DEF s
<1>3. \A p \in 1 .. n : s[p] = values[order[p]] /\ s[p] \in Words
  BY <1>1, <1>2
<1>4. s \in [1 .. n -> Words]
  BY <1>2, <1>3
<1>5. s \in Seq(Words)
  BY <1>1, <1>4, SeqDef
<1>6. Len(s) = n
  BY <1>1, <1>5, <1>2, LenProperties
<1>7. Range(s) = Range(values)
  <2> DEFINE D == 1 .. n
  <2>1. /\ DOMAIN s = D /\ DOMAIN values = D
        /\ \A p \in D : s[p] = values[order[p]] /\ order[p] \in D
        /\ \A i \in D : \E p \in D : order[p] = i
    BY <1>1, <1>2, <1>3
  <2> HIDE DEF D, n
  <2>2. ASSUME NEW v \in Range(s) PROVE v \in Range(values)
    <3>1. PICK p \in D : v = s[p]
      BY <2>1 DEF Range
    <3>2. v = values[order[p]] /\ order[p] \in D
      BY <2>1, <3>1
    <3>3. QED
      BY <2>1, <3>2 DEF Range
  <2>3. ASSUME NEW v \in Range(values) PROVE v \in Range(s)
    <3>1. PICK i \in D : v = values[i]
      BY <2>1 DEF Range
    <3>2. PICK p \in D : order[p] = i
      BY <2>1
    <3>3. v = s[p]
      BY <2>1, <3>1, <3>2
    <3>4. QED
      BY <2>1, <3>3 DEF Range
  <2>4. QED
    BY <2>2, <2>3
<1>8. ASSUME \A i \in 1 .. n : values[i] < HalfRange,
             NEW i \in 1 .. n, NEW j \in 1 .. n, i < j
      PROVE  s[i] <= s[j]
  <2>1. ASSUME NEW p \in 1 .. n PROVE values[p] % HalfRange = values[p]
    <3>1. HalfRange \in Nat \ {0} /\ values[p] \in Nat /\ values[p] < HalfRange
      BY <1>1, <1>8, Ranges DEF Words
    <3>2. values[p] \in 0 .. HalfRange - 1
      BY <3>1
    <3>3. QED
      BY <3>1, <3>2, SmallRemainder
  <2>2. values[order[i]] % HalfRange <= values[order[j]] % HalfRange
    BY <1>1, <1>8
  <2>3. /\ values[order[i]] % HalfRange = values[order[i]]
        /\ values[order[j]] % HalfRange = values[order[j]]
    <3> HIDE DEF n
    <3>1. order[i] \in 1 .. n /\ order[j] \in 1 .. n
      BY <1>1
    <3>2. QED
      BY <2>1, <3>1
  <2>4. QED
    BY <1>3, <2>2, <2>3
<1>9. QED
  BY <1>5, <1>6, <1>7, <1>8 DEF s

\* The branches of Aggregate.
LEMMA AggregateIs ==
  ASSUME NEW op, NEW common \in BOOLEAN, NEW values, NEW order
  PROVE  LET a == Aggregate(op, common, values, order)
             s == Sorted(values, order)
         IN /\ op = "static" => a = IF common THEN <<values[1]>> ELSE DropRepeats(s)
            /\ op = "union" => a = DropRepeats(s)
            /\ op = "count" => a = <<Len(values)>>
            /\ op \in {"min", "max"} => a = <<values[1]>>
            /\ op = "median" => a = <<s[Len(values) \div 2 + 1]>>
            /\ op = "mean" => a = <<Mean(values)>>
            /\ op = "stddev" => a = <<Deviation(values)>>
            /\ op = "sum" => a = <<Sum(values)>>
            /\ op = "prod" => a = <<Product(values)>>
            /\ op \in {"and", "or", "xor"} => a = <<Bitwise(op, values)>>
<1> DEFINE a == Aggregate(op, common, values, order)
           s == Sorted(values, order)
<1>1. op = "static" => a = IF common THEN <<values[1]>> ELSE DropRepeats(s)
  BY DEF Aggregate, Sorted
<1>2. op = "union" => a = DropRepeats(s)
  BY DEF Aggregate, Sorted
<1>3. op = "count" => a = <<Len(values)>>
  BY DEF Aggregate
<1>4. op \in {"min", "max"} => a = <<values[1]>>
  BY DEF Aggregate
<1>5. op = "median" => a = <<s[Len(values) \div 2 + 1]>>
  BY DEF Aggregate, Sorted
<1>6. op = "mean" => a = <<Mean(values)>>
  BY DEF Aggregate
<1>7. op = "stddev" => a = <<Deviation(values)>>
  BY DEF Aggregate
<1>8. op = "sum" => a = <<Sum(values)>>
  BY DEF Aggregate
<1>9. op = "prod" => a = <<Product(values)>>
  BY DEF Aggregate
<1>10. op \in {"and", "or", "xor"} => a = <<Bitwise(op, values)>>
  BY DEF Aggregate
<1>11. QED
  BY <1>1, <1>2, <1>3, <1>4, <1>5, <1>6, <1>7, <1>8, <1>9, <1>10, Zenon

\* The result is a sequence of words, and so is what it writes into the record
\* of the group.
LEMMA AggregateIsWords ==
  ASSUME NEW op \in AggrOps, NEW common \in BOOLEAN,
         NEW values \in Seq(Words), values # <<>>, Len(values) \in Words,
         NEW order \in SortOrders(values)
  PROVE  LET a == Aggregate(op, common, values, order)
         IN /\ a \in Seq(Words)
            /\ FieldValue(op, common, a) \in Words
<1> DEFINE a == Aggregate(op, common, values, order)
           s == Sorted(values, order)
           mid == Len(values) \div 2 + 1
<1>1. ASSUME NEW x \in Words PROVE <<x>> \in Seq(Words) /\ <<x>>[1] = x
  OBVIOUS
<1>2. /\ values[1] \in Words
      /\ s \in Seq(Words) /\ s # <<>>
      /\ s[mid] \in Words
  <2>1. Len(values) \in Nat /\ Len(values) # 0
    BY EmptySeq
  <2>2. 1 \in 1 .. Len(values) /\ mid \in 1 .. Len(values)
    BY <2>1
  <2> HIDE DEF s, mid
  <2>3. s \in Seq(Words) /\ Len(s) = Len(values)
    BY SortedIs DEF s
  <2>4. s # <<>>
    BY <2>1, <2>3, EmptySeq
  <2>5. values[1] \in Words
    BY <2>2, ElementOfSeq
  <2>6. s[mid] \in Words
    BY <2>2, <2>3, ElementOfSeq
  <2>7. QED
    BY <2>3, <2>4, <2>5, <2>6
<1>3. /\ DropRepeats(s) \in Seq(Words)
      /\ DropRepeats(s)[1] \in Words
  <2> HIDE DEF s
  <2>1. DropRepeats(s) \in Seq(Words) /\ DropRepeats(s) # <<>>
    BY <1>2, DropIs
  <2> DEFINE d == DropRepeats(s)
  <2> HIDE DEF d
  <2>2. Len(d) \in Nat /\ Len(d) # 0
    BY <2>1, EmptySeq, LenProperties DEF d
  <2>3. 1 \in 1 .. Len(d) /\ d \in Seq(Words)
    BY <2>1, <2>2 DEF d
  <2>4. d[1] \in Words
    BY <2>3, ElementOfSeq
  <2>5. QED
    BY <2>1, <2>4 DEF d
<1>4. 0 \in Words
  BY Ranges DEF Words
<1>5. \/ op \in {"static", "union"}
      \/ \E x \in Words : a = <<x>> /\ op # "static"
  <2> HIDE DEF s, mid
  <2>1. CASE op = "count"
    BY <2>1, AggregateIs
  <2>2. CASE op \in {"min", "max"}
    BY <1>2, <2>2, AggregateIs
  <2>3. CASE op = "median"
    <3>1. a = <<s[mid]>>
      BY <2>3, AggregateIs DEF s, mid
    <3>2. QED
      BY <1>2, <2>3, <3>1
  <2>4. CASE op = "mean"
    BY <2>4, AggregateIs, SumIsWord
  <2>5. CASE op = "stddev"
    BY <2>5, AggregateIs, SumIsWord
  <2>6. CASE op = "sum"
    BY <2>6, AggregateIs, SumIsWord
  <2>7. CASE op = "prod"
    BY <1>4, <2>7, AggregateIs, ProductIsZero
  <2>8. CASE op \in {"and", "or", "xor"}
    BY <2>8, AggregateIs, BitwiseIs
  <2>9. CASE op \in {"static", "union"}
    BY <2>9
  <2>10. QED
    BY <2>1, <2>2, <2>3, <2>4, <2>5, <2>6, <2>7, <2>8, <2>9 DEF AggrOps
<1>6. CASE op = "static"
  <2>1. a = IF common THEN <<values[1]>> ELSE DropRepeats(s)
    BY <1>6, AggregateIs
  <2> HIDE DEF s, a
  <2>2. QED
    BY <1>1, <1>2, <1>3, <1>4, <1>6, <2>1 DEF FieldValue, a
<1>7. CASE op = "union"
  <2>1. a = DropRepeats(s)
    BY <1>7, AggregateIs
  <2> HIDE DEF s, a
  <2>2. QED
    BY <1>3, <1>7, <2>1 DEF FieldValue, a
<1>8. CASE \E x \in Words : a = <<x>> /\ op # "static"
  <2>1. PICK x \in Words : a = <<x>> /\ op # "static"
    BY <1>8
  <2> HIDE DEF s, a
  <2>2. QED
    BY <1>1, <2>1 DEF FieldValue, a
<1>9. QED
  BY <1>5, <1>6, <1>7, <1>8

\* As many different members as places they are at.
LEMMA PlacesSize ==
  ASSUME NEW S, NEW m \in Seq(S),
         \A i, j \in 1 .. Len(m) : m[i] = m[j] => i = j,
         NEW I \in SUBSET (1 .. Len(m))
  PROVE  Cardinality({m[i] : i \in I}) = Cardinality(I)
<1> DEFINE J == {m[i] : i \in I}
           g == [i \in I |-> m[i]]
           n == Len(m)
<1>1. n \in Nat /\ IsFiniteSet(1 .. n)
  BY LenProperties, FS_Interval
<1>2. IsFiniteSet(I)
  <2> DEFINE D == 1 .. n
  <2>1. I \in SUBSET D /\ IsFiniteSet(D)
    BY <1>1
  <2> HIDE DEF D
  <2>2. QED
    BY <2>1, FS_Subset
<1>3. /\ g \in [I -> J]
      /\ \A i, j \in I : g[i] = g[j] => i = j
      /\ \A y \in J : \E i \in I : g[i] = y
  OBVIOUS
<1> HIDE DEF g, J
<1>4. g \in Injection(I, J) /\ g \in Surjection(I, J)
  BY <1>3, Fun_IsInj, Fun_IsSurj
<1>5. g \in Bijection(I, J)
  BY <1>4 DEF Bijection
<1>6. ExistsBijection(I, J)
  BY <1>5 DEF ExistsBijection
<1>7. QED
  BY <1>2, <1>6, FS_Bijection DEF J

\* A multiple leaves no remainder.
LEMMA MultipleRemainder ==
  ASSUME NEW p \in Nat \ {0}, NEW k \in Int
  PROVE  (p * k) % p = 0
<1> DEFINE a == p * k
<1>1. a \in Int
  OBVIOUS
<1>2. /\ a \div p \in Int /\ a % p \in 0 .. p - 1
      /\ a = p * (a \div p) + (a % p)
  <2> HIDE DEF a
  <2>1. QED
    BY <1>1, QuotientRemainder
<1> DEFINE q == a \div p
           r == a % p
<1>3. q \in Int /\ r \in 0 .. p - 1 /\ p * k = p * q + r
  BY <1>2
<1> HIDE DEF q, r
<1>4. r = p * (k - q)
  BY <1>3
<1>5. k - q \in Int /\ ~ (k - q >= 1) /\ ~ (k - q <= -1)
  <2> DEFINE d == k - q
  <2>1. d \in Int /\ r = p * d /\ r \in 0 .. p - 1
    BY <1>3, <1>4
  <2> HIDE DEF d
  <2>2. d >= 1 => p * d >= p
    BY <2>1
  <2>3. d <= -1 => p * d <= -p
    BY <2>1
  <2>4. QED
    BY <2>1, <2>2, <2>3 DEF d
<1>6. k - q = 0
  BY <1>5
<1>7. r = 0
  BY <1>4, <1>6
<1>8. QED
  BY <1>7 DEF r, a

=============================================================================
